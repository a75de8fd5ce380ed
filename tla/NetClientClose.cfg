\* The user closes the client while messages wait for the main thread.
SPECIFICATION Spec
CONSTANT MaxMain = 3
INVARIANT OwnerOutlivesMessages
CHECK_DEADLOCK FALSE
