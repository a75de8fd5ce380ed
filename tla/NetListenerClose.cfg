\* One listener, closed once by its user.
SPECIFICATION Spec
CONSTANT MaxCloses = 1
INVARIANT UsedIsAlive
CHECK_DEADLOCK FALSE
