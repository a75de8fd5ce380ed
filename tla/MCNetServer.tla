---------------------------- MODULE MCNetServer ----------------------------
(* Instances of NetServer for TLC.                                         *)
EXTENDS NetServer

CONSTANTS c1, c2

TwoConns == {c1, c2}

\* The first connection carries a message, the second only opens and closes.
OneMessage == [c \in TwoConns |-> IF c = c1 THEN 1 ELSE 0]
=============================================================================
