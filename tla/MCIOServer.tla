---------------------------- MODULE MCIOServer ----------------------------
(* Instances of IOServer for TLC.                                          *)
EXTENDS IOServer

CONSTANTS t1, t2

TwoTimers == {t1, t2}
=============================================================================
