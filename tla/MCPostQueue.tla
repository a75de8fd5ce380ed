---------------------------- MODULE MCPostQueue ----------------------------
(* Instances of PostQueue for TLC.                                         *)
EXTENDS PostQueue

CONSTANTS p1, p2, io

MCPosters == {p1, p2}
NoPoison == {}
\* The first job of p1 always throws.
OnePoison == {<<p1, 1>>}
=============================================================================
