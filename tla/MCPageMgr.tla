----------------------------- MODULE MCPageMgr -----------------------------
(* Instances of PageMgr for TLC.                                           *)
EXTENDS PageMgr, TLC

CONSTANTS p1, p2, p3, p4

FourPages == {p1, p2, p3, p4}
PageSymmetry == Permutations(FourPages)

\* Two alignments for one size, and a block that does not fit an ordinary page.
MixedRequests == {[size |-> 3, align |-> 2], [size |-> 4, align |-> 4],
                  [size |-> 9, align |-> 4]}
MallocStarts == {0, 2}
=============================================================================
