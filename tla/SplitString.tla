---------------------------- MODULE SplitString ----------------------------
(***************************************************************************)
(* SplitString (source/utility/utility.cpp), one step for each turn of its *)
(* loop: the pieces of a string between the separators.  With it           *)
(* ipport2sockaddr (source/net/impl_nethead.h) tells the kinds of address  *)
(* that Listen and Connect are given.                                      *)
(*                                                                         *)
(* Bounds: MaxString and MaxSeparator, the lengths of the two strings;     *)
(* MaxPieces, where a loop that never ends is left.                        *)
(***************************************************************************)
EXTENDS Naturals, Sequences

CONSTANTS Chars, MaxString, MaxSeparator, MaxPieces

ASSUME SplitAssumption == MaxString \in Nat /\ MaxSeparator \in Nat /\ MaxPieces \in Nat

VARIABLES
    str, spt,         \* the arguments
    st,               \* what is left of the string
    list,             \* the pieces so far
    done              \* SplitString has returned list

splitvars == <<str, spt, st, list, done>>

StringsUpTo(max) == UNION {[1..n -> Chars] : n \in 0..max}

\* Where spt is in s; a string that is empty is everywhere.
Found(s, sub) ==
    {p \in 0..(Len(s) - Len(sub)) : SubSeq(s, p + 1, p + Len(sub)) = sub}

\* std::string::find, unless it returns npos.
Find(s, sub) == CHOOSE p \in Found(s, sub) : \A q \in Found(s, sub) : p <= q

SplitInit ==
    /\ str \in StringsUpTo(MaxString)
    /\ spt \in StringsUpTo(MaxSeparator)
    /\ st = str
    /\ list = <<>>
    /\ done = FALSE

\* Mutant: one character is erased with the piece, whatever the separator is.
NextPieceByOne ==
    /\ ~done
    /\ Found(st, spt) # {} /\ Len(list) < MaxPieces
    /\ LET pos == Find(st, spt)
       IN  /\ list' = Append(list, SubSeq(st, 1, pos))
           /\ st' = SubSeq(st, pos + 2, Len(st))
    /\ UNCHANGED <<str, spt, done>>

\* Mutant: the separator is left at the beginning of the rest.
NextPieceKeeps ==
    /\ ~done
    /\ Found(st, spt) # {} /\ Len(list) < MaxPieces
    /\ LET pos == Find(st, spt)
       IN  /\ list' = Append(list, SubSeq(st, 1, pos))
           /\ st' = SubSeq(st, pos + 1, Len(st))
    /\ UNCHANGED <<str, spt, done>>

NextPiece ==
    /\ ~done
    /\ Found(st, spt) # {} /\ Len(list) < MaxPieces
    /\ LET pos == Find(st, spt)
       IN  /\ list' = Append(list, SubSeq(st, 1, pos))
           /\ st' = SubSeq(st, pos + Len(spt) + 1, Len(st))
    /\ UNCHANGED <<str, spt, done>>

\* The rest is the last piece, also if it is empty.
LastPiece ==
    /\ ~done
    /\ Found(st, spt) = {}
    /\ list' = Append(list, st)
    /\ done' = TRUE
    /\ UNCHANGED <<str, spt, st>>

SplitNext == NextPiece \/ LastPiece

SplitSpec == SplitInit /\ [][SplitNext]_splitvars

-----------------------------------------------------------------------------
(* Properties *)

\* The pieces with a separator between them.
Joined(pieces, sep) ==
    LET upTo[i \in 0..Len(pieces)] ==
          IF i = 0 THEN <<>>
          ELSE upTo[i - 1] \o IF i = 1 THEN pieces[i] ELSE sep \o pieces[i]
    IN  upTo[Len(pieces)]

\* Nothing is lost: at every turn the pieces and the rest join to the string, and
\* no piece holds a separator, in the end not even the last; whatever the
\* separator, also one that overlaps itself.  With an empty one, which is found
\* for ever, the loop never comes to its end.
PiecesJoin ==
    /\ Joined(IF done THEN list ELSE Append(list, st), spt) = str
    /\ spt # <<>> => \A i \in DOMAIN list : Found(list[i], spt) = {}
    /\ done => spt # <<>>

=============================================================================
