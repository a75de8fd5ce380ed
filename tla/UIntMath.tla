------------------------------ MODULE UIntMath ------------------------------
(***************************************************************************)
(* The bounded counters of source/utility/utility.cpp, UINTAdd and UINTSub,*)
(* and GenRandUINT, on unsigned integers that wrap: a value of at most max *)
(* that is raised and lowered, while an account is kept of what the two    *)
(* functions report to have added and taken.                               *)
(***************************************************************************)
EXTENDS Integers

CONSTANT
    Width             \* how many values an unsigned int has

ASSUME WidthAssumption == Width \in Nat \ {0}

VARIABLES
    max,              \* the bound of the value
    value,            \* the value
    account,          \* history: what was reported added, less what was reported taken
    drawn             \* the last random value, and the range it was asked for

uintvars == <<max, value, account, drawn>>

UInt == 0..(Width - 1)

\* The result of one unsigned addition or subtraction.
Wrap(n) == IF n >= Width THEN n - Width ELSE IF n < 0 THEN n + Width ELSE n

Result(v, by) == [value |-> v, by |-> by]

\* Mutant: the test as one would write it first, which wraps.
UINTAddWraps(src, add, bound) ==
    IF src >= bound THEN Result(bound, 0)
    ELSE IF Wrap(src + add) > bound THEN Result(bound, Wrap(bound - src))
    ELSE Result(Wrap(src + add), add)

\* UINTAdd: what is added is reported in the argument.
UINTAdd(src, add, bound) ==
    IF src >= bound THEN Result(bound, 0)
    ELSE IF bound < add \/ src > Wrap(bound - add) THEN Result(bound, Wrap(bound - src))
    ELSE Result(Wrap(src + add), add)

\* UINTSub: with sub above max everything is taken, also if sub is below src.
UINTSub(src, sub, bound) ==
    IF src < sub \/ bound < sub THEN Result(0, src) ELSE Result(Wrap(src - sub), sub)

\* Mutant: the bounds are not swapped.
GenRandUnswapped(lo, hi, random) ==
    IF lo = hi THEN lo ELSE Wrap((random % Wrap(hi - lo)) + lo)

\* GenRandUINT, for a value of the generator.
GenRandUINT(lo, hi, random) ==
    IF lo = hi THEN lo
    ELSE IF lo > hi THEN Wrap((random % Wrap(lo - hi)) + hi)
    ELSE Wrap((random % Wrap(hi - lo)) + lo)

-----------------------------------------------------------------------------
UIntInit ==
    /\ max \in UInt
    /\ value \in 0..max
    /\ account = value
    /\ drawn = [from |-> 0, to |-> 0, got |-> 0]

Add ==
    /\ \E add \in UInt :
         LET r == UINTAdd(value, add, max)
         IN  value' = r.value /\ account' = account + r.by
    /\ UNCHANGED <<max, drawn>>

Sub ==
    /\ \E sub \in UInt :
         LET r == UINTSub(value, sub, max)
         IN  value' = r.value /\ account' = account - r.by
    /\ UNCHANGED <<max, drawn>>

Draw ==
    /\ \E lo, hi, random \in UInt :
         drawn' = [from |-> lo, to |-> hi, got |-> GenRandUINT(lo, hi, random)]
    /\ UNCHANGED <<max, value, account>>

UIntNext == Add \/ Sub \/ Draw

UIntSpec == UIntInit /\ [][UIntNext]_uintvars

-----------------------------------------------------------------------------
(* Properties *)

\* What was reported added and taken accounts for the value, which never leaves
\* its bounds, however often it is pushed against them and wherever they are.
AccountBalances ==
    /\ max \in UInt
    /\ value \in 0..max
    /\ account = value

\* utility.h:138: a random value is at least the smaller bound and below the
\* larger one, in whatever order they are given, unless the two are equal.
DrawnInRange ==
    LET lo == IF drawn.from <= drawn.to THEN drawn.from ELSE drawn.to
        hi == IF drawn.from <= drawn.to THEN drawn.to ELSE drawn.from
    IN  IF lo = hi THEN drawn.got = lo ELSE drawn.got \in lo..(hi - 1)

=============================================================================
