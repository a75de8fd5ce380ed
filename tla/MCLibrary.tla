----------------------------- MODULE MCLibrary ------------------------------
(* One instance for TLC of the parts of the library that have nothing to do *)
(* with each other: a free list of blocks, a message in buffers, counted    *)
(* pointers, the calendar, the bounded counters, a string to split, a hash  *)
(* and a UDP socket.  A behaviour is one of a single part, chosen at the    *)
(* start; the others stay in one initial state.                             *)
EXTENDS MPage, IOBuffer, RefPtr, Calendar, UIntMath, SplitString, Md5, UdpSocket

VARIABLE part         \* whose behaviour it is

pagevars == vars
libvars == <<part, pagevars, buffervars, ptrvars, calendarvars, uintvars, splitvars,
             md5vars, udpvars>>

-----------------------------------------------------------------------------
(* Values.  With three byte values a length below 2 takes one byte, below 8 *)
(* three and from 8 on seven.                                               *)

Ones(n) == [i \in 1..n |-> IF i = n THEN 2 ELSE 1]

\* Lengths on both sides of every change of form, and a zero, which ends a
\* string.
EveryForm == {<<>>, <<1, 2>>, Ones(7), Ones(8), <<1, 0, 2>>}

SmallAndLarge == {5, 69}

\* Every order of two values.
AllSchemas == {"string", "cstring", "number"} \X {"string", "cstring", "number"}

\* Shanghai, Greenwich and a zone behind it that is no multiple of an hour.
SomeZones == {28800, 0, -12600}

\* New Year's Eve of 1998, 23:59:59 UTC, and two hours later.
NewYear == {915148799, 915156000}

\* The end of 2004: a leap year at both ends of the century.
Until2004 == 1104537600

\* Ten days less an hour and a second, which wanders through the day, and a
\* leap year.
Pauses == {10 * Day - 3601, 366 * Day}

-----------------------------------------------------------------------------
\* What of its initial states a part that does not run is left in.
Idle(p, state) == IF part = p THEN TRUE ELSE state

LibInit ==
    /\ part \in {"page", "buffer", "pointer", "calendar", "uint", "split", "md5", "udp"}
    /\ Idle("page", all = 1 /\ next = [b \in Blocks |-> 0]) /\ Init
    /\ Idle("buffer", schema = <<"string", "string">> /\ biged = TRUE /\ sender = TRUE
                         /\ receiver = TRUE) /\ BufferInit
    /\ PtrInit
    /\ Idle("calendar", zone = 0 /\ now = 915148799) /\ CalendarInit
    /\ Idle("uint", max = 0) /\ UIntInit
    /\ Idle("split", str = <<>> /\ spt = <<"a">>) /\ SplitInit
    /\ Md5Init
    /\ UdpInit

Page == part = "page" /\ Next
Buffer == part = "buffer" /\ BufferNext
Pointer == part = "pointer" /\ PtrNext
Dates == part = "calendar" /\ CalendarNext
Counter == part = "uint" /\ UIntNext
Split == part = "split" /\ SplitNext
Hash == part = "md5" /\ Md5Next
Udp == part = "udp" /\ UdpNext

LibNext ==
    /\ UNCHANGED part
    /\ \/ Page /\ UNCHANGED <<buffervars, ptrvars, calendarvars, uintvars, splitvars, md5vars, udpvars>>
       \/ Buffer /\ UNCHANGED <<pagevars, ptrvars, calendarvars, uintvars, splitvars, md5vars, udpvars>>
       \/ Pointer /\ UNCHANGED <<pagevars, buffervars, calendarvars, uintvars, splitvars, md5vars, udpvars>>
       \/ Dates /\ UNCHANGED <<pagevars, buffervars, ptrvars, uintvars, splitvars, md5vars, udpvars>>
       \/ Counter /\ UNCHANGED <<pagevars, buffervars, ptrvars, calendarvars, splitvars, md5vars, udpvars>>
       \/ Split /\ UNCHANGED <<pagevars, buffervars, ptrvars, calendarvars, uintvars, md5vars, udpvars>>
       \/ Hash /\ UNCHANGED <<pagevars, buffervars, ptrvars, calendarvars, uintvars, splitvars, udpvars>>
       \/ Udp /\ UNCHANGED <<pagevars, buffervars, ptrvars, calendarvars, uintvars, splitvars, md5vars>>

\* The fairness is that of the UDP socket: its IO thread goes on.
LibSpec == LibInit /\ [][LibNext]_libvars /\ WF_udpvars(UdpIOStep)

\* The functions of utility.cpp: dates are where the calendar has them, counters
\* account for what they report, random values are in their range and the pieces
\* of a string are those between its separators.
UtilityIsRight ==
    /\ part = "calendar" => CalendarIsRight
    /\ part = "uint" => AccountBalances /\ DrawnInRange
    /\ part = "split" => PiecesJoin
=============================================================================
