------------------------------ MODULE IOBuffer ------------------------------
(***************************************************************************)
(* A message in two CIOBuffers (include/net/iobuffer.h): one is filled     *)
(* with << and sent, the bytes arrive in the other in pieces, as with      *)
(* Async_RecvSome, and are read with >> and readcstring.  The two machines *)
(* may differ in byte order; both buffers were made with the same biged.   *)
(*                                                                         *)
(* A byte has Base values, for 256, so that every form of the length       *)
(* before a string is reached by short strings; sizeof is what it is.      *)
(* Containers are a number and their elements, floating point numbers are  *)
(* bytes like integers: neither adds anything here.                        *)
(*                                                                         *)
(* Bound: messages follow a Schema, which both sides know.                 *)
(***************************************************************************)
EXTENDS Naturals, Sequences, SequencesExt, FiniteSetsExt

CONSTANTS
    Base,             \* how many values a byte has
    SendSize, RecvSize,   \* the sizes of the two buffers
    Schemas,          \* what messages may be made of: "string", "cstring", "number"
    Strings, Numbers, \* the values to write
    OutSizes          \* the sizes of the arrays readcstring reads into

Byte == 0..(Base - 1)
MaxByte == Base - 1
MaxShort == Base * Base - 1
MaxInt == Base * Base * Base * Base - 1

\* Sizes and numbers are of four bytes.
ASSUME BufferAssumption ==
    /\ Base \in Nat \ {0, 1}
    /\ SendSize \in 0..MaxInt /\ RecvSize \in 0..MaxInt
    /\ Schemas \subseteq Seq({"string", "cstring", "number"})
    /\ Strings \subseteq Seq(Byte)
    /\ Numbers \subseteq 0..MaxInt
    /\ OutSizes \subseteq Nat

VARIABLES
    schema,           \* the message at hand
    biged,            \* m_biged of both buffers
    sender, receiver, \* XH_SYSTEM_BIGENDIAN() of the two machines
    bytes,            \* what has been written to the sender's buffer
    arrived,          \* m_pread of the sender's buffer and m_pwrite of the receiver's
    pread,            \* m_pread of the receiver's buffer
    wrote, got,       \* history: the values written and read
    intact            \* history: no exception has left half a value behind

setting == <<schema, biged, sender, receiver>>
buffervars == <<setting, bytes, arrived, pread, wrote, got, intact>>

BufferInit ==
    /\ schema \in Schemas
    /\ biged \in BOOLEAN /\ sender \in BOOLEAN /\ receiver \in BOOLEAN
    /\ bytes = <<>>
    /\ arrived = 0
    /\ pread = 0
    /\ wrote = <<>>
    /\ got = <<>>
    /\ intact = TRUE

-----------------------------------------------------------------------------
(* Writing *)

\* What a byte counts by its place in a number.
Place == <<1, Base, Base * Base, Base * Base * Base>>

\* A number of w bytes in the memory of a machine, and back.
InMemory(v, w, big) ==
    LET little == [i \in 1..w |-> (v \div Place[i]) % Base]
    IN  IF big THEN Reverse(little) ELSE little

FromMemory(s, big) ==
    LET high == IF big THEN s ELSE Reverse(s)
        value[i \in 0..Len(s)] == IF i = 0 THEN 0 ELSE value[i - 1] * Base + high[i]
    IN  value[Len(s)]

\* Mutant: the bytes are written in the order of the machine.
CareEDIgnored(s, big) == s

\* Write_CareED and Read_CareED: reversed unless the machine has the order asked for.
CareED(s, big) == IF big = biged THEN s ELSE Reverse(s)

NumberBytes(v, w) == CareED(InMemory(v, w, sender), sender)

\* c_str() and strlen: a string ends at its first zero.
CString(s) ==
    LET zero(c) == c = 0
        first == SelectInSeq(s, zero)
    IN  IF first = 0 THEN s ELSE SubSeq(s, 1, first - 1)

\* Mutant: the marker of a long length is taken for a length.
PiecesOffByOne(s) ==
    LET n == Len(s)
    IN  (CASE n <= MaxByte -> << <<n>> >>
           [] n > MaxByte /\ n < MaxShort -> << <<MaxByte>>, NumberBytes(n, 2) >>
           [] n >= MaxShort -> << <<MaxByte>>, NumberBytes(MaxShort, 2), NumberBytes(n, 4) >>)
        \o <<s>>

\* operator<<(const char*): the length in one of three forms, then the string,
\* each written, and checked, on its own.
Pieces(s) ==
    LET n == Len(s)
    IN  (CASE n < MaxByte -> << <<n>> >>
           [] n >= MaxByte /\ n < MaxShort -> << <<MaxByte>>, NumberBytes(n, 2) >>
           [] n >= MaxShort -> << <<MaxByte>>, NumberBytes(MaxShort, 2), NumberBytes(n, 4) >>)
        \o <<s>>

Kind == schema[Len(wrote) + 1]

\* The pieces are written up to the one that does not fit, which throws.
Write(value, pieces) ==
    LET upTo[k \in 0..Len(pieces)] == IF k = 0 THEN <<>> ELSE upTo[k - 1] \o pieces[k]
        fit == Max({k \in 0..Len(pieces) : Len(bytes \o upTo[k]) <= SendSize})
    IN  /\ bytes' = bytes \o upTo[fit]
        /\ wrote' = IF fit = Len(pieces) THEN Append(wrote, value) ELSE wrote
        /\ intact' = (intact /\ fit \in {0, Len(pieces)})
        /\ UNCHANGED <<setting, arrived, pread, got>>

Put ==
    /\ Len(wrote) < Len(schema)
    /\ IF Kind = "number"
       THEN \E v \in Numbers : Write(v, <<NumberBytes(v, 4)>>)
       ELSE \E s \in Strings : Write(CString(s), Pieces(CString(s)))

-----------------------------------------------------------------------------
(* Sending and receiving *)

\* Mutant: recv is given more than the room of the buffer.
TransferTooMuch ==
    /\ \E n \in 1..(Len(bytes) - arrived) : arrived' = arrived + n
    /\ UNCHANGED <<setting, bytes, pread, wrote, got, intact>>

\* send of some of AvailRead() bytes and recv into AvailWrite(), with SeekRead
\* and SeekWrite by what was sent and received.
Transfer ==
    /\ \E n \in 1..Min({Len(bytes), RecvSize}) - arrived : arrived' = arrived + n
    /\ UNCHANGED <<setting, bytes, pread, wrote, got, intact>>

-----------------------------------------------------------------------------
(* Reading *)

\* A number of w bytes at a position, in the order of the receiver.
NumberAt(pos, w) ==
    FromMemory(CareED(SubSeq(bytes, pos + 1, pos + w), receiver), receiver)

Has(pos, w) == arrived - pos >= w

\* The length before a string: read up to `at', and complete if ok.
LengthAt(pos) ==
    LET length(ok, n, at) == [ok |-> ok, n |-> n, at |-> at]
    IN  IF ~Has(pos, 1) THEN length(FALSE, 0, pos)
        ELSE IF NumberAt(pos, 1) < MaxByte THEN length(TRUE, NumberAt(pos, 1), pos + 1)
        ELSE IF ~Has(pos + 1, 2) THEN length(FALSE, 0, pos + 1)
        ELSE IF NumberAt(pos + 1, 2) < MaxShort THEN length(TRUE, NumberAt(pos + 1, 2), pos + 3)
        ELSE IF ~Has(pos + 3, 4) THEN length(FALSE, 0, pos + 3)
        ELSE length(TRUE, NumberAt(pos + 3, 4), pos + 7)

Returns(value, at) ==
    /\ got' = Append(got, value)
    /\ pread' = at
    /\ UNCHANGED <<setting, bytes, arrived, wrote, intact>>

\* An exception leaves the cursor behind what was read before it.
Throws(at) ==
    /\ pread' = at
    /\ intact' = (intact /\ at = pread)
    /\ UNCHANGED <<setting, bytes, arrived, wrote, got>>

ReadBody(h) ==
    IF h.ok /\ Has(h.at, h.n) THEN Returns(SubSeq(bytes, h.at + 1, h.at + h.n), h.at + h.n)
                              ELSE Throws(h.at)

Expects(kind) == Len(got) < Len(schema) /\ schema[Len(got) + 1] = kind

GetNumber ==
    /\ Expects("number")
    /\ IF Has(pread, 4) THEN Returns(NumberAt(pread, 4), pread + 4) ELSE Throws(pread)

\* operator>>(std::string&), and operator>>(char*) into a large enough array.
GetString ==
    /\ Expects("string")
    /\ ReadBody(LengthAt(pread))

\* Mutant: a string that is too long for out is not rewound.
GetCStringUnwound ==
    /\ Expects("cstring")
    /\ \E outsize \in OutSizes :
         LET h == LengthAt(pread)
         IN  IF outsize = 0 \/ (h.ok /\ h.n >= outsize)
             THEN pread' = h.at /\ UNCHANGED <<setting, bytes, arrived, wrote, got, intact>>
             ELSE ReadBody(h)

\* readcstring, into an array of zeros: it terminates the array and not the
\* string.  One that is too long for out, with its terminator, is rewound and
\* can be read again into a larger array.
GetCString ==
    /\ Expects("cstring")
    /\ \E outsize \in OutSizes :
         LET h == LengthAt(pread)
         IN  IF outsize = 0 \/ (h.ok /\ h.n >= outsize) THEN Throws(pread) ELSE ReadBody(h)

-----------------------------------------------------------------------------
BufferNext == Put \/ Transfer \/ GetNumber \/ GetString \/ GetCString

BufferSpec == BufferInit /\ [][BufferNext]_buffervars

-----------------------------------------------------------------------------
(* Properties *)

\* Whatever exceptions have left behind, and whatever is taken for a length
\* afterwards, no cursor leaves its buffer or overtakes the one before it.
CursorsInBounds ==
    /\ Len(bytes) <= SendSize
    /\ pread <= arrived /\ arrived <= Len(bytes) /\ arrived <= RecvSize

\* What is read is what was written, in order, whatever the byte orders, the
\* form of the lengths, the pieces the bytes arrive in and the arrays that were
\* too small; and the reader is at the end of a value, never inside one.  After an
\* exception that left part of a value behind no more is promised than that the
\* cursors stay where they may be.
RoundTrip ==
    /\ intact => /\ IsPrefix(got, wrote)
                 /\ Len(got) = Len(wrote) <=> pread = Len(bytes)
    /\ CursorsInBounds

=============================================================================
