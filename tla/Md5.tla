-------------------------------- MODULE Md5 --------------------------------
(***************************************************************************)
(* MD5Init, MD5Update and MD5Final (source/md5/md5.cpp): a message that    *)
(* comes in pieces, cut into blocks.                                       *)
(*                                                                         *)
(* The compression of a block, MD5Transform, is left out: the state of a   *)
(* context is the sequence of the blocks it has been given.  A byte is not *)
(* its value but where it comes from.                                      *)
(*                                                                         *)
(* Bounds: MaxLen, the length of the message; a piece is at most Word -    *)
(* Block long, above which the loop of MD5Update would wrap.               *)
(***************************************************************************)
EXTENDS Integers, Sequences

CONSTANTS
    Block,            \* the bytes of a block (64)
    Field,            \* the bytes of the length at its end (8)
    Word,             \* how many values an unsigned int has (2^32)
    MaxLen

\* A count of bits modulo Word still tells the place in the block.
ASSUME Md5Assumption ==
    /\ Block \in Nat \ {0} /\ Field \in 1..(Block - 1)
    /\ Word \in Nat \ {0} /\ Word % (8 * Block) = 0
    /\ MaxLen \in Nat

VARIABLES
    context,          \* the MD5_CTX
    fed,              \* history: how many bytes of the message have come
    digest            \* what MD5Final has returned, or None

md5vars == <<context, fed, digest>>

None == <<>>

\* Bytes, by their origin: of the message, of the length, of the padding, and what
\* is in the buffer before anything is written.
MessageByte(n) == <<"message", n, 0>>
LengthByte(length, i) == <<"length", length, i>>
Mark == <<"mark", 0, 0>>
Zero == <<"zero", 0, 0>>
Junk == <<"junk", 0, 0>>

Bytes(from, to) == [i \in 1..(to - from + 1) |-> MessageByte(from + i - 1)]

MD5Init ==
    [count |-> <<0, 0>>, state |-> <<>>, buffer |-> [i \in 1..Block |-> Junk]]

-----------------------------------------------------------------------------
\* memcpy(&buffer[index], piece, the length of piece).
Copy(buffer, index, piece) ==
    [i \in 1..Block |->
        IF i \in (index + 1)..(index + Len(piece)) THEN piece[i - index] ELSE buffer[i]]

\* The place in the block, from the low word of the count of bits.
Index(ctx) == (ctx.count[1] \div 8) % Block

\* Mutant: no carry between the words.
AddedNoCarry(count, len) ==
    <<(count[1] + 8 * len) % Word, (count[2] + ((8 * len) \div Word)) % Word>>

\* count[0] += inputlen << 3 with its carry, count[1] += inputlen >> 29.
Added(count, len) ==
    LET bits == (8 * len) % Word
        low == (count[1] + bits) % Word
        carry == IF low < bits THEN 1 ELSE 0
    IN  <<low, (count[2] + carry + ((8 * len) \div Word)) % Word>>

\* MD5Update: the block in the buffer, whole blocks of the input, and the rest.
MD5Update(ctx, input) ==
    LET index == Index(ctx)
        part == Block - index
        whole == (Len(input) - part) \div Block
        used == part + whole * Block
        first == Copy(ctx.buffer, index, SubSeq(input, 1, part))
    IN  IF Len(input) < part
        THEN [ctx EXCEPT !.count = Added(@, Len(input)), !.buffer = Copy(@, index, input)]
        ELSE [count |-> Added(ctx.count, Len(input)),
              state |-> ctx.state \o <<first>> \o
                          [k \in 1..whole |-> SubSeq(input, part + (k - 1) * Block + 1,
                                                     part + k * Block)],
              buffer |-> Copy(first, 0, SubSeq(input, used + 1, Len(input)))]

\* MD5Encode of a count: the length field, byte by byte.
MD5Encode(count) ==
    [i \in 1..Field |-> LengthByte(count[1] + Word * count[2], i)]

\* PADDING, one byte that marks the end and zeros.
Padding(len) == [i \in 1..len |-> IF i = 1 THEN Mark ELSE Zero]

\* Mutant: 56 has no room for the mark.
PadLengthShort(index) ==
    IF index <= Block - Field THEN (Block - Field) - index ELSE (2 * Block - Field) - index

PadLength(index) ==
    IF index < Block - Field THEN (Block - Field) - index ELSE (2 * Block - Field) - index

\* MD5Final: the length is encoded before the padding counts.
MD5Final(ctx) ==
    LET bits == MD5Encode(ctx.count)
        padded == MD5Update(ctx, Padding(PadLength(Index(ctx))))
    IN  MD5Update(padded, bits).state

-----------------------------------------------------------------------------
Md5Init ==
    /\ context = MD5Init
    /\ fed = 0
    /\ digest = None

Update ==
    /\ digest = None
    /\ \E len \in {n \in 0..(Word - Block) : fed + n <= MaxLen} :
         /\ context' = MD5Update(context, Bytes(fed + 1, fed + len))
         /\ fed' = fed + len
    /\ UNCHANGED digest

\* MD5Final, after which the context is of no use.
Final ==
    /\ digest = None
    /\ digest' = MD5Final(context)
    /\ UNCHANGED <<context, fed>>

Md5Next == Update \/ Final

Md5Spec == Md5Init /\ [][Md5Next]_md5vars

-----------------------------------------------------------------------------
(* Properties *)

\* A sequence of bytes, cut into blocks.
CutIntoBlocks(bytes) ==
    [k \in 1..(Len(bytes) \div Block) |-> SubSeq(bytes, (k - 1) * Block + 1, k * Block)]

\* The message as RFC 1321 wants it padded: a mark, the fewest zeros that leave
\* the length at the end of a block, the length.
Padded(len) ==
    LET zeros == CHOOSE z \in 0..(Block - 1) : (len + 1 + z + Field) % Block = 0
    IN  Bytes(1, len) \o <<Mark>> \o [i \in 1..zeros |-> Zero]
          \o MD5Encode(<<(8 * len) % Word, ((8 * len) \div Word) % Word>>)

\* In whatever pieces a message comes, it is hashed as if it came whole and was
\* padded as the standard says; nothing that was never written gets in.
DigestIsOfPadded == digest # None => digest = CutIntoBlocks(Padded(fed))

\* Between two calls the two words together count the bits modulo Word * Word, the
\* state has all whole blocks and the buffer begins with the rest.
ContextIsExact ==
    /\ context.count[1] + Word * context.count[2] = (8 * fed) % (Word * Word)
    /\ context.state = CutIntoBlocks(Bytes(1, fed))
    /\ SubSeq(context.buffer, 1, fed % Block) = Bytes(fed - (fed % Block) + 1, fed)

\* Whatever pieces the message comes in, at every call and at the end.
HashesTheMessage == ContextIsExact /\ DigestIsOfPadded

=============================================================================
