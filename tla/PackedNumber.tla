---------------------------- MODULE PackedNumber ----------------------------
(***************************************************************************)
(* The packed numbers of the byte buffers (corelib/ioBuffer): a number of  *)
(* Width bits is written in groups of GroupBits bits, the most significant *)
(* group first, leading zero groups left out, and every byte but the last  *)
(* with its high bit set.  The code has Width = 64 and GroupBits = 7.      *)
(***************************************************************************)
EXTENDS Naturals, Sequences, SequencesExt

CONSTANTS
    Width,       \* bits of a number
    GroupBits    \* bits a byte carries

ASSUME WidthAssumption == Width \in Nat \ {0} /\ GroupBits \in Nat \ {0}

\* Shifting by n bits multiplies or divides by this.
Pow2[n \in Nat] == IF n = 0 THEN 1 ELSE 2 * Pow2[n - 1]

Modulus == Pow2[Width]
High == Pow2[GroupBits]           \* the high bit of a byte
Byte == 0 .. 2 * High - 1
Numbers == 0 .. Modulus - 1

\* The groups the writer's loop looks at, counted from the least significant:
\* the last i with GroupBits * i < Width.
LastGroup == (Width - 1) \div GroupBits

Group(N, i) == (N \div Pow2[GroupBits * i]) % High

\* The group the writer starts with: the highest that is not zero, or the last one.
FirstWritten(N) == CHOOSE i \in 0 .. LastGroup :
    /\ Group(N, i) # 0 \/ i = 0
    /\ \A j \in i + 1 .. LastGroup : Group(N, j) = 0

\* put_PN$
Flag(i) == IF i = 0 THEN 0 ELSE High

Put(N) == [k \in 1 .. FirstWritten(N) + 1 |->
    LET i == FirstWritten(N) + 1 - k IN Group(N, i) + Flag(i)]

-----------------------------------------------------------------------------
\* get_PN_nothrow: success, the number, and how many bytes were read.
Ends(s) == {k \in DOMAIN s : s[k] < High}

ShiftedAndAdded(N, c) == N * High + c
Shifted(N, c) == (N * High + (c % High)) % Modulus

Get(s) ==
    IF Ends(s) = {} THEN [success |-> FALSE, value |-> 0, used |-> Len(s)]
    ELSE LET k == CHOOSE k \in Ends(s) : \A j \in Ends(s) : k <= j
         IN [success |-> TRUE, value |-> FoldLeft(Shifted, 0, SubSeq(s, 1, k)), used |-> k]

-----------------------------------------------------------------------------
\* The signed types are written as the Width-bit number they convert to and read
\* back by truncation: an integer of Bits bits, as its bit pattern.
SignExtended(x, Bits) == IF x >= Pow2[Bits - 1] THEN Modulus - Pow2[Bits] + x ELSE x
Truncated(N, Bits) == N % Pow2[Bits]

-----------------------------------------------------------------------------
(* What the readers may rely on. *)

\* Whatever follows it in the buffer, a number is read as it was put, and the
\* reader stops where the writer stopped.
ReadsBack(n, rest) ==
    Get(Put(n) \o rest) = [success |-> TRUE, value |-> n, used |-> Len(Put(n))]

\* While bytes are missing the reader knows it.
PrefixFails(n) == \A k \in 0 .. Len(Put(n)) - 1 : ~Get(SubSeq(Put(n), 1, k)).success

\* An integer of a narrower type, a negative one included, survives its way
\* through the wider one (corelib/ioBuffer.cpp:448).
NarrowReadsBack(x, Bits) == Truncated(Get(Put(SignExtended(x, Bits))).value, Bits) = x
=============================================================================
