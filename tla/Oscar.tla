------------------------------- MODULE Oscar -------------------------------
(***************************************************************************)
(* The framing of packets on a stream (modules/oscar/oscarService.cpp),    *)
(* one direction of one connection: sendPacketPlain on one side,           *)
(* on_StreamRead on the other, with the bytes between them arriving in     *)
(* pieces of any size.  The acceptor's side begins with HELLO and its      *)
(* version.                                                                *)
(*                                                                         *)
(* StreamRead is passed in the poller's thread, so nothing is appended to  *)
(* m_inBuffer while the loop of on_StreamRead runs.                        *)
(***************************************************************************)
EXTENDS PackedNumber, FiniteSets

CONSTANTS
    Payloads,      \* the packets, sequences of bytes
    GoodVersion,   \* the payload of the HELLO of a peer with our version
    BadVersion,    \* and of a peer with another
    MaxPackets     \* bound: packets sent

ASSUME PayloadAssumption ==
    \A p \in Payloads \cup {GoodVersion, BadVersion} : p \in Seq(Byte) /\ Len(p) \in Numbers

SB_HELLO == 0
SB_SINGLEPACKET == 1
SB_ACK == 2         \* not sent, and not understood

VARIABLES
    wire,        \* bytes written and not yet received
    m_inBuffer,  \* bytes received and not yet consumed
    reading,     \* on_StreamRead is in its loop
    closed,      \* the receiver's socket, and who closed it
    sent,        \* history: packets sent
    delivered,   \* history: packets passed to RPC
    afterHello,  \* history: the last frame consumed was HELLO
    hello,       \* history: what the peer's HELLO said, <<>> if it sends none
    stranger     \* history: the peer sent a frame Oscar does not know

vars == <<wire, m_inBuffer, reading, closed, sent, delivered, afterHello, hello, stranger>>

TypeOK ==
    /\ wire \in Seq(Byte) /\ m_inBuffer \in Seq(Byte)
    /\ reading \in BOOLEAN /\ closed \in {"no", "oscar", "handler"}
    /\ sent \in Seq(Payloads) /\ delivered \in Seq(Payloads)
    /\ afterHello \in BOOLEAN /\ stranger \in BOOLEAN
    /\ hello \in {<<>>, GoodVersion, BadVersion}

-----------------------------------------------------------------------------
(* Sending *)

\* put_8(startByte), and the buffer with its length before it.
Framed(startByte, p) == <<startByte>> \o Put(Len(p)) \o p

\* A connector's peer begins with HELLO, an acceptor's does not.
Init ==
    /\ hello \in {<<>>, GoodVersion, BadVersion}
    /\ wire = IF hello = <<>> THEN <<>> ELSE Framed(SB_HELLO, hello)
    /\ m_inBuffer = <<>> /\ reading = FALSE /\ closed = "no"
    /\ sent = <<>> /\ delivered = <<>>
    /\ afterHello = FALSE /\ stranger = FALSE

SendPacket(p) ==
    /\ Len(sent) < MaxPackets /\ ~stranger
    /\ wire' = wire \o Framed(SB_SINGLEPACKET, p)
    /\ sent' = Append(sent, p)
    /\ UNCHANGED <<m_inBuffer, reading, closed, delivered, afterHello, hello, stranger>>

\* A peer that is not Oscar, or another Oscar.
SendStrange ==
    /\ ~stranger
    /\ wire' = wire \o Framed(SB_ACK, <<>>)
    /\ stranger' = TRUE
    /\ UNCHANGED <<m_inBuffer, reading, closed, sent, delivered, afterHello, hello>>

-----------------------------------------------------------------------------
(* Receiving *)

\* The socket service appends what recv returns and passes StreamRead.
Receive(n) ==
    /\ ~reading /\ closed = "no"
    /\ m_inBuffer' = m_inBuffer \o SubSeq(wire, 1, n)
    /\ wire' = SubSeq(wire, n + 1, Len(wire))
    /\ reading' = TRUE
    /\ UNCHANGED <<closed, sent, delivered, afterHello, hello, stranger>>

\* The frame at the front of m_inBuffer: its length, and whether it is all there.
Length == Get(Tail(m_inBuffer))
HeaderSize == 1 + Length.used
HasLength == m_inBuffer # <<>> /\ Length.success
MoreThanComplete == HasLength /\ Len(m_inBuffer) - HeaderSize > Length.value
Complete == HasLength /\ Len(m_inBuffer) - HeaderSize >= Length.value

Request == SubSeq(m_inBuffer, HeaderSize + 1, HeaderSize + Length.value)

\* m_inBuffer.erase(0, size - remains)
ErasedAll == <<>>
ErasedFrame == SubSeq(m_inBuffer, HeaderSize + Length.value + 1, Len(m_inBuffer))

Incomplete ==
    /\ reading
    /\ ~Complete
    /\ reading' = FALSE
    /\ UNCHANGED <<wire, m_inBuffer, closed, sent, delivered, afterHello, hello, stranger>>

\* The packet is passed on and the loop continues, even if the socket has been
\* closed meanwhile.
SinglePacket ==
    /\ reading /\ Complete /\ Head(m_inBuffer) = SB_SINGLEPACKET
    /\ m_inBuffer' = ErasedFrame
    /\ delivered' = Append(delivered, Request)
    /\ afterHello' = FALSE
    /\ UNCHANGED <<wire, reading, closed, sent, hello, stranger>>

\* The loop ends after HELLO: what else has been received waits for the next read.
VersionFits == Request = GoodVersion

Hello ==
    /\ reading /\ Complete /\ Head(m_inBuffer) = SB_HELLO
    /\ m_inBuffer' = ErasedFrame
    /\ afterHello' = TRUE
    /\ closed' = IF VersionFits \/ closed # "no" THEN closed ELSE "oscar"
    /\ reading' = FALSE
    /\ UNCHANGED <<wire, sent, delivered, hello, stranger>>

InvalidStartByte ==
    /\ reading /\ Complete /\ Head(m_inBuffer) \notin {SB_SINGLEPACKET, SB_HELLO}
    /\ m_inBuffer' = ErasedFrame
    /\ closed' = IF closed = "no" THEN "oscar" ELSE closed
    /\ reading' = FALSE
    /\ UNCHANGED <<wire, sent, delivered, afterHello, hello, stranger>>

\* Whoever the packets are for closes the socket, from a thread of its own.
HandlerCloses ==
    /\ closed = "no" /\ closed' = "handler"
    /\ UNCHANGED <<wire, m_inBuffer, reading, sent, delivered, afterHello, hello, stranger>>

on_StreamRead == Incomplete \/ SinglePacket \/ Hello \/ InvalidStartByte

-----------------------------------------------------------------------------
Next ==
    \/ \E p \in Payloads : SendPacket(p)
    \/ SendStrange
    \/ \E n \in 1 .. Len(wire) : Receive(n)
    \/ on_StreamRead
    \/ HandlerCloses

Spec == Init /\ [][Next]_vars

\* Bytes written arrive, and the poller runs the loop to its end.
FairSpec == Spec /\ WF_vars(on_StreamRead) /\ WF_vars(\E n \in 1 .. Len(wire) : Receive(n))

-----------------------------------------------------------------------------
(* Properties *)

\* Every number a length can be comes back, whatever a read has left in the buffer
\* behind it (here before the first packet), and no part of its bytes passes for
\* all of them; so does every integer of a narrower type.
RoundTrip ==
    sent = <<>> => \A n \in Numbers :
        /\ ReadsBack(n, m_inBuffer)
        /\ PrefixFails(n)
        /\ \A Bits \in 1 .. Width : n < Pow2[Bits] => NarrowReadsBack(n, Bits)

\* Whatever the pieces the bytes come in, packets are passed to RPC whole, once and
\* in the order they were sent.
Connection == INSTANCE Channel WITH broken <- closed # "no"
ImplementsChannel == Connection!Spec

\* All that was sent is delivered, unless the connection is closed or the last read ended
\* behind HELLO and nothing more comes.
EventuallyDelivered ==
    \A k \in 1 .. MaxPackets :
        Len(sent) >= k ~> Len(delivered) >= k \/ closed # "no" \/ (afterHello /\ wire = <<>>)
=============================================================================
