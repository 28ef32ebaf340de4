---------------------------- MODULE PacketReader ----------------------------
(***************************************************************************)
(* The receiving half of boost_network's TcpSocket: the byte stream of one *)
(* peer is read into m_recvBuffer and cut into packets by readParse, which *)
(* also checks the running packet index (tcp_socket.cpp, buffer.hpp).      *)
(*                                                                         *)
(* Byte k of the peer's p-th packet is <<p, k>>; its head occupies the     *)
(* first PacketHeadSize bytes.  Each turn of readParse's loop is one       *)
(* action: the loop runs on the strand, so nothing else touches the state  *)
(* between two turns but the peer.                                         *)
(***************************************************************************)
EXTENDS Naturals, Sequences

CONSTANTS
    Lens,           \* body lengths a head may announce (uint16 len)
    Indices,        \* packet indices the peer uses (uint8 index)
    PacketHeadSize, \* PACKET_HEAD_SIZE
    MaxPacket,      \* PACKET_MAX_SIZE
    BufSize,        \* DYNAMIC_BUFF_BASE_SIZE, m_recvBuffer never grows
    TopIndex,       \* 0xFF
    MaxPackets      \* bound: packets the peer sends

ASSUME ReaderAssumption ==
    /\ Lens \subseteq Nat
    /\ TopIndex \in Nat /\ TopIndex > 1
    /\ Indices \subseteq 0 .. TopIndex
    /\ PacketHeadSize \in Nat \ {0}
    /\ MaxPacket \in Nat /\ PacketHeadSize <= MaxPacket
    /\ BufSize \in Nat /\ MaxPacket < BufSize
    /\ MaxPackets \in Nat

VARIABLES
    sent,      \* history: the packets the peer has sent, in order
    inflight,  \* their bytes the socket has not read yet
    data,      \* m_recvBuffer from its start to m_rearIndex
    cur,       \* m_curIndex
    recvCount, \* packets consumed by this readParse
    msgIndex,  \* m_msgIndex
    state,     \* "reading", "parsing" (in readParse) or "closed"
    delivered  \* history: packets given to onNewMsg

readerVars == <<sent, inflight, data, cur, recvCount, msgIndex, state, delivered>>

PacketType == [len : Lens, index : Indices]
Byte == (Nat \ {0}) \X (Nat \ {0})
SizeOf(packet) == PacketHeadSize + packet.len
BytesOf(p, packet) == [k \in 1 .. SizeOf(packet) |-> <<p, k>>]

WriteSize == BufSize - Len(data)
ReadSize  == Len(data) - cur
\* pHead: the head at m_curIndex.
Current   == sent[data[cur + 1][1]]

ReaderTypeOK ==
    /\ sent \in Seq(PacketType)
    /\ inflight \in Seq(Byte)
    /\ data \in Seq(Byte)
    /\ cur \in 0 .. Len(data)
    /\ recvCount \in Nat
    /\ msgIndex \in Nat
    /\ state \in {"reading", "parsing", "closed"}
    /\ delivered \in Nat

ReaderInit ==
    /\ sent = <<>>
    /\ inflight = <<>>
    /\ data = <<>>
    /\ cur = 0
    /\ recvCount = 0
    /\ msgIndex = 0
    /\ state = "reading"
    /\ delivered = 0

\* The peer sends a packet.
Send(packet) ==
    /\ Len(sent) < MaxPackets
    /\ sent' = Append(sent, packet)
    /\ inflight' = inflight \o BytesOf(Len(sent) + 1, packet)
    /\ UNCHANGED <<data, cur, recvCount, msgIndex, state, delivered>>

\* async_read_some delivers between one byte and getWriteSize() bytes.
Receive(n) ==
    /\ state = "reading"
    /\ n <= WriteSize
    /\ data' = data \o SubSeq(inflight, 1, n)
    /\ inflight' = SubSeq(inflight, n + 1, Len(inflight))
    /\ recvCount' = 0
    /\ state' = "parsing"
    /\ UNCHANGED <<sent, cur, msgIndex, delivered>>

\* Faulty: the space of what was read is never reclaimed.
LeaveParseNoRefit(next) ==
    /\ state' = next
    /\ UNCHANGED <<data, cur>>

\* The scope guard: refitBuffer when something was consumed.
LeaveParse(next) ==
    /\ state' = next
    /\ IF recvCount > 0
       THEN data' = SubSeq(data, cur + 1, Len(data)) /\ cur' = 0
       ELSE UNCHANGED <<data, cur>>

HeadArrived == ReadSize >= PacketHeadSize

\* Faulty: the head alone decides that a packet is complete.
IncompleteHeadOnly == ~HeadArrived

\* A packet, or even its head, is still incomplete.
Incomplete ==
    \/ ~HeadArrived
    \/ HeadArrived /\ SizeOf(Current) <= MaxPacket /\ SizeOf(Current) > ReadSize

TooLong == HeadArrived /\ SizeOf(Current) > MaxPacket

\* The index the socket counts with once it has seen this packet's: the first
\* index above 0 starts the count.
Counting == IF Current.index > 0 /\ msgIndex = 0 THEN Current.index ELSE msgIndex

\* Faulty: any index not below the expected one will do.
IndexFitsFrom == Counting = 0 \/ Current.index >= Counting

\* 0 is traffic inside the service and is not checked.
IndexFits == Counting = 0 \/ Current.index = Counting

\* Faulty: one late.
NextIndexLate(index) ==
    IF index = 0 THEN 0 ELSE IF index + 1 = TopIndex + 1 THEN 1 ELSE index + 1

NextIndex(index) ==
    IF index = 0 THEN 0 ELSE IF index + 1 = TopIndex THEN 1 ELSE index + 1

\* Wait for more bytes: doRead again.
ParseWait ==
    /\ state = "parsing"
    /\ Incomplete
    /\ LeaveParse("reading")
    /\ UNCHANGED <<sent, inflight, recvCount, msgIndex, delivered>>

ParseDeliver ==
    /\ state = "parsing"
    /\ ~Incomplete
    /\ ~TooLong
    /\ IndexFits
    /\ msgIndex' = NextIndex(Counting)
    /\ delivered' = delivered + 1
    /\ cur' = cur + SizeOf(Current)
    /\ recvCount' = recvCount + 1
    /\ UNCHANGED <<sent, inflight, data, state>>

\* readParse returns false, doRead's handler closes the socket (bad_message).
ParseReject ==
    /\ state = "parsing"
    /\ ~Incomplete
    /\ TooLong \/ ~IndexFits
    /\ msgIndex' = IF TooLong THEN msgIndex ELSE Counting
    /\ LeaveParse("closed")
    /\ UNCHANGED <<sent, inflight, recvCount, delivered>>

Parse    == ParseWait \/ ParseDeliver \/ ParseReject
ReadSome == \E n \in 1 .. Len(inflight) : Receive(n)

ReaderNext ==
    \/ \E packet \in PacketType : Send(packet)
    \/ ReadSome
    \/ Parse

\* A byte that has arrived completes the read; the strand runs the handler.
ReaderFairness == WF_readerVars(ReadSome) /\ WF_readerVars(Parse)

ReaderSpec == ReaderInit /\ [][ReaderNext]_readerVars
FairReaderSpec == ReaderSpec /\ ReaderFairness

-----------------------------------------------------------------------------
(* Properties.                                                             *)

\* async_read_some is never started on a full buffer, where it would complete
\* at once with no bytes, for ever: the buffer is one byte longer than the
\* longest packet and is only compacted when a packet was consumed.
NeverFull == state = "reading" => WriteSize > 0

\* The parser stands on a packet boundary, the packets delivered are the first
\* ones sent, in order, and the bytes behind m_curIndex and in the kernel are
\* exactly those of the packets that follow.
Framing ==
    /\ delivered <= Len(sent)
    /\ LET rest == SubSeq(data, cur + 1, Len(data)) \o inflight
       IN IF delivered = Len(sent) THEN rest = <<>> ELSE rest # <<>> /\ rest[1] = <<delivered + 1, 1>>
    /\ \A i \in 1 .. Len(data) + Len(inflight) - 1 :
          LET all == data \o inflight
              p == all[i][1]
          IN all[i + 1] = IF all[i][2] = SizeOf(sent[p]) THEN <<p + 1, 1>> ELSE <<p, all[i][2] + 1>>

ReaderInv == ReaderTypeOK /\ NeverFull /\ Framing

\* The count of the protocol: 1, 2, ... 0xFE and again 1.
Successor(index) == IF index = TopIndex - 1 THEN 1 ELSE index + 1

\* The first n packets follow the protocol: no index at all, then a count that
\* starts anywhere below 0xFF and steps from 0xFE to 1.
Honest(n) ==
    \A i \in 1 .. n :
        /\ SizeOf(sent[i]) <= MaxPacket
        /\ \/ i > 1 /\ sent[i - 1].index > 0 /\ sent[i].index = Successor(sent[i - 1].index)
           \/ /\ i > 1 => sent[i - 1].index = 0
              /\ sent[i].index < TopIndex

\* A peer that counts as the protocol says is never thrown out, however often
\* its count wraps and however its bytes are cut.
HonestPeerKept == state = "closed" => ~Honest(delivered + 1)

\* Of a counted stream no packet is delivered twice and none is left out.
Consecutive ==
    \A i \in 2 .. delivered :
        sent[i - 1].index > 0 =>
            sent[i].index = Successor(sent[i - 1].index)

\* Everything that was sent is delivered, or the connection is closed.
AllDelivered ==
    \A p \in 1 .. MaxPackets : Len(sent) >= p ~> (delivered >= p \/ state = "closed")

-----------------------------------------------------------------------------
(* The inductive strengthening of the safety properties.                   *)

\* At i, s holds byte k of packet p: the rest of the packet follows, then the
\* first byte of the next one, or the end after the last one.
PacketAt(s, packets, i, p, k) ==
    LET end == i + SizeOf(packets[p]) - k
    IN  /\ end <= Len(s)
        /\ \A j \in i .. end : s[j] = <<p, k + (j - i)>>
        /\ IF end < Len(s) THEN s[end + 1] = <<p + 1, 1>> ELSE p = Len(packets)

\* Byte by byte, s is the end of the stream that the packets make.
PacketStream(s, packets) ==
    \A i \in 1 .. Len(s) :
        \E p \in 1 .. Len(packets) :
            \E k \in 1 .. SizeOf(packets[p]) : PacketAt(s, packets, i, p, k)

\* Where the parser stands in it.
ParsedStreamInv ==
    /\ PacketStream(data \o inflight, sent)
    /\ IF cur = Len(data \o inflight)
       THEN delivered = Len(sent)
       ELSE (data \o inflight)[cur + 1] = <<delivered + 1, 1>>

\* Nothing read is kept at the front of the buffer between two readParse, and a
\* connection is closed before a packet that it was sent.
FrontInv ==
    /\ state = "reading" \/ (state = "parsing" /\ recvCount = 0) => cur = 0
    /\ state = "closed" => delivered < Len(sent)

\* m_msgIndex follows the last packet delivered.
IndexInv ==
    state # "closed" =>
        msgIndex = IF delivered = 0 THEN 0 ELSE NextIndex(sent[delivered].index)

ParserInv ==
    ReaderInv /\ ParsedStreamInv /\ FrontInv /\ IndexInv /\ Consecutive /\ HonestPeerKept
=============================================================================
