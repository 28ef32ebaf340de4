-------------------------- MODULE TcpSocketProofs --------------------------
(***************************************************************************)
(* Proofs about TcpSocket, for every set of messages, every packet size,   *)
(* every block size and every number of calls; and about its readParse,    *)
(* module PacketReader, for every packet size, buffer size and index range *)
(* that ReaderAssumption allows, however the bytes are cut.                *)
(***************************************************************************)
EXTENDS TcpSocket, PacketReader, SequenceTheorems, TLAPS

LEMMA ReserveIsNat ==
    ASSUME NEW max \in Nat, NEW used \in Nat, NEW size \in Nat
    PROVE  /\ Reserve(max, used, size) \in Nat
           /\ Reserve(max, used, size) >= max
           /\ max - used < size => Reserve(max, used, size) >= max + size
  <1> DEFINE blocks == (size + BaseSize - 1) \div BaseSize
             grown == BaseSize * blocks
  <1>1. BaseSize \in Nat \ {0}
    BY SocketAssumption
  <1>2. grown \in Nat /\ grown >= size
    <2>1. size + BaseSize - 1 \in Nat
      BY <1>1
    <2>2. /\ blocks \in Nat
          /\ size + BaseSize - 1 < BaseSize * (blocks + 1)
      BY <1>1, <2>1, SMTT(30)
    <2>3. BaseSize * (blocks + 1) = grown + BaseSize /\ grown \in Nat
      BY <1>1, <2>2, SMTT(30)
    <2> QED
      BY <1>1, <2>2, <2>3
  <1>3. Reserve(max, used, size) = IF max - used < size THEN max + grown ELSE max
    BY DEF Reserve
  <1> HIDE DEF grown
  <1> QED
    BY <1>2, <1>3

\* reserve leaves room for what is asked (tcp_socket.cpp:63-64).
LEMMA ReserveFits ==
    ASSUME NEW max \in Nat, NEW used \in Nat, NEW size \in Nat, used <= max
    PROVE  size <= Reserve(max, used, size) - used
  <1>1. CASE max - used < size
    BY <1>1, ReserveIsNat
  <1>2. CASE ~(max - used < size)
    BY <1>2 DEF Reserve
  <1> QED
    BY <1>1, <1>2

LEMMA PacketIsSeq ==
    ASSUME NEW m \in Msgs
    PROVE  /\ PacketSize(m) \in Nat \ {0}
           /\ Packet(m) \in Seq(Chunk)
           /\ Len(Packet(m)) = PacketSize(m)
  <1>1. PacketSize(m) \in Nat \ {0}
    BY SocketAssumption DEF PacketSize
  <1>2. \A k \in 1 .. PacketSize(m) : <<m, k>> \in Chunk
    BY <1>1 DEF Chunk
  <1>3. Packet(m) \in [1 .. PacketSize(m) -> Chunk]
    BY <1>2 DEF Packet
  <1> QED
    BY <1>1, <1>3, SeqDef, LenProperties

Handler == Msgs \cup {"close", "finish"}

\* A handler leaves the tail of the strand behind it.
LEMMA StrandTail ==
    ASSUME TypeOK, NEW h, NextHandler(h)
    PROVE  /\ Tail(strand) \in Seq(Handler)
           /\ Len(Tail(strand)) = Len(strand) - 1
           /\ \A i \in 1 .. Len(Tail(strand)) : Tail(strand)[i] = strand[i + 1]
           /\ strand[1] = h
           /\ Len(strand) \in Nat \ {0}
  <1>1. strand \in Seq(Handler) /\ strand # <<>> /\ Head(strand) = h
    BY DEF TypeOK, NextHandler, Handler
  <1> QED
    BY <1>1, HeadTailProperties, EmptySeq

-----------------------------------------------------------------------------
(* Type correctness.                                                       *)

LEMMA DoWriteType ==
    ASSUME TypeOK, NEW buf \in [{0, 1} -> Seq(Chunk)], NEW writing \in BOOLEAN,
           NEW rest \in Seq(Handler), DoWrite(buf, writing, rest)
    PROVE  /\ sendBuffer' \in [{0, 1} -> Seq(Chunk)]
           /\ strand' \in Seq(Handler)
           /\ idleIndex' \in {0, 1}
           /\ asyncWriting' \in BOOLEAN
           /\ sendOp' \in SendOps
  <1>1. Append(rest, "finish") \in Seq(Handler)
    BY AppendProperties DEF Handler
  <1>2. /\ sendBuffer' = buf
        /\ strand' \in {rest, Append(rest, "finish")}
        /\ idleIndex' \in {idleIndex, Other(idleIndex)}
        /\ asyncWriting' \in {asyncWriting, TRUE, FALSE}
        /\ sendOp' \in {sendOp, "idle", "pending", "failed"}
    BY DEF DoWrite
  <1>3. idleIndex \in {0, 1} /\ Other(idleIndex) \in {0, 1}
    BY DEF TypeOK, Other
  <1>4. asyncWriting' \in BOOLEAN
    BY <1>2 DEF TypeOK
  <1>5. sendOp' \in SendOps
    BY <1>2 DEF TypeOK, SendOps
  <1> QED
    BY <1>1, <1>2, <1>3, <1>4, <1>5

LEMMA DoCloseType ==
    ASSUME TypeOK, NEW notify \in BOOLEAN, NEW sOp \in SendOps, NEW rOp \in ReadOps,
           DoClose(notify, sOp, rOp)
    PROVE  /\ notifyCallback' \in BOOLEAN
           /\ isOpen' \in BOOLEAN
           /\ sendOp' \in SendOps
           /\ readOp' \in ReadOps
           /\ passiveCloses' \in Nat
           /\ UNCHANGED <<buffers, calls, accepted, wire, newMsgs>>
  <1>1. notifyCallback' = notify /\ isOpen' = FALSE
    BY DEF DoClose
  <1>2. sendOp' \in {sOp, "aborted"} /\ readOp' \in {rOp, "aborted"}
    BY DEF DoClose, Abort
  <1>3. passiveCloses' \in {passiveCloses + 1, passiveCloses + 0}
    BY DEF DoClose
  <1>4. passiveCloses' \in Nat
    BY <1>3 DEF TypeOK
  <1>5. UNCHANGED <<buffers, calls, accepted, wire, newMsgs>>
    BY DEF DoClose
  <1> QED
    BY <1>1, <1>2, <1>4, <1>5 DEF SendOps, ReadOps

LEMMA TypeStep == TypeOK /\ [Next]_vars => TypeOK'
  <1> SUFFICES ASSUME TypeOK, [Next]_vars
               PROVE  TypeOK'
    OBVIOUS
  <1> USE DEF buffers, flags, calls, history, Handler
  <1>1. ASSUME NEW m \in Msgs, Write(m)
        PROVE  TypeOK'
    <2>1. Append(strand, m) \in Seq(Handler)
      BY AppendProperties DEF TypeOK
    <2> QED
      BY <1>1, <2>1 DEF TypeOK, Write
  <1>2. CASE Close
    <2>1. Append(strand, "close") \in Seq(Handler)
      BY AppendProperties DEF TypeOK
    <2>2. closes + 1 \in 0 .. MaxCloses
      BY <1>2, SocketAssumption DEF TypeOK, Close
    <2> QED
      BY <1>2, <2>1, <2>2 DEF TypeOK, Close
  <1>3. CASE Read
    BY <1>3 DEF TypeOK, Read, StartRead, ReadOps
  <1>4. ASSUME NEW m \in Msgs, DropWrite(m)
        PROVE  TypeOK'
    BY <1>4, StrandTail DEF TypeOK, DropWrite
  <1>5. ASSUME NEW m \in Msgs, AcceptWrite(m)
        PROVE  TypeOK'
    <2>1. Tail(strand) \in Seq(Handler)
      BY <1>5, StrandTail DEF AcceptWrite
    <2>2. maxSize' \in [{0, 1} -> Nat]
      <3>1. Len(sendBuffer[idleIndex]) \in Nat
        BY LenProperties DEF TypeOK
      <3>2. Reserve(maxSize[idleIndex], Len(sendBuffer[idleIndex]), PacketSize(m)) \in Nat
        BY <3>1, PacketIsSeq, ReserveIsNat DEF TypeOK
      <3> QED
        BY <1>5, <3>2 DEF TypeOK, AcceptWrite
    <2>3. CASE Fits(m)
      <3> DEFINE buf == [sendBuffer EXCEPT ![idleIndex] = @ \o Packet(m)]
      <3>1. buf \in [{0, 1} -> Seq(Chunk)]
        BY PacketIsSeq, ConcatProperties DEF TypeOK
      <3>2. accepted' \in Seq(Chunk)
        <4>1. accepted' = accepted \o Packet(m)
          BY <1>5, <2>3 DEF AcceptWrite
        <4> QED
          BY <4>1, PacketIsSeq, ConcatProperties DEF TypeOK
      <3>3. DoWrite(buf, asyncWriting, Tail(strand))
        BY <1>5, <2>3 DEF AcceptWrite
      <3>4. asyncWriting \in BOOLEAN
        BY DEF TypeOK
      <3> HIDE DEF buf
      <3> QED
        BY <1>5, <2>1, <2>2, <3>1, <3>2, <3>3, <3>4, DoWriteType DEF TypeOK, AcceptWrite
    <2>4. CASE ~Fits(m)
      BY <1>5, <2>1, <2>2, <2>4 DEF TypeOK, AcceptWrite
    <2> QED
      BY <2>3, <2>4
  <1>6. CASE CloseHandler
    <2>1. Tail(strand) \in Seq(Handler)
      BY <1>6, StrandTail DEF CloseHandler
    <2>2. CASE asyncWriting
      BY <1>6, <2>1, <2>2 DEF TypeOK, CloseHandler
    <2>3. CASE ~asyncWriting
      BY <1>6, <2>1, <2>3, DoCloseType DEF TypeOK, CloseHandler
    <2> QED
      BY <2>2, <2>3
  <1>7. CASE FinishHandler
    BY <1>7, StrandTail, DoCloseType DEF TypeOK, FinishHandler
  <1>8. CASE SendDone
    <2> DEFINE buf == [sendBuffer EXCEPT ![Other(idleIndex)] = AfterSend(@)]
    <2>1. buf \in [{0, 1} -> Seq(Chunk)]
      BY EmptySeq DEF TypeOK, AfterSend
    <2>2. DoWrite(buf, FALSE, strand) /\ strand \in Seq(Handler)
      BY <1>8 DEF SendDone, TypeOK
    <2> HIDE DEF buf
    <2> QED
      BY <1>8, <2>1, <2>2, DoWriteType DEF TypeOK, SendDone
  <1>9. CASE SendFailed
    BY <1>9, DoCloseType DEF TypeOK, SendFailed, SendOps
  <1>10. CASE SendAborted
    BY <1>10 DEF TypeOK, SendAborted, SendOps
  <1>11. CASE ReadStopped
    BY <1>11 DEF TypeOK, ReadStopped, ReadOps
  <1>17. CASE ReadDone
    BY <1>17 DEF TypeOK, ReadDone, StartRead, ReadOps
  <1>12. CASE ReadFailed
    BY <1>12, DoCloseType DEF TypeOK, ReadFailed, ReadOps
  <1>13. CASE KernelSend
    <2> DEFINE buf == sendBuffer[Other(idleIndex)]
    <2>1. buf \in Seq(Chunk)
      BY DEF TypeOK, Other
    <2>2. PICK n \in 1 .. Len(buf) : wire' = wire \o SubSeq(buf, 1, n)
      BY <1>13 DEF KernelSend
    <2>3. SubSeq(buf, 1, n) \in Seq(Chunk)
      BY <2>1, SubSeqProperties, LenProperties, ElementOfSeq
    <2>4. wire' \in Seq(Chunk)
      BY <2>2, <2>3, ConcatProperties DEF TypeOK
    <2> QED
      BY <1>13, <2>4 DEF TypeOK, KernelSend, SendOps
  <1>14. CASE KernelSendError
    BY <1>14 DEF TypeOK, KernelSendError, SendOps
  <1>15. CASE KernelRead
    BY <1>15 DEF TypeOK, KernelRead, ReadOps
  <1>16. CASE UNCHANGED vars
    BY <1>16 DEF TypeOK, vars
  <1> QED
    BY <1>1, <1>2, <1>3, <1>4, <1>5, <1>6, <1>7, <1>8, <1>9, <1>10, <1>11, <1>12,
       <1>13, <1>14, <1>15, <1>16, <1>17 DEF Next, Handlers

\* Every variable of the socket keeps to its type.
THEOREM TypeCorrect == Spec => []TypeOK
  <1>1. Init => TypeOK
    BY SocketAssumption, EmptySeq DEF Init, TypeOK, SendOps, ReadOps
  <1> QED
    BY <1>1, TypeStep, PTL DEF Spec

-----------------------------------------------------------------------------
(* The buffers: no accepted byte is stranded, every packet has room.       *)

LEMMA BufferTypes ==
    ASSUME TypeOK
    PROVE  /\ Other(idleIndex) \in {0, 1} /\ Other(idleIndex) # idleIndex
           /\ Other(Other(idleIndex)) = idleIndex
           /\ {0, 1} = {idleIndex, Other(idleIndex)}
           /\ \A i \in {0, 1} : /\ sendBuffer[i] \in Seq(Chunk)
                                /\ Len(sendBuffer[i]) \in Nat
                                /\ maxSize[i] \in Nat
  BY LenProperties DEF TypeOK, Other

LEMMA DoCloseBuffers ==
    ASSUME TypeOK, BufferInv, NEW notify, NEW sOp, NEW rOp, DoClose(notify, sOp, rOp),
           sOp \in {sendOp, "idle"}
    PROVE  /\ ~isOpen'
           /\ sendOp' # "pending"
           /\ sendOp = "idle" => sendOp' = "idle"
           /\ UNCHANGED buffers
  BY DEF DoClose, Abort, BufferInv

\* BufferInv survives a step that leaves the buffers alone and closes the
\* socket, or changes sendOp from one busy state to another.
LEMMA BufferInvKept ==
    ASSUME TypeOK, BufferInv, UNCHANGED buffers,
           \/ isOpen' = isOpen /\ sendOp' = sendOp
           \/ /\ ~isOpen'
              /\ sendOp' # "pending"
              /\ sendOp = "idle" => sendOp' = "idle"
           \/ /\ isOpen' = isOpen
              /\ sendOp = "pending"
              /\ sendOp' \in {"sent", "failed"}
    PROVE  BufferInv'
  <1> USE DEF BufferInv, NothingStranded, buffers
  <1>1. CASE isOpen' = isOpen /\ sendOp' = sendOp
    BY <1>1
  <1>2. CASE ~isOpen' /\ sendOp' # "pending" /\ (sendOp = "idle" => sendOp' = "idle")
    BY <1>2
  <1>3. CASE isOpen' = isOpen /\ sendOp = "pending" /\ sendOp' \in {"sent", "failed"}
    BY <1>3
  <1> QED
    BY <1>1, <1>2, <1>3

LEMMA BufferStep == TypeOK /\ BufferInv /\ [Next]_vars => BufferInv'
  <1> SUFFICES ASSUME TypeOK, BufferInv, [Next]_vars
               PROVE  BufferInv'
    OBVIOUS
  <1> USE DEF flags
  <1>1. ASSUME NEW m \in Msgs, Write(m)
        PROVE  BufferInv'
    BY <1>1, BufferInvKept DEF Write
  <1>2. CASE Close
    BY <1>2, BufferInvKept DEF Close
  <1>3. CASE Read
    BY <1>3, BufferInvKept DEF Read
  <1>4. ASSUME NEW m \in Msgs, DropWrite(m)
        PROVE  BufferInv'
    BY <1>4, BufferInvKept DEF DropWrite
  <1>5. ASSUME NEW m \in Msgs, AcceptWrite(m)
        PROVE  BufferInv'
    <2> DEFINE used == Len(sendBuffer[idleIndex])
               grown == Reserve(maxSize[idleIndex], used, PacketSize(m))
               buf == [sendBuffer EXCEPT ![idleIndex] = @ \o Packet(m)]
    <2>1. /\ used \in Nat /\ used <= maxSize[idleIndex]
          /\ grown \in Nat /\ grown >= maxSize[idleIndex]
          /\ PacketSize(m) <= grown - used
      BY BufferTypes, PacketIsSeq, ReserveIsNat, ReserveFits DEF BufferInv, TypeOK
    <2>2. Fits(m)
      BY <2>1 DEF Fits
    <2>3. /\ DoWrite(buf, asyncWriting, Tail(strand))
          /\ maxSize' = [maxSize EXCEPT ![idleIndex] = grown]
          /\ isOpen' = isOpen
      BY <1>5, <2>2 DEF AcceptWrite
    <2>4. /\ sendBuffer[idleIndex] \o Packet(m) # <<>>
          /\ Len(sendBuffer[idleIndex] \o Packet(m)) = used + PacketSize(m)
          /\ PacketSize(m) \in Nat \ {0}
      <3>1. sendBuffer[idleIndex] \in Seq(Chunk) /\ used \in Nat
        BY BufferTypes DEF TypeOK
      <3>2. Len(sendBuffer[idleIndex] \o Packet(m)) = used + PacketSize(m)
        BY <3>1, PacketIsSeq, ConcatProperties
      <3>3. used + PacketSize(m) # 0 /\ Len(<<>>) = 0
        BY <3>1, PacketIsSeq, EmptySeq
      <3> QED
        BY <3>2, <3>3, PacketIsSeq
    <2>5. /\ buf[idleIndex] = sendBuffer[idleIndex] \o Packet(m)
          /\ \A i \in {0, 1} : i # idleIndex => buf[i] = sendBuffer[i]
      BY DEF TypeOK
    <2> HIDE DEF used, grown, buf
    <2>6. sendBuffer' = buf
      BY <2>3 DEF DoWrite
    <2>7. \A i \in {0, 1} : Len(sendBuffer'[i]) <= maxSize'[i]
      <3>1. Len(buf[idleIndex]) <= grown
        BY <2>1, <2>4, <2>5
      <3>2. \A i \in {0, 1} : maxSize'[i] = IF i = idleIndex THEN grown ELSE maxSize[i]
        BY <2>3 DEF TypeOK
      <3> QED
        BY <2>5, <2>6, <3>1, <3>2 DEF BufferInv
    <2>8. CASE asyncWriting
      <3>1. UNCHANGED <<asyncWriting, sendOp>>
        BY <2>3, <2>8 DEF DoWrite
      <3> QED
        BY <2>3, <2>7, <2>8, <3>1 DEF BufferInv, NothingStranded
    <2>9. CASE ~asyncWriting
      <3>1. asyncWriting' = TRUE /\ sendOp' = IF isOpen THEN "pending" ELSE "failed"
        BY <2>3, <2>4, <2>5, <2>9 DEF DoWrite
      <3> QED
        BY <2>3, <2>7, <3>1 DEF BufferInv, NothingStranded
    <2> QED
      BY <2>8, <2>9
  <1>6. CASE CloseHandler
    BY <1>6, BufferInvKept, DoCloseBuffers DEF CloseHandler
  <1>7. CASE FinishHandler
    BY <1>7, BufferInvKept, DoCloseBuffers DEF FinishHandler
  <1>8. CASE SendDone
    <2> DEFINE buf == [sendBuffer EXCEPT ![Other(idleIndex)] = AfterSend(@)]
    <2>1. DoWrite(buf, FALSE, strand) /\ isOpen' = isOpen /\ maxSize' = maxSize
      BY <1>8 DEF SendDone
    <2>2. /\ buf[idleIndex] = sendBuffer[idleIndex]
          /\ buf[Other(idleIndex)] = <<>>
          /\ \A i \in {0, 1} : Len(buf[i]) <= maxSize[i]
      BY BufferTypes, EmptySeq DEF AfterSend, TypeOK, BufferInv
    <2> HIDE DEF buf
    <2>3. sendBuffer' = buf
      BY <2>1 DEF DoWrite
    <2>4. CASE buf[idleIndex] = <<>>
      <3>1. asyncWriting' = FALSE /\ sendOp' = "idle"
        BY <2>1, <2>4 DEF DoWrite
      <3>2. \A i \in {0, 1} : buf[i] = <<>>
        BY <2>2, <2>4, BufferTypes
      <3> QED
        BY <2>1, <2>2, <2>3, <3>1, <3>2 DEF BufferInv, NothingStranded
    <2>5. CASE buf[idleIndex] # <<>>
      <3>1. asyncWriting' = TRUE /\ sendOp' = IF isOpen THEN "pending" ELSE "failed"
        BY <2>1, <2>5 DEF DoWrite
      <3> QED
        BY <2>1, <2>2, <2>3, <3>1 DEF BufferInv, NothingStranded
    <2> QED
      BY <2>4, <2>5
  <1>9. CASE SendFailed
    <2>1. ~isOpen' /\ sendOp' = "idle" /\ UNCHANGED buffers
      BY <1>9 DEF SendFailed, DoClose, Abort
    <2> QED
      BY <2>1, BufferInvKept
  <1>10. CASE SendAborted
    BY <1>10 DEF SendAborted, BufferInv, NothingStranded, buffers
  <1>11. CASE ReadStopped
    BY <1>11, BufferInvKept DEF ReadStopped
  <1>12. CASE ReadDone
    BY <1>12, BufferInvKept DEF ReadDone
  <1>13. CASE ReadFailed
    BY <1>13, BufferInvKept, DoCloseBuffers DEF ReadFailed
  <1>14. CASE KernelSend
    BY <1>14, BufferInvKept DEF KernelSend
  <1>15. CASE KernelSendError
    BY <1>15, BufferInvKept DEF KernelSendError
  <1>16. CASE KernelRead
    BY <1>16, BufferInvKept DEF KernelRead
  <1>17. CASE UNCHANGED vars
    BY <1>17, BufferInvKept DEF vars
  <1> QED
    BY <1>1, <1>2, <1>3, <1>4, <1>5, <1>6, <1>7, <1>8, <1>9, <1>10, <1>11, <1>12,
       <1>13, <1>14, <1>15, <1>16, <1>17 DEF Next, Handlers

-----------------------------------------------------------------------------
(* Closing: reported at most once, finished only by an idle socket.        *)

ReportInv ==
    /\ PassiveCloseOnce
    /\ isOpen => passiveCloses = 0
    /\ ~notifyCallback => ~isOpen

FinishInv ==
    \A i \in 1 .. Len(strand) : strand[i] = "finish" => closeFlag /\ ~asyncWriting

LEMMA CloseInvSplit == CloseInv <=> ReportInv /\ FinishInv
  BY DEF CloseInv, ReportInv, FinishInv

LEMMA DoCloseReports ==
    ASSUME TypeOK, ReportInv, NEW notify \in BOOLEAN, NEW sOp, NEW rOp,
           DoClose(notify, sOp, rOp)
    PROVE  ReportInv'
  <1>1. ~isOpen'
    BY DEF DoClose
  <1>2. CASE isOpen
    <2>1. passiveCloses = 0 /\ passiveCloses' \in {passiveCloses + 1, passiveCloses + 0}
      BY <1>2 DEF DoClose, ReportInv
    <2> QED
      BY <1>1, <2>1 DEF ReportInv, PassiveCloseOnce
  <1>3. CASE ~isOpen
    <2>1. passiveCloses' = passiveCloses + 0
      BY <1>3 DEF DoClose
    <2> QED
      BY <1>1, <2>1 DEF ReportInv, PassiveCloseOnce, TypeOK
  <1> QED
    BY <1>2, <1>3

LEMMA ReportStep == TypeOK /\ ReportInv /\ [Next]_vars => ReportInv'
  <1> SUFFICES ASSUME TypeOK, ReportInv, [Next]_vars
               PROVE  ReportInv'
    OBVIOUS
  <1>1. CASE UNCHANGED <<notifyCallback, isOpen, passiveCloses>>
    BY <1>1 DEF ReportInv, PassiveCloseOnce
  <1>2. CASE \E notify \in BOOLEAN, sOp \in SendOps, rOp \in ReadOps : DoClose(notify, sOp, rOp)
    BY <1>2, DoCloseReports
  <1> USE <1>1, <1>2 DEF flags, history
  <1>3. ASSUME NEW m \in Msgs, Write(m) \/ DropWrite(m) \/ AcceptWrite(m)
        PROVE  ReportInv'
    BY <1>3 DEF Write, DropWrite, AcceptWrite
  <1>4. CASE Close \/ Read \/ SendDone \/ SendAborted
    BY <1>4 DEF Close, Read, SendDone, SendAborted
  <1>5. CASE ReadStopped \/ ReadDone \/ KernelSend \/ KernelSendError \/ KernelRead
    BY <1>5 DEF ReadStopped, ReadDone, KernelSend, KernelSendError, KernelRead
  <1>6. CASE CloseHandler \/ FinishHandler
    BY <1>6 DEF CloseHandler, FinishHandler, TypeOK
  <1>7. CASE SendFailed \/ ReadFailed
    BY <1>7 DEF SendFailed, ReadFailed, TypeOK, SendOps, ReadOps
  <1>8. CASE UNCHANGED vars
    BY <1>8 DEF vars
  <1> QED
    BY <1>3, <1>4, <1>5, <1>6, <1>7, <1>8 DEF Next, Handlers

LEMMA FinishKept ==
    ASSUME TypeOK, FinishInv, strand' = strand \/ \E h : NextHandler(h) /\ strand' = Tail(strand),
           closeFlag => closeFlag', ~asyncWriting => ~asyncWriting'
    PROVE  FinishInv'
  <1>1. CASE strand' = strand
    BY <1>1 DEF FinishInv
  <1>2. CASE \E h : NextHandler(h) /\ strand' = Tail(strand)
    <2> SUFFICES ASSUME NEW i \in 1 .. Len(strand'), strand'[i] = "finish"
                 PROVE  closeFlag' /\ ~asyncWriting'
      BY DEF FinishInv
    <2>1. strand'[i] = strand[i + 1] /\ i + 1 \in 1 .. Len(strand)
      BY <1>2, StrandTail
    <2> QED
      BY <2>1 DEF FinishInv
  <1> QED
    BY <1>1, <1>2

LEMMA FinishStep == TypeOK /\ BufferInv /\ FinishInv /\ [Next]_vars => FinishInv'
  <1> SUFFICES ASSUME TypeOK, BufferInv, FinishInv, [Next]_vars
               PROVE  FinishInv'
    OBVIOUS
  <1> USE DEF flags, buffers
  <1>1. ASSUME NEW m \in Msgs \cup {"close"}, strand' = Append(strand, m),
               UNCHANGED <<closeFlag, asyncWriting>>
        PROVE  FinishInv'
    <2> SUFFICES ASSUME NEW i \in 1 .. Len(strand'), strand'[i] = "finish"
                 PROVE  closeFlag' /\ ~asyncWriting'
      BY DEF FinishInv
    <2>1. /\ strand \in Seq(Handler) /\ m \in Handler
          /\ m # "finish"
      BY SocketAssumption DEF TypeOK, Handler
    <2>2. i \in 1 .. Len(strand) /\ strand[i] = "finish"
      BY <1>1, <2>1, AppendProperties, LenProperties
    <2> QED
      BY <1>1, <2>2 DEF FinishInv
  <1>2. ASSUME NEW m \in Msgs, Write(m)
        PROVE  FinishInv'
    BY <1>1, <1>2 DEF Write
  <1>3. CASE Close
    BY <1>1, <1>3 DEF Close
  <1>4. ASSUME NEW m \in Msgs, DropWrite(m)
        PROVE  FinishInv'
    BY <1>4, FinishKept DEF DropWrite
  <1>5. ASSUME NEW m \in Msgs, AcceptWrite(m)
        PROVE  FinishInv'
    <2>1. /\ NextHandler(m)
          /\ ~closeFlag
          /\ strand' = Tail(strand)
      BY <1>5 DEF AcceptWrite, DoWrite
    <2> SUFFICES ASSUME NEW i \in 1 .. Len(strand'), strand'[i] = "finish"
                 PROVE  FALSE
      BY DEF FinishInv
    <2>2. strand'[i] = strand[i + 1] /\ i + 1 \in 1 .. Len(strand)
      BY <2>1, StrandTail
    <2> QED
      BY <2>1, <2>2 DEF FinishInv
  <1>6. CASE CloseHandler \/ FinishHandler
    BY <1>6, FinishKept DEF CloseHandler, FinishHandler, DoClose
  <1>7. CASE SendDone
    <2>1. asyncWriting /\ UNCHANGED closeFlag
      BY <1>7 DEF SendDone, BufferInv
    <2>2. \A i \in 1 .. Len(strand) : strand[i] # "finish"
      BY <2>1 DEF FinishInv
    <2>3. CASE strand' = strand
      BY <2>2, <2>3 DEF FinishInv
    <2>4. CASE strand' # strand
      <3>1. closeFlag /\ ~asyncWriting' /\ strand' = Append(strand, "finish")
        BY <1>7, <2>4 DEF SendDone, DoWrite
      <3> QED
        BY <2>1, <3>1 DEF FinishInv
    <2> QED
      BY <2>3, <2>4
  <1>8. CASE SendFailed \/ ReadFailed
    BY <1>8, FinishKept DEF SendFailed, ReadFailed, DoClose
  <1>9. CASE Read \/ SendAborted \/ ReadStopped \/ ReadDone
    BY <1>9, FinishKept DEF Read, SendAborted, ReadStopped, ReadDone
  <1>10. CASE KernelSend \/ KernelSendError \/ KernelRead
    BY <1>10, FinishKept DEF KernelSend, KernelSendError, KernelRead
  <1>11. CASE UNCHANGED vars
    BY <1>11, FinishKept DEF vars
  <1> QED
    BY <1>2, <1>3, <1>4, <1>5, <1>6, <1>7, <1>8, <1>9, <1>10, <1>11 DEF Next, Handlers

-----------------------------------------------------------------------------
(* The stream: when the kernel takes buffers whole, nothing is lost,       *)
(* repeated or reordered.                                                  *)

LEMMA PrefixOfConcat ==
    ASSUME NEW S, NEW s \in Seq(S), NEW t \in Seq(S)
    PROVE  /\ Len(s) \in Nat
           /\ Len(s) <= Len(s \o t)
           /\ SubSeq(s \o t, 1, Len(s)) = s
  <1>1. /\ s \o t \in Seq(S)
        /\ Len(s \o t) = Len(s) + Len(t)
        /\ \A i \in 1 .. Len(s) : (s \o t)[i] = s[i]
        /\ Len(s) \in Nat /\ Len(t) \in Nat
    BY ConcatProperties, LenProperties
  <1>2. \A i \in 1 .. Len(s) : (s \o t)[i] \in S
    BY <1>1, ElementOfSeq
  <1>3. /\ SubSeq(s \o t, 1, Len(s)) \in Seq(S)
        /\ Len(SubSeq(s \o t, 1, Len(s))) = Len(s)
        /\ \A i \in 1 .. Len(s) : SubSeq(s \o t, 1, Len(s))[i] = s[i]
    BY <1>1, <1>2, SubSeqProperties
  <1> QED
    BY <1>1, <1>3, SeqEqual

LEMMA PrefixGrows ==
    ASSUME NEW S, NEW w \in Seq(S), NEW a \in Seq(S), NEW b \in Seq(S),
           Len(w) <= Len(a), w = SubSeq(a, 1, Len(w))
    PROVE  Len(w) <= Len(a \o b) /\ w = SubSeq(a \o b, 1, Len(w))
  <1>1. /\ a \o b \in Seq(S)
        /\ Len(a \o b) = Len(a) + Len(b)
        /\ \A i \in 1 .. Len(a) : (a \o b)[i] = a[i]
        /\ Len(a) \in Nat /\ Len(b) \in Nat /\ Len(w) \in Nat
    BY ConcatProperties, LenProperties
  <1>2. \A i \in 1 .. Len(w) : a[i] \in S /\ (a \o b)[i] = a[i]
    BY <1>1, ElementOfSeq
  <1>3. \A i \in 1 .. Len(w) : w[i] = a[i]
    BY <1>1, <1>2, SubSeqProperties
  <1>4. /\ SubSeq(a \o b, 1, Len(w)) \in Seq(S)
        /\ Len(SubSeq(a \o b, 1, Len(w))) = Len(w)
        /\ \A i \in 1 .. Len(w) : SubSeq(a \o b, 1, Len(w))[i] = (a \o b)[i]
    BY <1>1, <1>2, SubSeqProperties
  <1> QED
    BY <1>1, <1>2, <1>3, <1>4, SeqEqual

LEMMA StreamTypes ==
    ASSUME TypeOK
    PROVE  /\ accepted \in Seq(Chunk) /\ wire \in Seq(Chunk)
           /\ Unsent \in Seq(Chunk) /\ sendBuffer[idleIndex] \in Seq(Chunk)
           /\ sendBuffer[Other(idleIndex)] \in Seq(Chunk)
           /\ <<>> \in Seq(Chunk)
           /\ Len(wire) \in Nat /\ Len(accepted) \in Nat
  BY BufferTypes, EmptySeq, LenProperties DEF TypeOK, Unsent

\* StreamInv survives a step that moves no data: a send may go wrong, and
\* the socket may be closed with a report or while it is idle.
LEMMA StreamKept ==
    ASSUME TypeOK, BufferInv, StreamInv,
           UNCHANGED <<accepted, wire, sendBuffer, idleIndex, asyncWriting>>,
           \/ sendOp' = sendOp
           \/ sendOp # "idle" /\ sendOp' \notin {"pending", "sent"},
           \/ isOpen' = isOpen /\ passiveCloses' = passiveCloses
           \/ passiveCloses' # 0
           \/ closeFlag' /\ ~asyncWriting,
           closeFlag => closeFlag'
    PROVE  StreamInv'
  <1>1. sendOp' \in {"pending", "sent"} \/ ~asyncWriting' => sendOp' = sendOp
    BY DEF BufferInv
  <1>2. sendOp' = sendOp => Unsent' = Unsent
    BY DEF Unsent
  <1>3. sendOp' \in {"pending", "sent"} \/ ~asyncWriting' =>
          (accepted = wire \o (Unsent \o sendBuffer[idleIndex]))'
    BY <1>1, <1>2 DEF StreamInv
  <1>4. ~isOpen' /\ passiveCloses' = 0 => closeFlag' /\ ~asyncWriting'
    BY DEF StreamInv
  <1> QED
    BY <1>3, <1>4 DEF StreamInv

LEMMA StreamStep ==
    TypeOK /\ BufferInv /\ ReportInv /\ FinishInv /\ StreamInv /\ ~PartialSend /\ [Next]_vars
        => StreamInv'
  <1> SUFFICES ASSUME TypeOK, BufferInv, ReportInv, FinishInv, StreamInv, ~PartialSend, [Next]_vars
               PROVE  StreamInv'
    OBVIOUS
  <1> USE DEF flags, buffers, history
  <1>1. ASSUME NEW m \in Msgs, Write(m) \/ DropWrite(m)
        PROVE  StreamInv'
    BY <1>1, StreamKept DEF Write, DropWrite
  <1>2. CASE Close \/ Read \/ ReadStopped \/ ReadDone
    BY <1>2, StreamKept DEF Close, Read, ReadStopped, ReadDone
  <1>3. CASE SendAborted
    BY <1>3, StreamKept DEF SendAborted
  <1>4. CASE KernelSendError
    BY <1>4, StreamKept DEF KernelSendError
  <1>5. CASE KernelRead
    BY <1>5, StreamKept DEF KernelRead
  <1>6. CASE SendFailed \/ ReadFailed
    <2>1. isOpen => passiveCloses' = passiveCloses + 1 /\ passiveCloses = 0
      BY <1>6 DEF SendFailed, ReadFailed, DoClose, ReportInv
    <2>2. ~isOpen => isOpen' = isOpen /\ passiveCloses' = passiveCloses + 0
      BY <1>6 DEF SendFailed, ReadFailed, DoClose, TypeOK
    <2>3. \/ isOpen' = isOpen /\ passiveCloses' = passiveCloses
          \/ passiveCloses' # 0
      BY <2>1, <2>2 DEF TypeOK
    <2>4. \/ sendOp' = sendOp
          \/ sendOp # "idle" /\ sendOp' \notin {"pending", "sent"}
      BY <1>6 DEF SendFailed, ReadFailed, DoClose, Abort
    <2>5. UNCHANGED <<accepted, wire, sendBuffer, idleIndex, asyncWriting, closeFlag>>
      BY <1>6 DEF SendFailed, ReadFailed, DoClose
    <2> QED
      BY <2>3, <2>4, <2>5, StreamKept
  <1>7. CASE CloseHandler \/ FinishHandler
    <2>1. UNCHANGED <<accepted, wire, sendBuffer, idleIndex, asyncWriting>>
      BY <1>7 DEF CloseHandler, FinishHandler, DoClose
    <2>2. closeFlag => closeFlag'
      BY <1>7 DEF CloseHandler, FinishHandler
    <2>3. CASE CloseHandler /\ asyncWriting
      BY <2>1, <2>2, <2>3, StreamKept DEF CloseHandler
    <2>4. CASE ~asyncWriting
      <3>1. sendOp = "idle" /\ sendOp' = sendOp
        BY <1>7, <2>4 DEF BufferInv, CloseHandler, FinishHandler, DoClose, Abort
      <3>2. closeFlag'
        <4>1. CASE CloseHandler
          BY <4>1 DEF CloseHandler
        <4>2. CASE FinishHandler
          <5>1. strand[1] = "finish" /\ 1 \in 1 .. Len(strand)
            BY <4>2, StrandTail DEF FinishHandler
          <5> QED
            BY <4>2, <5>1 DEF FinishInv, FinishHandler
        <4> QED
          BY <1>7, <4>1, <4>2
      <3> QED
        BY <2>1, <2>2, <2>4, <3>1, <3>2, StreamKept
    <2>5. CASE FinishHandler /\ asyncWriting
      <3>1. strand[1] = "finish" /\ 1 \in 1 .. Len(strand)
        BY <2>5, StrandTail DEF FinishHandler
      <3> QED
        BY <2>5, <3>1 DEF FinishInv
    <2> QED
      BY <1>7, <2>3, <2>4, <2>5
  <1>8. ASSUME NEW m \in Msgs, AcceptWrite(m)
        PROVE  StreamInv'
    <2> DEFINE idle == sendBuffer[idleIndex]
               buf == [sendBuffer EXCEPT ![idleIndex] = @ \o Packet(m)]
    <2>1. UNCHANGED <<wire, isOpen, passiveCloses, closeFlag>> /\ ~closeFlag
      BY <1>8 DEF AcceptWrite
    <2>2. ~(~isOpen /\ passiveCloses = 0)
      BY <2>1 DEF StreamInv
    <2>3. CASE ~Fits(m)
      BY <1>8, <2>1, <2>3, StreamKept DEF AcceptWrite
    <2>4. CASE Fits(m)
      <3>1. DoWrite(buf, asyncWriting, Tail(strand)) /\ accepted' = accepted \o Packet(m)
        BY <1>8, <2>4 DEF AcceptWrite
      <3>2. /\ buf[idleIndex] = idle \o Packet(m)
            /\ buf[Other(idleIndex)] = sendBuffer[Other(idleIndex)]
        BY BufferTypes DEF TypeOK
      <3> HIDE DEF buf
      <3>3. Len(wire) <= Len(accepted') /\ wire = SubSeq(accepted', 1, Len(wire))
        BY <3>1, StreamTypes, PacketIsSeq, PrefixGrows DEF StreamInv
      <3>4. CASE asyncWriting
        <4>1. /\ UNCHANGED <<idleIndex, asyncWriting, sendOp>>
              /\ sendBuffer' = buf
          BY <3>1, <3>4 DEF DoWrite
        <4>2. Unsent' = Unsent /\ sendBuffer'[idleIndex'] = idle \o Packet(m)
          BY <3>2, <4>1 DEF Unsent
        <4>3. ASSUME sendOp \in {"pending", "sent"}
              PROVE  accepted' = wire \o (Unsent \o (idle \o Packet(m)))
          <5>1. accepted = wire \o (Unsent \o idle)
            BY <4>3 DEF StreamInv
          <5>0. /\ wire \in Seq(Chunk) /\ Unsent \in Seq(Chunk) /\ idle \in Seq(Chunk)
                /\ Packet(m) \in Seq(Chunk)
            BY StreamTypes, PacketIsSeq
          <5>2. Unsent \o idle \in Seq(Chunk)
            BY <5>0, ConcatProperties
          <5> HIDE DEF idle
          <5>3. (Unsent \o idle) \o Packet(m) = Unsent \o (idle \o Packet(m))
            BY <5>0, ConcatAssociative, SMTT(30)
          <5>4. (wire \o (Unsent \o idle)) \o Packet(m) = wire \o ((Unsent \o idle) \o Packet(m))
            BY <5>0, <5>2, ConcatAssociative, SMTT(30)
          <5> QED
            BY <3>1, <5>1, <5>3, <5>4
        <4> QED
          BY <2>1, <2>2, <3>3, <3>4, <4>1, <4>2, <4>3 DEF StreamInv
      <3>5. CASE ~asyncWriting
        <4>1. accepted = wire /\ idle = <<>> /\ sendBuffer[Other(idleIndex)] = <<>>
          <5>1. \A i \in {0, 1} : sendBuffer[i] = <<>>
            BY <3>5 DEF BufferInv, NothingStranded
          <5>2. idle = <<>> /\ sendBuffer[Other(idleIndex)] = <<>>
            BY <5>1, BufferTypes DEF TypeOK
          <5>3. Unsent = <<>> /\ accepted = wire \o (Unsent \o idle)
            BY <3>5 DEF BufferInv, StreamInv, Unsent
          <5> QED
            BY <5>2, <5>3, StreamTypes, ConcatEmptySeq
        <4>2. idle \o Packet(m) = Packet(m) /\ Packet(m) # <<>>
          BY <4>1, PacketIsSeq, ConcatEmptySeq, EmptySeq
        <4>3. /\ asyncWriting'
              /\ idleIndex' = Other(idleIndex)
              /\ sendOp' \in {"pending", "failed"}
              /\ sendBuffer' = buf
          BY <3>1, <3>2, <3>5, <4>2 DEF DoWrite
        <4>4. sendOp' = "pending" => Unsent' = Packet(m)
          BY <3>2, <4>2, <4>3, BufferTypes DEF Unsent
        <4>5. sendBuffer'[idleIndex'] = <<>>
          BY <3>2, <4>1, <4>3
        <4>6. accepted' = wire \o (Packet(m) \o <<>>)
          BY <3>1, <4>1, PacketIsSeq, ConcatEmptySeq
        <4> QED
          BY <2>1, <2>2, <3>3, <4>3, <4>4, <4>5, <4>6 DEF StreamInv
      <3> QED
        BY <3>4, <3>5
    <2> QED
      BY <2>3, <2>4
  <1>9. CASE SendDone
    <2> DEFINE idle == sendBuffer[idleIndex]
               buf == [sendBuffer EXCEPT ![Other(idleIndex)] = AfterSend(@)]
    <2>1. /\ DoWrite(buf, FALSE, strand)
          /\ UNCHANGED <<accepted, wire, isOpen, passiveCloses, closeFlag>>
          /\ sendOp = "sent"
      BY <1>9 DEF SendDone
    <2>2. buf[idleIndex] = idle /\ buf[Other(idleIndex)] = <<>>
      BY BufferTypes DEF AfterSend, TypeOK
    <2>3. accepted = wire \o idle
      <3>1. accepted = wire \o (<<>> \o idle)
        BY <2>1 DEF StreamInv, Unsent
      <3> QED
        BY <3>1, StreamTypes, ConcatEmptySeq
    <2>4. ~(~isOpen /\ passiveCloses = 0)
      BY <2>1 DEF StreamInv, BufferInv
    <2> HIDE DEF buf
    <2>5. CASE idle = <<>>
      <3>1. idleIndex' = idleIndex /\ sendOp' = "idle" /\ sendBuffer' = buf
        BY <2>1, <2>2, <2>5 DEF DoWrite
      <3>2. Unsent' = <<>> /\ sendBuffer'[idleIndex'] = idle
        BY <2>2, <3>1 DEF Unsent
      <3>3. accepted = wire \o (<<>> \o idle)
        BY <2>3, StreamTypes, ConcatEmptySeq
      <3> QED
        BY <2>1, <2>4, <3>2, <3>3 DEF StreamInv
    <2>6. CASE idle # <<>>
      <3>1. /\ asyncWriting'
            /\ idleIndex' = Other(idleIndex)
            /\ sendOp' \in {"pending", "failed"}
            /\ sendBuffer' = buf
        BY <2>1, <2>2, <2>6 DEF DoWrite
      <3>2. sendOp' = "pending" => Unsent' = idle
        BY <2>2, <3>1, BufferTypes DEF Unsent
      <3>3. sendBuffer'[idleIndex'] = <<>>
        BY <2>2, <3>1
      <3>4. accepted = wire \o (idle \o <<>>)
        BY <2>3, StreamTypes, ConcatEmptySeq
      <3> QED
        BY <2>1, <2>4, <3>1, <3>2, <3>3, <3>4 DEF StreamInv
    <2> QED
      BY <2>5, <2>6
  <1>10. CASE KernelSend
    <2> DEFINE idle == sendBuffer[idleIndex]
               buf == sendBuffer[Other(idleIndex)]
    <2>1. /\ sendOp = "pending" /\ sendOp' = "sent"
          /\ UNCHANGED <<accepted, sendBuffer, idleIndex, asyncWriting, isOpen, passiveCloses, closeFlag>>
      BY <1>10 DEF KernelSend
    <2>2. wire' = wire \o buf
      <3>1. PICK n \in 1 .. Len(buf) : n = Len(buf) /\ wire' = wire \o SubSeq(buf, 1, n)
        BY <1>10 DEF KernelSend
      <3> QED
        BY <3>1, StreamTypes, SubSeqFull
    <2>3. accepted = wire \o (buf \o idle)
      BY <2>1 DEF StreamInv, Unsent
    <2>4. accepted = wire' \o idle
      <3>1. wire \in Seq(Chunk) /\ buf \in Seq(Chunk) /\ idle \in Seq(Chunk)
        BY StreamTypes
      <3> HIDE DEF buf, idle
      <3>2. (wire \o buf) \o idle = wire \o (buf \o idle)
        BY <3>1, ConcatAssociative
      <3> QED
        BY <2>2, <2>3, <3>2
    <2>5. wire' \in Seq(Chunk)
      BY <2>2, StreamTypes, ConcatProperties
    <2>6. Len(wire') <= Len(accepted) /\ wire' = SubSeq(accepted, 1, Len(wire'))
      BY <2>4, <2>5, StreamTypes, PrefixOfConcat
    <2>7. Unsent' = <<>> /\ accepted = wire' \o (<<>> \o idle)
      BY <2>1, <2>4, StreamTypes, ConcatEmptySeq DEF Unsent
    <2> QED
      BY <2>1, <2>6, <2>7 DEF StreamInv, BufferInv
  <1>11. CASE UNCHANGED vars
    BY <1>11, StreamKept DEF vars
  <1> QED
    BY <1>1, <1>2, <1>3, <1>4, <1>5, <1>6, <1>7, <1>8, <1>9, <1>10, <1>11 DEF Next, Handlers

-----------------------------------------------------------------------------
(* The theorems.                                                           *)

LEMMA InitInv == Init => TypeOK /\ BufferInv /\ ReportInv /\ FinishInv /\ StreamInv
  <1> SUFFICES ASSUME Init
               PROVE  TypeOK /\ BufferInv /\ ReportInv /\ FinishInv /\ StreamInv
    OBVIOUS
  <1>1. TypeOK
    BY SocketAssumption, EmptySeq, SMTT(30) DEF Init, TypeOK, SendOps, ReadOps
  <1>2. \A i \in {0, 1} : Len(sendBuffer[i]) <= maxSize[i]
    BY SocketAssumption, EmptySeq DEF Init
  <1>3. BufferInv /\ ReportInv
    BY <1>2 DEF Init, BufferInv, NothingStranded, ReportInv, PassiveCloseOnce
  <1>4. FinishInv
    BY EmptySeq DEF Init, FinishInv
  <1>5. StreamInv
    <2>1. Unsent = <<>> /\ sendBuffer[idleIndex] = <<>>
      BY DEF Init, Unsent
    <2>2. <<>> \in Seq(Chunk) /\ Len(<<>>) = 0
      BY EmptySeq
    <2>3. <<>> \o <<>> = <<>> /\ SubSeq(<<>>, 1, 0) = <<>>
      BY <2>2, ConcatEmptySeq, SubSeqEmpty
    <2> QED
      BY <2>1, <2>2, <2>3 DEF Init, StreamInv
  <1> QED
    BY <1>1, <1>3, <1>4, <1>5

\* The inductive invariant of the socket: buffers, closing and, when the
\* kernel takes buffers whole, the stream.
THEOREM SocketInvariant == Spec => [](TypeOK /\ SocketInv)
  <1> DEFINE IInv == /\ TypeOK /\ BufferInv /\ ReportInv /\ FinishInv
                     /\ ~PartialSend => StreamInv
  <1>1. Init => IInv
    BY InitInv
  <1>2. IInv /\ [Next]_vars => IInv'
    BY TypeStep, BufferStep, ReportStep, FinishStep, StreamStep
  <1>3. IInv => TypeOK /\ SocketInv
    BY CloseInvSplit DEF SocketInv
  <1> QED
    BY <1>1, <1>2, <1>3, PTL DEF Spec

\* No accepted byte is ever left in a buffer that nobody will send.
THEOREM NeverStranded == Spec => []NothingStranded
  <1>1. SocketInv => NothingStranded
    BY DEF SocketInv, BufferInv
  <1> QED
    BY <1>1, SocketInvariant, PTL

\* The loss of a connection is reported at most once.
THEOREM ReportedOnce == Spec => []PassiveCloseOnce
  <1>1. SocketInv => PassiveCloseOnce
    BY DEF SocketInv, CloseInv
  <1> QED
    BY <1>1, SocketInvariant, PTL

\* reserve always makes room for a legal packet.
THEOREM AlwaysRoom == Spec => []RoomForEveryPacket
  <1>1. TypeOK /\ SocketInv => RoomForEveryPacket
    <2> SUFFICES ASSUME TypeOK, SocketInv, NEW m \in Msgs
                 PROVE  Fits(m)
      BY DEF RoomForEveryPacket
    <2>1. /\ Len(sendBuffer[idleIndex]) \in Nat
          /\ maxSize[idleIndex] \in Nat
          /\ Len(sendBuffer[idleIndex]) <= maxSize[idleIndex]
      BY BufferTypes DEF TypeOK, SocketInv, BufferInv
    <2> QED
      BY <2>1, PacketIsSeq, ReserveFits DEF Fits
  <1> QED
    BY <1>1, SocketInvariant, PTL

\* When the kernel takes buffers whole, close() drains.
THEOREM CloseDrains == ~PartialSend => (Spec => []DrainedBeforeClose)
  <1> SUFFICES ASSUME ~PartialSend
               PROVE  Spec => []DrainedBeforeClose
    OBVIOUS
  <1>1. TypeOK /\ SocketInv => DrainedBeforeClose
    <2> SUFFICES ASSUME TypeOK, SocketInv, ~isOpen, passiveCloses = 0
                 PROVE  wire = accepted
      BY DEF DrainedBeforeClose
    <2>1. ~asyncWriting /\ accepted = wire \o (Unsent \o sendBuffer[idleIndex])
      BY DEF SocketInv, StreamInv
    <2>2. Unsent = <<>> /\ sendBuffer[idleIndex] = <<>>
      BY <2>1 DEF SocketInv, BufferInv, NothingStranded, Unsent, TypeOK
    <2> QED
      BY <2>1, <2>2, StreamTypes, ConcatEmptySeq
  <1> QED
    BY <1>1, SocketInvariant, PTL

\* The memory of a send in progress is not touched until it completes.
THEOREM InFlightStable == Spec => SendBufferStable
  <1> DEFINE Stable == sendOp = "pending" /\ sendOp' = "pending" =>
                          /\ idleIndex' = idleIndex
                          /\ sendBuffer'[Other(idleIndex)] = sendBuffer[Other(idleIndex)]
                          /\ maxSize'[Other(idleIndex)] = maxSize[Other(idleIndex)]
  <1>1. TypeOK /\ SocketInv /\ [Next]_vars => Stable
    <2> SUFFICES ASSUME TypeOK, SocketInv, [Next]_vars, sendOp = "pending", sendOp' = "pending"
                 PROVE  Stable
      OBVIOUS
    <2> USE DEF flags, buffers
    <2>1. asyncWriting
      BY DEF SocketInv, BufferInv
    <2>2. CASE UNCHANGED buffers
      BY <2>2
    <2>3. ASSUME NEW m \in Msgs, AcceptWrite(m)
          PROVE  Stable
      <3>1. /\ UNCHANGED idleIndex
            /\ sendBuffer' \in {sendBuffer, [sendBuffer EXCEPT ![idleIndex] = @ \o Packet(m)]}
        BY <2>1, <2>3 DEF AcceptWrite, DoWrite
      <3>2. maxSize' = [maxSize EXCEPT ![idleIndex] =
                           Reserve(@, Len(sendBuffer[idleIndex]), PacketSize(m))]
        BY <2>3 DEF AcceptWrite
      <3> QED
        BY <3>1, <3>2, BufferTypes DEF TypeOK
    <2>4. ASSUME NEW m \in Msgs, Write(m) \/ DropWrite(m)
          PROVE  Stable
      BY <2>2, <2>4 DEF Write, DropWrite
    <2>5. CASE Close \/ Read \/ ReadStopped \/ ReadDone \/ KernelRead
      BY <2>2, <2>5 DEF Close, Read, ReadStopped, ReadDone, KernelRead
    <2>6. CASE CloseHandler \/ FinishHandler \/ ReadFailed
      BY <2>2, <2>6 DEF CloseHandler, FinishHandler, ReadFailed, DoClose
    <2>7. CASE SendDone \/ SendFailed \/ SendAborted \/ KernelSend \/ KernelSendError
      BY <2>7 DEF SendDone, SendFailed, SendAborted, KernelSend, KernelSendError
    <2>8. CASE UNCHANGED vars
      BY <2>2, <2>8 DEF vars
    <2> QED
      BY <2>3, <2>4, <2>5, <2>6, <2>7, <2>8 DEF Next, Handlers
  <1> QED
    BY <1>1, SocketInvariant, PTL DEF Spec, SendBufferStable

-----------------------------------------------------------------------------
(* Refinement of OrderedStream.                                            *)

LEMMA StreamClosed ==
    ASSUME TypeOK, SocketInv, ~PartialSend, NEW notify \in BOOLEAN, NEW sOp, NEW rOp,
           DoClose(notify, sOp, rOp), ~notify => ~asyncWriting
    PROVE  [Stream!Next]_(Stream!vars)
  <1>1. UNCHANGED <<accepted, wire>> /\ ~isOpen'
    BY DEF DoClose
  <1>2. CASE ~isOpen
    <2>1. passiveCloses' = passiveCloses + 0
      BY <1>2 DEF DoClose
    <2>2. passiveCloses' = passiveCloses
      BY <2>1 DEF TypeOK
    <2> QED
      BY <1>1, <1>2, <2>2 DEF Stream!vars, Status
  <1>3. CASE isOpen /\ notify
    <2>1. passiveCloses = 0 /\ passiveCloses' = passiveCloses + 1
      BY <1>3 DEF DoClose, SocketInv, CloseInv
    <2>2. Status = "open" /\ Status' = "broken"
      BY <1>1, <1>3, <2>1 DEF Status
    <2> QED
      BY <1>1, <2>2 DEF Stream!Next, Stream!Break
  <1>4. CASE isOpen /\ ~notify
    <2>1. passiveCloses = 0 /\ passiveCloses' = passiveCloses + 0
      BY <1>4 DEF DoClose, SocketInv, CloseInv
    <2>2. Status = "open" /\ Status' = "finished"
      BY <1>1, <1>4, <2>1 DEF Status
    <2>3. Unsent = <<>> /\ sendBuffer[idleIndex] = <<>>
      BY <1>4 DEF SocketInv, BufferInv, NothingStranded, Unsent, TypeOK
    <2>4. accepted = wire \o (Unsent \o sendBuffer[idleIndex])
      BY <1>4 DEF SocketInv, StreamInv
    <2>5. wire = accepted
      BY <2>3, <2>4, StreamTypes, ConcatEmptySeq
    <2> QED
      BY <1>1, <2>2, <2>5 DEF Stream!Next, Stream!Finish
  <1> QED
    BY <1>2, <1>3, <1>4

LEMMA StreamRefinedStep ==
    ASSUME TypeOK, TypeOK', SocketInv, SocketInv', ~PartialSend, [Next]_vars
    PROVE  [Stream!Next]_(Stream!vars)
  <1> USE DEF flags, history
  <1>1. CASE UNCHANGED <<accepted, wire, isOpen, passiveCloses>>
    BY <1>1 DEF Stream!vars, Status
  <1>2. ASSUME NEW m \in Msgs, Write(m) \/ DropWrite(m)
        PROVE  [Stream!Next]_(Stream!vars)
    BY <1>1, <1>2 DEF Write, DropWrite
  <1>3. CASE Close \/ Read \/ ReadStopped \/ ReadDone \/ KernelRead
    BY <1>1, <1>3 DEF Close, Read, ReadStopped, ReadDone, KernelRead
  <1>4. CASE SendDone \/ SendAborted \/ KernelSendError
    BY <1>1, <1>4 DEF SendDone, SendAborted, KernelSendError
  <1>5. CASE SendFailed \/ ReadFailed
    <2>1. CASE notifyCallback
      BY <1>5, <2>1, StreamClosed DEF SendFailed, ReadFailed
    <2>2. CASE ~notifyCallback
      <3>1. ~isOpen
        BY <2>2 DEF SocketInv, CloseInv
      <3>2. UNCHANGED <<accepted, wire, isOpen>> /\ passiveCloses' = passiveCloses + 0
        BY <1>5, <3>1 DEF SendFailed, ReadFailed, DoClose, TypeOK
      <3> QED
        BY <1>1, <3>2 DEF TypeOK
    <2> QED
      BY <2>1, <2>2
  <1>6. CASE CloseHandler
    <2>1. CASE asyncWriting
      BY <1>1, <1>6, <2>1 DEF CloseHandler
    <2>2. CASE ~asyncWriting
      BY <1>6, <2>2, StreamClosed DEF CloseHandler
    <2> QED
      BY <2>1, <2>2
  <1>7. CASE FinishHandler
    <2>1. strand[1] = "finish" /\ 1 \in 1 .. Len(strand)
      BY <1>7, StrandTail DEF FinishHandler
    <2>2. ~asyncWriting
      BY <2>1 DEF SocketInv, CloseInv
    <2> QED
      BY <1>7, <2>2, StreamClosed DEF FinishHandler
  <1>8. ASSUME NEW m \in Msgs, AcceptWrite(m)
        PROVE  [Stream!Next]_(Stream!vars)
    <2>1. ~closeFlag /\ UNCHANGED <<wire, isOpen, passiveCloses>>
      BY <1>8 DEF AcceptWrite
    <2>2. CASE ~Fits(m)
      BY <1>1, <1>8, <2>1, <2>2 DEF AcceptWrite
    <2>3. CASE Fits(m)
      <3>1. accepted' = accepted \o Packet(m)
        BY <1>8, <2>3 DEF AcceptWrite
      <3>2. /\ accepted \in Seq(Chunk) /\ Packet(m) \in Seq(Chunk)
            /\ Len(Packet(m)) \in Nat \ {0}
        BY StreamTypes, PacketIsSeq
      <3>3. Len(accepted') > Len(accepted) /\ SubSeq(accepted', 1, Len(accepted)) = accepted
        BY <3>1, <3>2, PrefixOfConcat, ConcatProperties, LenProperties
      <3>4. Status # "finished" /\ Status' = Status
        BY <2>1 DEF Status, SocketInv, StreamInv
      <3> QED
        BY <2>1, <3>3, <3>4 DEF Stream!Next, Stream!Accept
    <2> QED
      BY <2>2, <2>3
  <1>9. CASE KernelSend
    <2> DEFINE buf == sendBuffer[Other(idleIndex)]
    <2>1. /\ isOpen /\ sendOp' = "sent"
          /\ UNCHANGED <<accepted, isOpen, passiveCloses>>
      BY <1>9 DEF KernelSend, SocketInv, BufferInv
    <2>2. PICK n \in 1 .. Len(buf) : n = Len(buf) /\ wire' = wire \o SubSeq(buf, 1, n)
      BY <1>9 DEF KernelSend
    <2>3. wire' = wire \o buf /\ Len(buf) \in Nat \ {0}
      BY <2>2, StreamTypes, SubSeqFull, LenProperties
    <2>4. Len(wire') = Len(wire) + Len(buf)
      BY <2>3, StreamTypes, ConcatProperties
    <2>5. Len(wire') <= Len(accepted) /\ wire' = SubSeq(accepted, 1, Len(wire'))
      BY <2>1 DEF SocketInv, StreamInv
    <2>6. Len(wire') \in Len(wire) + 1 .. Len(accepted)
      BY <2>3, <2>4, <2>5, StreamTypes
    <2>7. Status = "open" /\ Status' = Status
      BY <2>1 DEF Status
    <2> QED
      BY <2>1, <2>5, <2>6, <2>7 DEF Stream!Next, Stream!Transmit
  <1>10. CASE UNCHANGED vars
    BY <1>1, <1>10 DEF vars
  <1> QED
    BY <1>2, <1>3, <1>4, <1>5, <1>6, <1>7, <1>8, <1>9, <1>10 DEF Next, Handlers

\* When the kernel takes buffers whole, the socket implements OrderedStream:
\* every byte in the order of write(), none twice, none skipped, and a close
\* finished only when all of them have left.
THEOREM SocketRefinesStream == ~PartialSend => (Spec => ImplementsStream)
  <1> SUFFICES ASSUME ~PartialSend
               PROVE  Spec => ImplementsStream
    OBVIOUS
  <1>1. Init => Stream!Init
    BY DEF Init, Stream!Init, Status
  <1>2. TypeOK /\ SocketInv /\ TypeOK' /\ SocketInv' /\ [Next]_vars => [Stream!Next]_(Stream!vars)
    BY StreamRefinedStep
  <1> QED
    BY <1>1, <1>2, SocketInvariant, PTL DEF Spec, ImplementsStream, Stream!Spec

-----------------------------------------------------------------------------
(* readParse.                                                              *)

LEMMA SizeIsNat ==
    ASSUME NEW packet \in PacketType
    PROVE  SizeOf(packet) \in Nat \ {0} /\ SizeOf(packet) >= PacketHeadSize
  <1>1. packet.len \in Nat
    BY ReaderAssumption DEF PacketType
  <1> QED
    BY <1>1, ReaderAssumption DEF SizeOf

LEMMA BytesOfPacket ==
    ASSUME NEW p \in Nat \ {0}, NEW packet \in PacketType
    PROVE  /\ BytesOf(p, packet) \in Seq(Byte)
           /\ Len(BytesOf(p, packet)) = SizeOf(packet)
           /\ \A k \in 1 .. SizeOf(packet) : BytesOf(p, packet)[k] = <<p, k>>
  <1>1. SizeOf(packet) \in Nat
    BY SizeIsNat
  <1>2. \A k \in 1 .. SizeOf(packet) : <<p, k>> \in Byte
    BY <1>1 DEF Byte
  <1>3. BytesOf(p, packet) \in [1 .. SizeOf(packet) -> Byte]
    BY <1>2 DEF BytesOf
  <1> QED
    BY <1>1, <1>3, SeqDef, LenProperties DEF BytesOf

-----------------------------------------------------------------------------
(* Streams.                                                                *)

\* A stream goes on with the next packet that is sent.
LEMMA StreamAppend ==
    ASSUME NEW s \in Seq(Byte), NEW packets \in Seq(PacketType), NEW packet \in PacketType,
           PacketStream(s, packets)
    PROVE  PacketStream(s \o BytesOf(Len(packets) + 1, packet), Append(packets, packet))
  <1> DEFINE n == Len(packets) + 1
             size == SizeOf(packet)
             b == BytesOf(n, packet)
             t == s \o b
             q == Append(packets, packet)
             l == Len(s)
  <1>1. /\ Len(packets) \in Nat /\ n \in Nat \ {0} /\ Len(q) = n
        /\ \A p \in 1 .. Len(packets) : q[p] = packets[p] /\ SizeOf(packets[p]) \in Nat
        /\ q[n] = packet
    BY AppendProperties, LenProperties, ElementOfSeq, SizeIsNat
  <1>2. /\ size \in Nat \ {0}
        /\ b \in Seq(Byte) /\ Len(b) = size
        /\ \A k \in 1 .. size : b[k] = <<n, k>>
    BY <1>1, BytesOfPacket, SizeIsNat
  <1>3. /\ l \in Nat
        /\ Len(t) = l + size
        /\ \A i \in 1 .. l : t[i] = s[i]
        /\ \A i \in l + 1 .. l + size : t[i] = b[i - l]
    <2>1. /\ Len(s) \in Nat
          /\ Len(s \o b) = Len(s) + Len(b)
          /\ \A i \in 1 .. Len(s) + Len(b) :
                (s \o b)[i] = IF i <= Len(s) THEN s[i] ELSE b[i - Len(s)]
      BY <1>2, ConcatProperties, LenProperties
    <2> HIDE DEF b, size
    <2> QED
      BY <1>2, <2>1
  <1> HIDE DEF n, size, b, t, q, l
  <1>4. ASSUME NEW i \in l + 1 .. l + size PROVE t[i] = <<n, i - l>>
    <2>1. i - l \in 1 .. size
      BY <1>2, <1>3
    <2>2. t[i] = b[i - l]
      BY <1>3
    <2> QED
      BY <1>2, <2>1, <2>2
  <1>5. ASSUME NEW i \in 1 .. l
        PROVE  \E p \in 1 .. n : \E k \in 1 .. SizeOf(q[p]) : PacketAt(t, q, i, p, k)
    <2>1. PICK p \in 1 .. Len(packets) : \E k \in 1 .. SizeOf(packets[p]) : PacketAt(s, packets, i, p, k)
      BY DEF PacketStream, l
    <2>2. PICK k \in 1 .. SizeOf(packets[p]) : PacketAt(s, packets, i, p, k)
      BY <2>1
    <2> DEFINE end == i + SizeOf(packets[p]) - k
    <2>3. /\ end <= l
          /\ \A j \in i .. end : s[j] = <<p, k + (j - i)>>
          /\ IF end < l THEN s[end + 1] = <<p + 1, 1>> ELSE p = Len(packets)
      BY <2>2 DEF PacketAt, l
    <2>4. end \in Nat /\ i <= end /\ q[p] = packets[p]
      BY <1>1, <1>3
    <2> HIDE DEF end
    <2>5. \A j \in i .. end : t[j] = <<p, k + (j - i)>>
      BY <1>3, <2>3, <2>4, SMTT(30)
    <2>6. t[end + 1] = <<p + 1, 1>>
      <3>1. CASE end < l
        BY <1>3, <2>3, <2>4, <3>1
      <3>2. CASE end = l
        <4>1. end + 1 \in l + 1 .. l + size /\ (end + 1) - l = 1 /\ p + 1 = n
          BY <1>1, <1>2, <1>3, <2>3, <3>2 DEF n
        <4> QED
          BY <1>4, <4>1
      <3> QED
        BY <1>3, <2>3, <2>4, <3>1, <3>2
    <2>7. end < Len(t)
      <3>1. size \in Nat \ {0} /\ l \in Nat /\ Len(t) = l + size
        BY <1>2, <1>3
      <3>2. end \in Nat /\ end <= l
        BY <2>3, <2>4
      <3> QED
        BY <3>1, <3>2
    <2>8. end = i + SizeOf(q[p]) - k
      BY <2>4 DEF end
    <2>9. PacketAt(t, q, i, p, k)
      BY <2>5, <2>6, <2>7, <2>8 DEF PacketAt
    <2> QED
      BY <1>1, <2>4, <2>9 DEF n
  <1>6. ASSUME NEW i \in l + 1 .. l + size
        PROVE  \E p \in 1 .. n : \E k \in 1 .. SizeOf(q[p]) : PacketAt(t, q, i, p, k)
    <2> DEFINE k == i - l
    <2>1. k \in 1 .. size /\ n \in 1 .. n /\ SizeOf(q[n]) = size
      BY <1>1, <1>2, <1>3 DEF size
    <2>2. i + size - k = Len(t)
      BY <1>2, <1>3
    <2>3. \A j \in i .. Len(t) : t[j] = <<n, k + (j - i)>>
      <3> TAKE j \in i .. Len(t)
      <3>1. j \in l + 1 .. l + size /\ j - l = k + (j - i)
        BY <1>2, <1>3
      <3> QED
        BY <1>4, <3>1
    <2> HIDE DEF k
    <2>4. PacketAt(t, q, i, n, k)
      BY <1>1, <1>2, <1>3, <2>1, <2>2, <2>3 DEF PacketAt
    <2> QED
      BY <2>1, <2>4
  <1>7. \A i \in 1 .. Len(t) : i \in 1 .. l \/ i \in l + 1 .. l + size
    BY <1>2, <1>3
  <1>8. PacketStream(t, q)
    BY <1>1, <1>5, <1>6, <1>7 DEF PacketStream
  <1> QED
    BY <1>8 DEF n, t, q, b

\* A stream is one without its first bytes, too.
LEMMA StreamCut ==
    ASSUME NEW s \in Seq(Byte), NEW packets \in Seq(PacketType), PacketStream(s, packets),
           NEW n \in 0 .. Len(s)
    PROVE  PacketStream(SubSeq(s, n + 1, Len(s)), packets)
  <1> DEFINE t == SubSeq(s, n + 1, Len(s))
             l == Len(s)
  <1>1. /\ l \in Nat /\ n \in 0 .. l
        /\ Len(t) = l - n
        /\ \A i \in 1 .. l - n : t[i] = s[n + i]
    <2>1. \A i \in n + 1 .. Len(s) : s[i] \in Byte
      BY ElementOfSeq, LenProperties
    <2> QED
      BY <2>1, SubSeqProperties, LenProperties
  <1>2. \A p \in 1 .. Len(packets) : SizeOf(packets[p]) \in Nat
    BY ElementOfSeq, SizeIsNat
  <1> HIDE DEF t, l
  <1>3. ASSUME NEW i \in 1 .. Len(t)
        PROVE  \E p \in 1 .. Len(packets) :
                   \E k \in 1 .. SizeOf(packets[p]) : PacketAt(t, packets, i, p, k)
    <2>1. n + i \in 1 .. l
      BY <1>1
    <2>2. PICK p \in 1 .. Len(packets) :
              \E k \in 1 .. SizeOf(packets[p]) : PacketAt(s, packets, n + i, p, k)
      BY <2>1 DEF PacketStream, l
    <2>3. PICK k \in 1 .. SizeOf(packets[p]) : PacketAt(s, packets, n + i, p, k)
      BY <2>2
    <2> DEFINE end == i + SizeOf(packets[p]) - k
    <2>4. end \in Nat /\ i <= end /\ n + end = (n + i) + SizeOf(packets[p]) - k
      BY <1>1, <1>2
    <2> HIDE DEF end
    <2>5. /\ n + end <= l
          /\ \A j \in n + i .. n + end : s[j] = <<p, k + (j - (n + i))>>
          /\ IF n + end < l THEN s[n + end + 1] = <<p + 1, 1>> ELSE p = Len(packets)
      BY <2>3, <2>4 DEF PacketAt, l
    <2>6. \A j \in i .. end : t[j] = <<p, k + (j - i)>>
      <3> TAKE j \in i .. end
      <3>1. n + j \in n + i .. n + end /\ (n + j) - (n + i) = j - i /\ j \in 1 .. l - n
        BY <1>1, <2>4, <2>5
      <3> QED
        BY <1>1, <2>5, <3>1
    <2>7. end < Len(t) => t[end + 1] = s[n + end + 1]
      BY <1>1, <2>4, SMTT(30)
    <2>8. end <= Len(t) /\ (end < Len(t) <=> n + end < l)
      BY <1>1, <2>4, <2>5, SMTT(30)
    <2>9. PacketAt(t, packets, i, p, k)
      BY <2>5, <2>6, <2>7, <2>8 DEF PacketAt, end
    <2> QED
      BY <2>9
  <1>4. PacketStream(t, packets)
    BY <1>3 DEF PacketStream
  <1> QED
    BY <1>4 DEF t

-----------------------------------------------------------------------------
(* What the parser sees.                                                   *)

\* The bytes read and those still to read, as one stream.
LEMMA AllBytes ==
    ASSUME ReaderTypeOK
    PROVE  /\ data \o inflight \in Seq(Byte)
           /\ Len(data) \in Nat /\ Len(inflight) \in Nat
           /\ Len(data \o inflight) = Len(data) + Len(inflight)
           /\ \A i \in 1 .. Len(data) : (data \o inflight)[i] = data[i]
           /\ \A i \in 1 .. Len(inflight) : (data \o inflight)[Len(data) + i] = inflight[i]
           /\ cur \in 0 .. Len(data)
  BY ConcatProperties, LenProperties DEF ReaderTypeOK

\* At every place of the stream there is a packet that was sent.
LEMMA PacketThere ==
    ASSUME ReaderTypeOK, ParsedStreamInv, NEW i \in 1 .. Len(data \o inflight)
    PROVE  \E p \in 1 .. Len(sent), k \in Nat \ {0} :
               /\ sent[p] \in PacketType
               /\ k <= SizeOf(sent[p])
               /\ (data \o inflight)[i] = <<p, k>>
               /\ PacketAt(data \o inflight, sent, i, p, k)
  <1>1. PICK p \in 1 .. Len(sent) :
            \E k \in 1 .. SizeOf(sent[p]) : PacketAt(data \o inflight, sent, i, p, k)
    BY DEF ParsedStreamInv, PacketStream
  <1>2. sent[p] \in PacketType /\ SizeOf(sent[p]) \in Nat
    BY SizeIsNat, ElementOfSeq DEF ReaderTypeOK
  <1>3. PICK k \in 1 .. SizeOf(sent[p]) : PacketAt(data \o inflight, sent, i, p, k)
    BY <1>1
  <1>4. (data \o inflight)[i] = <<p, k>>
    <2> DEFINE end == i + SizeOf(sent[p]) - k
    <2>1. \A j \in i .. end : (data \o inflight)[j] = <<p, k + (j - i)>>
      BY <1>3 DEF PacketAt
    <2>2. i \in i .. end /\ k + (i - i) = k
      BY <1>2, AllBytes
    <2> QED
      BY <2>1, <2>2
  <1> QED
    BY <1>2, <1>3, <1>4

\* The head at m_curIndex is that of the first packet not delivered.
LEMMA CurrentPacket ==
    ASSUME ReaderTypeOK, ParsedStreamInv, HeadArrived
    PROVE  /\ delivered + 1 \in 1 .. Len(sent)
           /\ Current = sent[delivered + 1]
           /\ Current \in PacketType
           /\ SizeOf(Current) \in Nat \ {0}
           /\ PacketAt(data \o inflight, sent, cur + 1, delivered + 1, 1)
  <1>1. cur \in Nat /\ cur + 1 \in 1 .. Len(data) /\ cur + 1 \in 1 .. Len(data \o inflight)
    BY AllBytes, ReaderAssumption DEF HeadArrived, ReadSize
  <1>2. (data \o inflight)[cur + 1] = <<delivered + 1, 1>> /\ data[cur + 1] = <<delivered + 1, 1>>
    BY <1>1, AllBytes DEF ParsedStreamInv
  <1>3. PICK p \in 1 .. Len(sent), k \in Nat \ {0} :
            /\ sent[p] \in PacketType
            /\ (data \o inflight)[cur + 1] = <<p, k>>
            /\ PacketAt(data \o inflight, sent, cur + 1, p, k)
    BY <1>1, PacketThere
  <1>4. p = delivered + 1 /\ k = 1
    <2>1. <<p, k>> = <<delivered + 1, 1>>
      BY <1>2, <1>3
    <2>2. <<p, k>>[1] = <<delivered + 1, 1>>[1] /\ <<p, k>>[2] = <<delivered + 1, 1>>[2]
      BY <2>1
    <2> QED
      BY <2>2
  <1>5. Current = sent[delivered + 1]
    BY <1>2 DEF Current
  <1> QED
    BY <1>3, <1>4, <1>5, SizeIsNat

\* Behind a whole packet the next one begins, or the stream ends.
LEMMA NextPacket ==
    ASSUME ReaderTypeOK, ParsedStreamInv, ~Incomplete, ~TooLong
    PROVE  /\ HeadArrived
           /\ cur + SizeOf(Current) <= Len(data)
           /\ IF cur + SizeOf(Current) = Len(data \o inflight)
              THEN delivered + 1 = Len(sent)
              ELSE (data \o inflight)[cur + SizeOf(Current) + 1] = <<delivered + 2, 1>>
  <1>1. HeadArrived
    BY DEF Incomplete
  <1> DEFINE size == SizeOf(Current)
  <1>2. size \in Nat \ {0} /\ size = SizeOf(sent[delivered + 1])
    BY <1>1, CurrentPacket
  <1>3. cur \in Nat /\ Len(data) \in Nat /\ Len(inflight) \in Nat
    BY AllBytes
  <1>4. size <= MaxPacket /\ size <= Len(data) - cur
    BY <1>1, <1>2, <1>3, ReaderAssumption DEF Incomplete, TooLong, ReadSize
  <1>5. PacketAt(data \o inflight, sent, cur + 1, delivered + 1, 1)
    BY <1>1, CurrentPacket
  <1>6. (cur + 1) + SizeOf(sent[delivered + 1]) - 1 = cur + size
    BY <1>2, <1>3
  <1>7. IF cur + size < Len(data \o inflight)
        THEN (data \o inflight)[cur + size + 1] = <<(delivered + 1) + 1, 1>>
        ELSE delivered + 1 = Len(sent)
    BY <1>5, <1>6 DEF PacketAt
  <1>8. delivered \in Nat /\ (delivered + 1) + 1 = delivered + 2
    BY DEF ReaderTypeOK
  <1> HIDE DEF size
  <1>9. cur + size <= Len(data) /\ cur + size <= Len(data \o inflight)
    BY <1>2, <1>3, <1>4, AllBytes
  <1>10. IF cur + size = Len(data \o inflight)
         THEN delivered + 1 = Len(sent)
         ELSE (data \o inflight)[cur + size + 1] = <<delivered + 2, 1>>
    <2>1. /\ cur + size \in Nat /\ Len(data \o inflight) \in Nat
          /\ cur + size <= Len(data \o inflight)
      BY <1>2, <1>3, <1>9, AllBytes
    <2>2. CASE cur + size = Len(data \o inflight)
      <3>1. ~(cur + size < Len(data \o inflight))
        BY <2>1, <2>2
      <3> QED
        BY <1>7, <2>2, <3>1
    <2>3. CASE cur + size # Len(data \o inflight)
      <3>1. cur + size < Len(data \o inflight)
        BY <2>1, <2>3
      <3> QED
        BY <1>7, <1>8, <2>3, <3>1
    <2> QED
      BY <2>2, <2>3
  <1> QED
    BY <1>1, <1>9, <1>10 DEF size

\* As long as a packet is missing, one has not been delivered.
LEMMA DeliveredBound ==
    ASSUME ReaderTypeOK, ParsedStreamInv
    PROVE  delivered \in 0 .. Len(sent)
  <1>1. Len(sent) \in Nat /\ delivered \in Nat
    BY LenProperties DEF ReaderTypeOK
  <1>2. CASE cur = Len(data \o inflight)
    BY <1>1, <1>2 DEF ParsedStreamInv
  <1>3. CASE cur # Len(data \o inflight)
    <2>1. cur + 1 \in 1 .. Len(data \o inflight)
      BY <1>3, AllBytes
    <2>2. (data \o inflight)[cur + 1] = <<delivered + 1, 1>>
      BY <1>3 DEF ParsedStreamInv
    <2>3. delivered + 1 \in 1 .. Len(sent)
      BY <2>1, <2>2, PacketThere
    <2> QED
      BY <1>1, <2>3
  <1> QED
    BY <1>2, <1>3

-----------------------------------------------------------------------------
(* What the steps do to the stream.                                        *)

\* Bytes go from the kernel to the buffer and stay in order.
LEMMA ReceiveMoves ==
    ASSUME ReaderTypeOK, NEW n \in 1 .. Len(inflight), Receive(n)
    PROVE  /\ data' \in Seq(Byte)
           /\ inflight' \in Seq(Byte)
           /\ data' \o inflight' = data \o inflight
           /\ Len(data') = Len(data) + n
  <1>1. /\ data \in Seq(Byte) /\ inflight \in Seq(Byte)
        /\ Len(inflight) \in Nat /\ n \in 1 .. Len(inflight)
    BY LenProperties DEF ReaderTypeOK
  <1>2. \A i \in 1 .. Len(inflight) : inflight[i] \in Byte
    BY <1>1, ElementOfSeq
  <1> DEFINE front == SubSeq(inflight, 1, n)
             rest == SubSeq(inflight, n + 1, Len(inflight))
  <1>3. /\ front \in Seq(Byte) /\ rest \in Seq(Byte)
        /\ Len(front) = n
        /\ front \o rest = inflight
    <2>1. /\ front \in Seq(Byte) /\ Len(front) = n
      BY <1>1, <1>2, SubSeqProperties
    <2>2. rest \in Seq(Byte)
      BY <1>1, <1>2, SubSeqProperties
    <2>3. front \o rest = SubSeq(inflight, 1, Len(inflight))
      BY <1>1, ConcatAdjacentSubSeq
    <2> QED
      BY <1>1, <2>1, <2>2, <2>3, SubSeqFull
  <1>4. data' = data \o front /\ inflight' = rest
    BY DEF Receive
  <1> HIDE DEF front, rest
  <1>5. (data \o front) \o rest = data \o (front \o rest)
    <2>1. data \in Seq(Byte) /\ front \in Seq(Byte) /\ rest \in Seq(Byte)
      BY <1>1, <1>3
    <2> QED
      BY <2>1, ConcatAssociative
  <1>6. data \o front \in Seq(Byte) /\ Len(data \o front) = Len(data) + Len(front)
    BY <1>1, <1>3, ConcatProperties
  <1> QED
    BY <1>3, <1>4, <1>5, <1>6

\* Leaving readParse cuts off what was consumed, if anything was.
LEMMA LeaveCuts ==
    ASSUME ReaderTypeOK, ParsedStreamInv, NEW next, LeaveParse(next), UNCHANGED <<sent, inflight, delivered>>
    PROVE  /\ data' \in Seq(Byte)
           /\ cur' \in 0 .. Len(data')
           /\ recvCount > 0 => cur' = 0 /\ Len(data') = ReadSize
           /\ recvCount = 0 => UNCHANGED <<data, cur>>
           /\ ParsedStreamInv'
  <1>1. /\ data \in Seq(Byte) /\ inflight \in Seq(Byte)
        /\ Len(data) \in Nat /\ Len(inflight) \in Nat
        /\ cur \in 0 .. Len(data)
        /\ recvCount \in Nat
    BY LenProperties DEF ReaderTypeOK
  <1>2. CASE recvCount > 0
    <2> DEFINE rest == SubSeq(data, cur + 1, Len(data))
               all == data \o inflight
               cut == SubSeq(all, cur + 1, Len(all))
    <2>1. data' = rest /\ cur' = 0 /\ inflight' = inflight /\ sent' = sent /\ delivered' = delivered
      BY <1>2 DEF LeaveParse
    <2>2. \A i \in 1 .. Len(data) : data[i] \in Byte
      BY <1>1, ElementOfSeq
    <2>3. /\ rest \in Seq(Byte) /\ Len(rest) = Len(data) - cur
          /\ \A i \in 1 .. Len(data) - cur : rest[i] = data[cur + i]
      BY <1>1, <2>2, SubSeqProperties
    <2>4. /\ all \in Seq(Byte) /\ Len(all) = Len(data) + Len(inflight)
          /\ \A i \in 1 .. Len(data) : all[i] = data[i]
          /\ \A i \in 1 .. Len(inflight) : all[Len(data) + i] = inflight[i]
      BY AllBytes
    <2>5. \A i \in 1 .. Len(all) : all[i] \in Byte
      BY <2>4, ElementOfSeq
    <2>6. /\ cut \in Seq(Byte) /\ Len(cut) = Len(all) - cur
          /\ \A i \in 1 .. Len(all) - cur : cut[i] = all[cur + i]
      BY <1>1, <2>4, <2>5, SubSeqProperties
    <2> HIDE DEF rest
    <2>7. PacketStream(cut, sent)
      <3>1. /\ sent \in Seq(PacketType) /\ all \in Seq(Byte)
            /\ cur \in 0 .. Len(all)
            /\ PacketStream(all, sent)
        BY <1>1, <2>4 DEF ParsedStreamInv, ReaderTypeOK
      <3> HIDE DEF all
      <3> QED
        BY <3>1, StreamCut DEF all
    <2> HIDE DEF all, cut
    <2>8. /\ rest \o inflight \in Seq(Byte)
          /\ Len(rest \o inflight) = Len(rest) + Len(inflight)
          /\ \A i \in 1 .. Len(rest) + Len(inflight) :
                (rest \o inflight)[i] = IF i <= Len(rest) THEN rest[i] ELSE inflight[i - Len(rest)]
      BY <1>1, <2>3, ConcatProperties
    <2>9. ASSUME NEW i \in 1 .. Len(cut) PROVE (rest \o inflight)[i] = cut[i]
      <3>0. /\ i \in Nat /\ Len(rest) \in Nat /\ cur \in Nat
            /\ Len(rest) + cur = Len(data)
            /\ i <= Len(rest) + Len(inflight)
        BY <1>1, <2>3, <2>4, <2>6
      <3>1. CASE i <= Len(rest)
        BY <1>1, <2>3, <2>4, <2>6, <2>8, <3>1
      <3>2. CASE i > Len(rest)
        <4>1. i - Len(rest) \in 1 .. Len(inflight)
          BY <1>1, <3>0, <3>2
        <4>2. cur + i = Len(data) + (i - Len(rest))
          BY <1>1, <3>0
        <4>3. (rest \o inflight)[i] = inflight[i - Len(rest)]
          BY <1>1, <2>8, <3>0, <3>2
        <4>4. cut[i] = all[cur + i]
          BY <2>4, <2>6, <3>0
        <4> QED
          BY <2>4, <4>1, <4>2, <4>3, <4>4
      <3> QED
        BY <3>0, <3>1, <3>2
    <2>10. rest \o inflight = cut
      <3>1. Len(rest \o inflight) = Len(cut)
        BY <1>1, <2>3, <2>4, <2>6, <2>8
      <3> QED
        BY <2>6, <2>8, <2>9, <3>1, SeqEqual
    <2>11. IF 0 = Len(cut) THEN delivered = Len(sent) ELSE cut[1] = <<delivered + 1, 1>>
      <3>1. IF cur = Len(all) THEN delivered = Len(sent) ELSE all[cur + 1] = <<delivered + 1, 1>>
        BY DEF ParsedStreamInv, all
      <3>2. cur <= Len(all)
        BY <1>1, <2>4
      <3> QED
        BY <1>1, <2>4, <2>6, <3>1, <3>2
    <2>12. (data \o inflight)' = cut
      BY <2>1, <2>10
    <2>13. ParsedStreamInv'
      BY <2>1, <2>7, <2>11, <2>12 DEF ParsedStreamInv
    <2> QED
      BY <1>1, <1>2, <2>1, <2>3, <2>13 DEF ReadSize
  <1>3. CASE recvCount = 0
    <2>1. UNCHANGED <<data, cur, sent, inflight, delivered>>
      BY <1>3 DEF LeaveParse
    <2> QED
      BY <1>1, <1>3, <2>1 DEF ParsedStreamInv
  <1> QED
    BY <1>1, <1>2, <1>3

\* A packet the peer sends joins the end of the stream.
LEMMA SendJoins ==
    ASSUME ReaderTypeOK, ParsedStreamInv, NEW packet \in PacketType, Send(packet)
    PROVE  /\ sent' \in Seq(PacketType)
           /\ inflight' \in Seq(Byte)
           /\ Len(sent') = Len(sent) + 1
           /\ \A i \in 1 .. Len(sent) : sent'[i] = sent[i]
           /\ ParsedStreamInv'
  <1> DEFINE n == Len(sent) + 1
             b == BytesOf(n, packet)
             all == data \o inflight
  <1>1. /\ sent' = Append(sent, packet) /\ inflight' = inflight \o b
        /\ UNCHANGED <<data, cur, delivered>>
    BY DEF Send
  <1>2. /\ sent \in Seq(PacketType) /\ data \in Seq(Byte) /\ inflight \in Seq(Byte)
        /\ Len(sent) \in Nat /\ n \in Nat \ {0} /\ delivered \in Nat
    BY LenProperties DEF ReaderTypeOK
  <1>3. /\ b \in Seq(Byte) /\ Len(b) = SizeOf(packet) /\ SizeOf(packet) \in Nat \ {0}
        /\ b[1] = <<n, 1>>
    <2>1. SizeOf(packet) \in Nat \ {0}
      BY SizeIsNat
    <2> QED
      BY <1>2, <2>1, BytesOfPacket
  <1>4. /\ sent' \in Seq(PacketType)
        /\ Len(sent') = Len(sent) + 1
        /\ \A i \in 1 .. Len(sent) : sent'[i] = sent[i]
    BY <1>1, <1>2, AppendProperties
  <1>5. PacketStream(all \o b, sent')
    BY <1>1, <1>2, AllBytes, StreamAppend DEF ParsedStreamInv
  <1>6. /\ all \in Seq(Byte) /\ Len(all) \in Nat /\ cur \in 0 .. Len(all)
        /\ inflight \o b \in Seq(Byte)
        /\ (data \o inflight) \o b = data \o (inflight \o b)
    <2> HIDE DEF b
    <2>1. all \in Seq(Byte) /\ Len(all) \in Nat /\ cur \in 0 .. Len(all)
      <3>1. all \in Seq(Byte) /\ Len(all) = Len(data) + Len(inflight)
        BY AllBytes
      <3>2. Len(data) \in Nat /\ Len(inflight) \in Nat /\ cur \in 0 .. Len(data)
        BY AllBytes
      <3> HIDE DEF all
      <3> QED
        BY <3>1, <3>2
    <2>2. inflight \o b \in Seq(Byte)
      BY <1>2, <1>3, ConcatProperties
    <2>3. (data \o inflight) \o b = data \o (inflight \o b)
      <3>1. data \in Seq(Byte) /\ inflight \in Seq(Byte) /\ b \in Seq(Byte)
        BY <1>2, <1>3
      <3> QED
        BY <3>1, ConcatAssociative
    <2> QED
      BY <2>1, <2>2, <2>3
  <1>7. /\ Len(all \o b) = Len(all) + Len(b)
        /\ \A i \in 1 .. Len(all) + Len(b) :
              (all \o b)[i] = IF i <= Len(all) THEN all[i] ELSE b[i - Len(all)]
    BY <1>3, <1>6, ConcatProperties
  <1>8. (data \o inflight)' = all \o b
    BY <1>1, <1>6
  <1>9. IF cur = Len(all) THEN delivered = Len(sent) ELSE all[cur + 1] = <<delivered + 1, 1>>
    BY DEF ParsedStreamInv
  <1> HIDE DEF all, b
  <1>10. cur # Len(all \o b) /\ (all \o b)[cur + 1] = <<delivered + 1, 1>>
    <2>1. CASE cur = Len(all)
      BY <1>2, <1>3, <1>6, <1>7, <1>9, <2>1
    <2>2. CASE cur # Len(all)
      BY <1>2, <1>3, <1>6, <1>7, <1>9, <2>2
    <2> QED
      BY <2>1, <2>2
  <1>11. ParsedStreamInv'
    BY <1>1, <1>5, <1>8, <1>10 DEF ParsedStreamInv
  <1> QED
    BY <1>1, <1>4, <1>6, <1>11


\* ParsedStreamInv says of the whole stream what Framing says of neighbouring bytes.
LEMMA FramingHolds ==
    ASSUME ReaderTypeOK, ParsedStreamInv
    PROVE  Framing
  <1> DEFINE all == data \o inflight
             behind == SubSeq(data, cur + 1, Len(data))
             rest == behind \o inflight
  <1>1. /\ all \in Seq(Byte) /\ Len(data) \in Nat /\ Len(inflight) \in Nat
        /\ Len(all) = Len(data) + Len(inflight)
        /\ cur \in 0 .. Len(data)
        /\ \A i \in 1 .. Len(data) : all[i] = data[i]
        /\ \A i \in 1 .. Len(inflight) : all[Len(data) + i] = inflight[i]
    BY AllBytes
  <1>2. delivered \in 0 .. Len(sent) /\ Len(sent) \in Nat
    BY DeliveredBound, LenProperties DEF ReaderTypeOK
  <1>3. \A i \in 1 .. Len(all) :
            \E p \in 1 .. Len(sent), k \in Nat \ {0} :
               /\ sent[p] \in PacketType
               /\ k <= SizeOf(sent[p])
               /\ all[i] = <<p, k>>
               /\ PacketAt(all, sent, i, p, k)
    BY PacketThere
  <1>4. /\ Len(rest) = Len(all) - cur
        /\ cur < Len(all) => rest[1] = all[cur + 1]
    <2>1. data \in Seq(Byte) /\ inflight \in Seq(Byte)
      BY DEF ReaderTypeOK
    <2>2. \A i \in cur + 1 .. Len(data) : data[i] \in Byte
      BY <1>1, <2>1, ElementOfSeq
    <2>3. /\ behind \in Seq(Byte) /\ Len(behind) = Len(data) - cur
          /\ \A i \in 1 .. Len(data) - cur : behind[i] = data[cur + i]
      BY <1>1, <2>2, SubSeqProperties
    <2> HIDE DEF behind
    <2>4. /\ Len(rest) = Len(behind) + Len(inflight)
          /\ \A i \in 1 .. Len(behind) + Len(inflight) :
                rest[i] = IF i <= Len(behind) THEN behind[i] ELSE inflight[i - Len(behind)]
      BY <2>1, <2>3, ConcatProperties
    <2> HIDE DEF all, rest
    <2>5. CASE cur = Len(data)
      <3>1. cur < Len(all) => rest[1] = inflight[1] /\ all[cur + 1] = inflight[1]
        BY <1>1, <2>3, <2>4, <2>5
      <3> QED
        BY <1>1, <2>3, <2>4, <3>1
    <2>6. CASE cur < Len(data)
      BY <1>1, <2>3, <2>4, <2>6
    <2> QED
      BY <1>1, <2>5, <2>6
  <1>5. IF cur = Len(all) THEN delivered = Len(sent) ELSE all[cur + 1] = <<delivered + 1, 1>>
    BY DEF ParsedStreamInv
  <1>6. rest \in Seq(Byte)
    <2>1. data \in Seq(Byte) /\ inflight \in Seq(Byte)
      BY DEF ReaderTypeOK
    <2>2. \A i \in cur + 1 .. Len(data) : data[i] \in Byte
      BY <1>1, <2>1, ElementOfSeq
    <2>3. behind \in Seq(Byte)
      BY <1>1, <2>2, SubSeqProperties
    <2> QED
      BY <2>1, <2>3, ConcatProperties
  <1> HIDE DEF all, rest
  <1>7. IF delivered = Len(sent) THEN rest = <<>> ELSE rest # <<>> /\ rest[1] = <<delivered + 1, 1>>
    <2>1. CASE cur = Len(all)
      BY <1>1, <1>4, <1>5, <1>6, <2>1, EmptySeq
    <2>2. CASE cur # Len(all)
      <3>1. cur + 1 \in 1 .. Len(all) /\ all[cur + 1] = <<delivered + 1, 1>>
        BY <1>1, <1>5, <2>2
      <3>2. PICK p \in 1 .. Len(sent), k \in Nat \ {0} : all[cur + 1] = <<p, k>>
        BY <1>3, <3>1
      <3>3. <<p, k>>[1] = <<delivered + 1, 1>>[1]
        BY <3>1, <3>2
      <3>4. delivered < Len(sent)
        BY <1>2, <3>3
      <3>5. Len(rest) # 0
        BY <1>1, <1>4, <3>1
      <3>6. rest # <<>>
        BY <3>5, EmptySeq
      <3> QED
        BY <1>1, <1>2, <1>4, <3>1, <3>4, <3>6
    <2> QED
      BY <2>1, <2>2
  <1>8. ASSUME NEW i \in 1 .. Len(data) + Len(inflight) - 1
        PROVE  all[i + 1] = IF all[i][2] = SizeOf(sent[all[i][1]])
                            THEN <<all[i][1] + 1, 1>> ELSE <<all[i][1], all[i][2] + 1>>
    <2>1. i \in 1 .. Len(all) /\ i + 1 \in 1 .. Len(all) /\ i < Len(all)
      BY <1>1
    <2>2. PICK p \in 1 .. Len(sent), k \in Nat \ {0} :
               /\ sent[p] \in PacketType
               /\ k <= SizeOf(sent[p])
               /\ all[i] = <<p, k>>
               /\ PacketAt(all, sent, i, p, k)
      BY <1>3, <2>1
    <2>3. all[i][1] = p /\ all[i][2] = k /\ SizeOf(sent[p]) \in Nat
      BY <2>2, SizeIsNat
    <2> DEFINE end == i + SizeOf(sent[p]) - k
    <2>4. /\ \A j \in i .. end : all[j] = <<p, k + (j - i)>>
          /\ end < Len(all) => all[end + 1] = <<p + 1, 1>>
      BY <2>2 DEF PacketAt
    <2>5. CASE k = SizeOf(sent[p])
      <3>1. end = i
        BY <2>1, <2>5
      <3>2. all[i + 1] = <<p + 1, 1>>
        BY <2>1, <2>4, <3>1
      <3> QED
        BY <2>3, <2>5, <3>2
    <2>6. CASE k # SizeOf(sent[p])
      <3>1. i + 1 \in i .. end /\ k + ((i + 1) - i) = k + 1
        BY <2>1, <2>2, <2>3, <2>6
      <3>2. all[i + 1] = <<p, k + 1>>
        BY <2>4, <3>1
      <3> QED
        BY <2>3, <2>6, <3>2
    <2> QED
      BY <2>5, <2>6
  <1>9. delivered <= Len(sent)
    BY <1>2
  <1> QED
    BY ONLY <1>7, <1>8, <1>9 DEF Framing, all, rest, behind


-----------------------------------------------------------------------------
(* The index.                                                              *)

LEMMA IndexIsNat ==
    ASSUME NEW packet \in PacketType
    PROVE  packet.index \in 0 .. TopIndex
  BY ReaderAssumption DEF PacketType

\* What the socket expects after an index, and after none.
LEMMA NextIndexProperties ==
    ASSUME NEW x \in Nat
    PROVE  /\ NextIndex(x) \in Nat
           /\ x = 0 => NextIndex(x) = 0
           /\ x > 0 => NextIndex(x) = Successor(x) /\ NextIndex(x) > 0
  BY ReaderAssumption DEF NextIndex, Successor

\* A packet is let through just when it carries the index the socket counts
\* with, which is then the one of this packet.
LEMMA CountingFits ==
    ASSUME ReaderTypeOK, ParsedStreamInv, HeadArrived
    PROVE  /\ Current.index \in Nat
           /\ Counting \in Nat
           /\ IndexFits <=> Counting = Current.index
           /\ msgIndex = 0 => Counting = Current.index
           /\ msgIndex > 0 => Counting = msgIndex
  <1>1. Current.index \in 0 .. TopIndex
    BY CurrentPacket, IndexIsNat
  <1>2. msgIndex \in Nat
    BY DEF ReaderTypeOK
  <1> QED
    BY <1>1, <1>2, ReaderAssumption DEF Counting, IndexFits

-----------------------------------------------------------------------------
(* What each step preserves.                                               *)

LEMMA ReaderTypeStep ==
    ASSUME ReaderTypeOK, ParsedStreamInv, ReaderNext
    PROVE  ReaderTypeOK'
  <1>1. ASSUME NEW packet \in PacketType, Send(packet) PROVE ReaderTypeOK'
    BY <1>1, SendJoins DEF ReaderTypeOK, Send
  <1>2. ASSUME NEW n \in 1 .. Len(inflight), Receive(n) PROVE ReaderTypeOK'
    <2>1. /\ data' \in Seq(Byte) /\ inflight' \in Seq(Byte)
          /\ Len(data') = Len(data) + n /\ Len(data) \in Nat /\ n \in Nat
      BY <1>2, ReceiveMoves, AllBytes
    <2>2. cur' \in 0 .. Len(data')
      BY <1>2, <2>1 DEF ReaderTypeOK, Receive
    <2> QED
      BY <1>2, <2>1, <2>2 DEF ReaderTypeOK, Receive
  <1>3. ASSUME ParseWait PROVE ReaderTypeOK'
    <2>1. LeaveParse("reading") /\ UNCHANGED <<sent, inflight, recvCount, msgIndex, delivered>>
      BY <1>3 DEF ParseWait
    <2>2. data' \in Seq(Byte) /\ cur' \in 0 .. Len(data')
      BY <2>1, LeaveCuts
    <2>3. state' = "reading"
      BY <2>1 DEF LeaveParse
    <2> QED
      BY <2>1, <2>2, <2>3 DEF ReaderTypeOK
  <1>4. ASSUME ParseDeliver PROVE ReaderTypeOK'
    <2>1. /\ ~Incomplete /\ ~TooLong
          /\ msgIndex' = NextIndex(Counting) /\ delivered' = delivered + 1
          /\ cur' = cur + SizeOf(Current) /\ recvCount' = recvCount + 1
          /\ UNCHANGED <<sent, inflight, data, state>>
      BY <1>4 DEF ParseDeliver
    <2>2. HeadArrived /\ cur + SizeOf(Current) <= Len(data)
      BY <2>1, NextPacket
    <2>3. SizeOf(Current) \in Nat /\ NextIndex(Counting) \in Nat
      BY <2>2, CurrentPacket, CountingFits, NextIndexProperties
    <2>4. cur' \in 0 .. Len(data')
      BY <2>1, <2>2, <2>3, AllBytes
    <2> QED
      BY <2>1, <2>3, <2>4 DEF ReaderTypeOK
  <1>5. ASSUME ParseReject PROVE ReaderTypeOK'
    <2>1. /\ ~Incomplete /\ LeaveParse("closed")
          /\ msgIndex' = IF TooLong THEN msgIndex ELSE Counting
          /\ UNCHANGED <<sent, inflight, recvCount, delivered>>
      BY <1>5 DEF ParseReject
    <2>2. data' \in Seq(Byte) /\ cur' \in 0 .. Len(data')
      BY <2>1, LeaveCuts
    <2>3. state' = "closed"
      BY <2>1 DEF LeaveParse
    <2>4. Counting \in Nat
      BY <2>1, CountingFits DEF Incomplete
    <2> QED
      BY <2>1, <2>2, <2>3, <2>4 DEF ReaderTypeOK
  <1> QED
    BY <1>1, <1>2, <1>3, <1>4, <1>5 DEF ReaderNext, ReadSome, Parse

LEMMA ParsedStreamStep ==
    ASSUME ReaderTypeOK, ParsedStreamInv, ReaderNext
    PROVE  ParsedStreamInv'
  <1>1. ASSUME NEW packet \in PacketType, Send(packet) PROVE ParsedStreamInv'
    BY <1>1, SendJoins
  <1>2. ASSUME NEW n \in 1 .. Len(inflight), Receive(n) PROVE ParsedStreamInv'
    <2>1. (data \o inflight)' = data \o inflight
      BY <1>2, ReceiveMoves
    <2>2. UNCHANGED <<sent, cur, delivered>>
      BY <1>2 DEF Receive
    <2> QED
      BY <2>1, <2>2 DEF ParsedStreamInv
  <1>3. ASSUME NEW next, LeaveParse(next), UNCHANGED <<sent, inflight, delivered>>
        PROVE  ParsedStreamInv'
    BY <1>3, LeaveCuts
  <1>4. ASSUME ParseDeliver PROVE ParsedStreamInv'
    <2>1. /\ ~Incomplete /\ ~TooLong
          /\ delivered' = delivered + 1 /\ cur' = cur + SizeOf(Current)
          /\ UNCHANGED <<sent, inflight, data>>
      BY <1>4 DEF ParseDeliver
    <2>2. IF cur + SizeOf(Current) = Len(data \o inflight)
          THEN delivered + 1 = Len(sent)
          ELSE (data \o inflight)[cur + SizeOf(Current) + 1] = <<delivered + 2, 1>>
      BY <2>1, NextPacket
    <2>3. (delivered + 1) + 1 = delivered + 2
      BY DEF ReaderTypeOK
    <2> QED
      BY <2>1, <2>2, <2>3 DEF ParsedStreamInv
  <1> QED
    BY <1>1, <1>2, <1>3, <1>4 DEF ReaderNext, ReadSome, Parse, ParseWait, ParseReject

LEMMA FrontStep ==
    ASSUME ReaderTypeOK, ParsedStreamInv, FrontInv, ReaderNext
    PROVE  FrontInv'
  <1>0. delivered \in 0 .. Len(sent) /\ Len(sent) \in Nat /\ recvCount \in Nat
    BY DeliveredBound, LenProperties DEF ReaderTypeOK
  <1>1. ASSUME NEW packet \in PacketType, Send(packet) PROVE FrontInv'
    <2>1. Len(sent') = Len(sent) + 1
      BY <1>1, SendJoins
    <2> QED
      BY <1>0, <1>1, <2>1 DEF FrontInv, Send
  <1>2. ASSUME NEW n \in 1 .. Len(inflight), Receive(n) PROVE FrontInv'
    BY <1>2 DEF FrontInv, Receive
  <1>3. ASSUME ParseWait PROVE FrontInv'
    <2>1. LeaveParse("reading") /\ UNCHANGED <<sent, inflight, recvCount, delivered>>
      BY <1>3 DEF ParseWait
    <2>2. recvCount > 0 => cur' = 0
      BY <2>1, LeaveCuts
    <2>3. state' = "reading"
      BY <2>1 DEF LeaveParse
    <2>4. recvCount = 0 => cur' = 0
      BY <1>3, <2>1 DEF FrontInv, ParseWait, LeaveParse
    <2> QED
      BY <1>0, <2>2, <2>3, <2>4 DEF FrontInv
  <1>4. ASSUME ParseDeliver PROVE FrontInv'
    BY <1>0, <1>4 DEF FrontInv, ParseDeliver
  <1>5. ASSUME ParseReject PROVE FrontInv'
    <2>1. delivered + 1 \in 1 .. Len(sent)
      BY <1>5, CurrentPacket DEF ParseReject, Incomplete
    <2>2. state' = "closed" /\ UNCHANGED <<sent, delivered>>
      BY <1>5 DEF ParseReject, LeaveParse
    <2> QED
      BY <1>0, <2>1, <2>2 DEF FrontInv
  <1> QED
    BY <1>1, <1>2, <1>3, <1>4, <1>5 DEF ReaderNext, ReadSome, Parse

\* After a readParse no whole packet is left, so what is kept is shorter than
\* one, and the buffer is longer.
LEMMA RoomStep ==
    ASSUME ReaderTypeOK, ParsedStreamInv, FrontInv, NeverFull, ReaderNext
    PROVE  NeverFull'
  <1>1. ASSUME NEW packet \in PacketType, Send(packet) PROVE NeverFull'
    BY <1>1 DEF NeverFull, WriteSize, Send
  <1>2. ASSUME NEW n \in 1 .. Len(inflight), Receive(n) PROVE NeverFull'
    BY <1>2 DEF NeverFull, Receive
  <1>3. ASSUME ParseWait PROVE NeverFull'
    <2>1. LeaveParse("reading") /\ UNCHANGED <<sent, inflight, recvCount, delivered>>
      BY <1>3 DEF ParseWait
    <2>2. /\ recvCount \in Nat /\ cur \in Nat /\ Len(data) \in Nat
          /\ cur <= Len(data)
      BY AllBytes DEF ReaderTypeOK
    <2>3. Len(data') = ReadSize
      <3>1. CASE recvCount > 0
        BY <2>1, <3>1, LeaveCuts
      <3>2. CASE recvCount = 0
        <4>1. cur = 0
          BY <1>3, <3>2 DEF FrontInv, ParseWait
        <4>2. data' = data
          BY <2>1, <3>2, LeaveCuts
        <4> QED
          BY <2>2, <4>1, <4>2 DEF ReadSize
      <3> QED
        BY <2>2, <3>1, <3>2
    <2>4. ReadSize < MaxPacket
      <3>1. ReadSize \in Nat
        BY <2>2 DEF ReadSize
      <3>2. CASE ~HeadArrived
        BY <3>1, <3>2, ReaderAssumption DEF HeadArrived
      <3>3. CASE HeadArrived
        <4>1. SizeOf(Current) <= MaxPacket /\ SizeOf(Current) > ReadSize
          BY <1>3, <3>3 DEF ParseWait, Incomplete
        <4>2. SizeOf(Current) \in Nat
          BY <3>3, CurrentPacket
        <4> QED
          BY <3>1, <4>1, <4>2, ReaderAssumption
      <3> QED
        BY <3>2, <3>3
    <2> QED
      BY <2>2, <2>3, <2>4, ReaderAssumption DEF NeverFull, WriteSize, ReadSize
  <1>4. ASSUME ParseDeliver PROVE NeverFull'
    BY <1>4 DEF NeverFull, ParseDeliver
  <1>5. ASSUME ParseReject PROVE NeverFull'
    BY <1>5 DEF NeverFull, ParseReject, LeaveParse
  <1> QED
    BY <1>1, <1>2, <1>3, <1>4, <1>5 DEF ReaderNext, ReadSome, Parse


LEMMA IndexStep ==
    ASSUME ReaderTypeOK, ParsedStreamInv, IndexInv, ReaderNext
    PROVE  IndexInv'
  <1>0. delivered \in 0 .. Len(sent) /\ Len(sent) \in Nat
    BY DeliveredBound, LenProperties DEF ReaderTypeOK
  <1>1. ASSUME NEW packet \in PacketType, Send(packet) PROVE IndexInv'
    <2>1. \A i \in 1 .. Len(sent) : sent'[i] = sent[i]
      BY <1>1, SendJoins
    <2>2. UNCHANGED <<state, msgIndex, delivered>>
      BY <1>1 DEF Send
    <2>3. delivered # 0 => sent'[delivered] = sent[delivered]
      BY <1>0, <2>1
    <2> QED
      BY <2>2, <2>3 DEF IndexInv
  <1>2. ASSUME NEW n \in 1 .. Len(inflight), Receive(n) PROVE IndexInv'
    BY <1>2 DEF IndexInv, Receive
  <1>3. ASSUME ParseWait PROVE IndexInv'
    BY <1>3 DEF IndexInv, ParseWait
  <1>4. ASSUME ParseDeliver PROVE IndexInv'
    <2>1. /\ ~Incomplete /\ IndexFits
          /\ msgIndex' = NextIndex(Counting) /\ delivered' = delivered + 1
          /\ UNCHANGED sent
      BY <1>4 DEF ParseDeliver
    <2>2. HeadArrived
      BY <2>1 DEF Incomplete
    <2>3. Counting = sent[delivered + 1].index
      BY <2>1, <2>2, CurrentPacket, CountingFits
    <2>4. delivered' # 0
      BY <1>0, <2>1
    <2> QED
      BY <2>1, <2>3, <2>4 DEF IndexInv
  <1>5. ASSUME ParseReject PROVE IndexInv'
    BY <1>5 DEF IndexInv, ParseReject, LeaveParse
  <1> QED
    BY <1>1, <1>2, <1>3, <1>4, <1>5 DEF ReaderNext, ReadSome, Parse

LEMMA ConsecutiveStep ==
    ASSUME ReaderTypeOK, ParsedStreamInv, IndexInv, Consecutive, ReaderNext
    PROVE  Consecutive'
  <1>0. delivered \in 0 .. Len(sent) /\ Len(sent) \in Nat
    BY DeliveredBound, LenProperties DEF ReaderTypeOK
  <1>1. ASSUME NEW packet \in PacketType, Send(packet) PROVE Consecutive'
    <2>1. \A i \in 1 .. Len(sent) : sent'[i] = sent[i]
      BY <1>1, SendJoins
    <2>2. delivered' = delivered
      BY <1>1 DEF Send
    <2>3. \A i \in 2 .. delivered : sent'[i] = sent[i] /\ sent'[i - 1] = sent[i - 1]
      BY <1>0, <2>1
    <2> QED
      BY <2>2, <2>3 DEF Consecutive
  <1>2. ASSUME UNCHANGED <<sent, delivered>> PROVE Consecutive'
    BY <1>2 DEF Consecutive
  <1>3. ASSUME ParseDeliver PROVE Consecutive'
    <2>1. /\ ~Incomplete /\ IndexFits /\ state = "parsing"
          /\ delivered' = delivered + 1
          /\ UNCHANGED sent
      BY <1>3 DEF ParseDeliver
    <2>2. HeadArrived
      BY <2>1 DEF Incomplete
    <2>3. Counting = sent[delivered + 1].index
      BY <2>1, <2>2, CurrentPacket, CountingFits
    <2>4. ASSUME delivered >= 1, sent[delivered].index > 0
          PROVE  sent[delivered + 1].index = Successor(sent[delivered].index)
      <3>1. sent[delivered].index \in Nat
        <4>1. sent[delivered] \in PacketType
          BY <1>0, <2>4, ElementOfSeq DEF ReaderTypeOK
        <4> QED
          BY <4>1, IndexIsNat
      <3>2. msgIndex = NextIndex(sent[delivered].index)
        BY <1>0, <2>1, <2>4 DEF IndexInv
      <3>3. msgIndex = Successor(sent[delivered].index) /\ msgIndex > 0
        BY <2>4, <3>1, <3>2, NextIndexProperties
      <3> QED
        BY <2>2, <2>3, <3>3, CountingFits
    <2>5. ASSUME NEW i \in 2 .. delivered + 1, sent[i - 1].index > 0
          PROVE  sent[i].index = Successor(sent[i - 1].index)
      <3>1. CASE i \in 2 .. delivered
        BY <2>5, <3>1 DEF Consecutive
      <3>2. CASE i = delivered + 1
        <4>1. i - 1 = delivered /\ delivered >= 1
          BY <1>0, <3>2
        <4> QED
          BY <2>4, <2>5, <3>2, <4>1
      <3> QED
        BY <1>0, <3>1, <3>2
    <2> QED
      BY <2>1, <2>5 DEF Consecutive
  <1> QED
    BY <1>1, <1>2, <1>3 DEF ReaderNext, ReadSome, Parse, Receive, ParseWait, ParseReject

\* A peer that has kept to the protocol up to the packet under m_curIndex is
\* not rejected for it.
LEMMA HonestFits ==
    ASSUME ReaderTypeOK, ParsedStreamInv, IndexInv, HeadArrived, state = "parsing", Honest(delivered + 1)
    PROVE  ~TooLong /\ IndexFits
  <1>0. delivered \in Nat /\ delivered + 1 \in 1 .. Len(sent) /\ Len(sent) \in Nat
    BY CurrentPacket, LenProperties DEF ReaderTypeOK
  <1>1. Current = sent[delivered + 1] /\ SizeOf(Current) \in Nat
    BY CurrentPacket
  <1>2. delivered + 1 \in 1 .. delivered + 1 /\ (delivered + 1) - 1 = delivered
    BY <1>0
  <1>3. /\ SizeOf(sent[delivered + 1]) <= MaxPacket
        /\ \/ /\ delivered + 1 > 1
              /\ sent[delivered].index > 0
              /\ sent[delivered + 1].index = Successor(sent[delivered].index)
           \/ delivered + 1 > 1 => sent[delivered].index = 0
    BY <1>2 DEF Honest
  <1>4. ~TooLong
    BY <1>1, <1>3, ReaderAssumption DEF TooLong
  <1>5. delivered > 0 => sent[delivered].index \in Nat /\ msgIndex = NextIndex(sent[delivered].index)
    <2>1. delivered > 0 => sent[delivered] \in PacketType
      BY <1>0, ElementOfSeq DEF ReaderTypeOK
    <2> QED
      BY <1>0, <2>1, IndexIsNat DEF IndexInv
  <1>6. CASE /\ delivered + 1 > 1
             /\ sent[delivered].index > 0
             /\ sent[delivered + 1].index = Successor(sent[delivered].index)
    <2>1. delivered > 0
      BY <1>0, <1>6
    <2>2. msgIndex = Successor(sent[delivered].index) /\ msgIndex > 0
      BY <1>5, <1>6, <2>1, NextIndexProperties
    <2> QED
      BY <1>1, <1>4, <1>6, <2>2, CountingFits
  <1>7. CASE delivered + 1 > 1 => sent[delivered].index = 0
    <2>1. CASE delivered = 0
      <3>1. msgIndex = 0
        BY <2>1 DEF IndexInv
      <3> QED
        BY <1>4, <3>1, CountingFits
    <2>2. CASE delivered > 0
      <3>1. msgIndex = 0
        BY <1>0, <1>5, <1>7, <2>2, NextIndexProperties, SMTT(30)
      <3> QED
        BY <1>4, <3>1, CountingFits
    <2> QED
      BY <1>0, <2>1, <2>2
  <1> QED
    BY <1>3, <1>6, <1>7

LEMMA HonestStep ==
    ASSUME ReaderTypeOK, ParsedStreamInv, FrontInv, IndexInv, HonestPeerKept, ReaderNext
    PROVE  HonestPeerKept'
  <1>1. ASSUME NEW packet \in PacketType, Send(packet) PROVE HonestPeerKept'
    <2>1. \A i \in 1 .. Len(sent) : sent'[i] = sent[i]
      BY <1>1, SendJoins
    <2>2. UNCHANGED <<state, delivered>>
      BY <1>1 DEF Send
    <2>3. delivered \in Nat /\ Len(sent) \in Nat
      BY LenProperties DEF ReaderTypeOK
    <2>4. CASE state = "closed"
      <3>1. delivered < Len(sent)
        BY <2>4 DEF FrontInv
      <3>2. \A i \in 1 .. delivered + 1 :
                sent'[i] = sent[i] /\ (i > 1 => sent'[i - 1] = sent[i - 1])
        BY <2>1, <2>3, <3>1
      <3>3. Honest(delivered + 1)' => Honest(delivered + 1)
        BY <2>2, <3>2 DEF Honest
      <3> QED
        BY <2>2, <2>4, <3>3 DEF HonestPeerKept
    <2> QED
      BY <2>2, <2>4 DEF HonestPeerKept
  <1>2. ASSUME state' # "closed" PROVE HonestPeerKept'
    BY <1>2 DEF HonestPeerKept
  <1>3. ASSUME ParseReject PROVE HonestPeerKept'
    <2>1. HeadArrived /\ state = "parsing" /\ (TooLong \/ ~IndexFits) /\ UNCHANGED <<sent, delivered>>
      BY <1>3 DEF ParseReject, Incomplete
    <2>2. ~Honest(delivered + 1)
      BY <2>1, HonestFits
    <2>3. Honest(delivered + 1)' <=> Honest(delivered + 1)
      BY <2>1 DEF Honest
    <2> QED
      BY <2>2, <2>3 DEF HonestPeerKept
  <1> QED
    BY <1>1, <1>2, <1>3
    DEF ReaderNext, ReadSome, Parse, Receive, ParseWait, ParseDeliver, LeaveParse

-----------------------------------------------------------------------------
(* The theorems.                                                           *)

LEMMA ParserInit ==
    ASSUME ReaderInit
    PROVE  ParserInv
  <1>1. /\ sent = <<>> /\ inflight = <<>> /\ data = <<>> /\ cur = 0 /\ recvCount = 0
        /\ msgIndex = 0 /\ state = "reading" /\ delivered = 0
    BY DEF ReaderInit
  <1>2. data \o inflight = <<>> /\ Len(data \o inflight) = 0
    BY <1>1
  <1>3. ReaderTypeOK
    BY <1>1 DEF ReaderTypeOK
  <1>4. ParsedStreamInv
    BY <1>1, <1>2 DEF ParsedStreamInv, PacketStream
  <1>5. NeverFull
    BY <1>1, ReaderAssumption DEF NeverFull, WriteSize
  <1>6. Framing
    BY <1>3, <1>4, FramingHolds
  <1>7. FrontInv /\ IndexInv /\ Consecutive /\ HonestPeerKept
    BY <1>1 DEF FrontInv, IndexInv, Consecutive, HonestPeerKept
  <1> QED
    BY <1>3, <1>4, <1>5, <1>6, <1>7 DEF ParserInv, ReaderInv

\* The receiving half keeps its invariant: whatever packets the peer sends and
\* however async_read_some cuts them, readParse stands on a packet boundary of
\* the peer's stream and m_msgIndex belongs to the last packet delivered.
THEOREM ParserInvariant == ReaderSpec => []ParserInv
  <1> DEFINE Core == ReaderTypeOK /\ NeverFull /\ ParsedStreamInv /\ FrontInv /\ IndexInv
                     /\ Consecutive /\ HonestPeerKept
  <1>1. ReaderInit => Core
    BY ParserInit DEF ParserInv, ReaderInv
  <1>2. Core /\ [ReaderNext]_readerVars => Core'
    <2>1. ASSUME Core, ReaderNext PROVE Core'
      BY <2>1, ReaderTypeStep, ParsedStreamStep, FrontStep, RoomStep, IndexStep, ConsecutiveStep, HonestStep
    <2>2. ASSUME Core, UNCHANGED readerVars PROVE Core'
      BY <2>2
      DEF readerVars, ReaderTypeOK, NeverFull, WriteSize, ParsedStreamInv, FrontInv, IndexInv, Consecutive,
          HonestPeerKept, Honest
    <2> QED
      BY <2>1, <2>2
  <1>3. Core => ParserInv
    BY FramingHolds DEF ParserInv, ReaderInv
  <1> QED
    BY <1>1, <1>2, <1>3, PTL DEF ReaderSpec

\* The parser stands on a packet boundary, the packets given to onNewMsg are
\* the first ones sent, in order, what is behind m_curIndex and in the kernel
\* is exactly what follows, and async_read_some never starts on a full buffer.
THEOREM ReaderCorrect == ReaderSpec => []ReaderInv
  <1>1. ParserInv => ReaderInv
    BY DEF ParserInv
  <1> QED
    BY <1>1, ParserInvariant, PTL

\* A peer that counts as the protocol says is never thrown out.
THEOREM HonestIsKept == ReaderSpec => []HonestPeerKept
  <1>1. ParserInv => HonestPeerKept
    BY DEF ParserInv
  <1> QED
    BY <1>1, ParserInvariant, PTL

\* Of a counted stream no packet is delivered twice and none is left out.
THEOREM CountedIsConsecutive == ReaderSpec => []Consecutive
  <1>1. ParserInv => Consecutive
    BY DEF ParserInv
  <1> QED
    BY <1>1, ParserInvariant, PTL
=============================================================================
