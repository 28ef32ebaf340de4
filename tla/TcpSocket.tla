----------------------------- MODULE TcpSocket -----------------------------
(***************************************************************************)
(* One connection of boost_network: TcpSocket (tcp_socket.cpp/.hpp) with   *)
(* its two send buffers (buffer.cpp/.hpp), its strand and the asynchronous *)
(* operations it has in the kernel.                                        *)
(*                                                                         *)
(* Everything but read() runs on the socket's strand, one handler at a     *)
(* time, so a handler is one action.  The strand queue holds what write(), *)
(* close() and doWrite() post; the completion of an asynchronous operation *)
(* is kept in sendOp and readOp until its handler runs.  A completion may  *)
(* reach the strand at any moment after the kernel has finished, so its    *)
(* handler is not ordered against the posts.                               *)
(*                                                                         *)
(* Data is a sequence of chunks <<m, k>>, the k-th byte of message m's     *)
(* packet (head included).                                                 *)
(***************************************************************************)
EXTENDS Naturals, Sequences

CONSTANTS
    Msgs,         \* the messages the logic writes, each at most once
    Size,         \* Size[m]: bytes of m's body
    HeadSize,     \* PACKET_HEAD_SIZE
    MaxBody,      \* PACKET_BODY_MAX_SIZE
    BaseSize,     \* DYNAMIC_BUFF_BASE_SIZE
    PartialSend,  \* may the kernel take only a part of a buffer?
    MaxCloses,    \* bound: calls of close()
    MaxReads      \* bound: packets the peer sends

ASSUME SocketAssumption ==
    /\ Msgs \cap {"close", "finish"} = {}
    /\ Size \in [Msgs -> Nat]
    /\ HeadSize \in Nat \ {0}
    /\ MaxBody \in Nat
    /\ BaseSize \in Nat \ {0}
    /\ PartialSend \in BOOLEAN
    /\ MaxCloses \in Nat
    /\ MaxReads \in Nat

VARIABLES
    strand,          \* posted handlers: a message, "close" or "finish"
    sendBuffer,      \* m_sendBuffer[2], the bytes between m_curIndex and m_rearIndex
    maxSize,         \* m_maxSize of the two buffers
    idleIndex,       \* m_idleIndex
    asyncWriting,    \* m_asyncWriting
    notifyCallback,  \* m_notifyCallback
    closeFlag,       \* m_closeFlag
    isOpen,          \* m_socket.is_open()
    sendOp,          \* the async_send in progress, or its completion
    readOp,          \* the async_read_some in progress, or its completion
    posted,          \* messages write() was called with
    closes,          \* calls of close()
    accepted,        \* history: what the write handlers put into a buffer
    wire,            \* history: what the kernel took
    newMsgs,         \* history: calls of onNewMsg
    passiveCloses    \* history: calls of onPassiveSocketClose

buffers == <<sendBuffer, maxSize, idleIndex, asyncWriting>>
flags   == <<notifyCallback, closeFlag, isOpen>>
calls   == <<posted, closes>>
history == <<accepted, wire, newMsgs, passiveCloses>>
vars    == <<strand, buffers, flags, sendOp, readOp, calls, history>>

Chunk == Msgs \X Nat
PacketSize(m) == HeadSize + Size[m]
Packet(m) == [k \in 1 .. PacketSize(m) |-> <<m, k>>]

SendOps == {"idle", "pending", "sent", "failed", "aborted"}
ReadOps == {"none", "pending", "data", "bad", "error", "aborted", "stopped"}

\* Faulty: index & 1.
OtherIsSame(index) == index

\* getIdleIndex: index ^= 1
Other(index) == 1 - index

\* Faulty: whole blocks rounded down.
ReserveRoundsDown(max, used, size) ==
    IF max - used < size THEN max + BaseSize * (size \div BaseSize) ELSE max

\* Buffer::reserve: grow by whole blocks when size bytes do not fit.
Reserve(max, used, size) ==
    IF max - used < size
    THEN max + BaseSize * ((size + BaseSize - 1) \div BaseSize)
    ELSE max

TypeOK ==
    /\ strand \in Seq(Msgs \cup {"close", "finish"})
    /\ sendBuffer \in [{0, 1} -> Seq(Chunk)]
    /\ maxSize \in [{0, 1} -> Nat]
    /\ idleIndex \in {0, 1}
    /\ asyncWriting \in BOOLEAN
    /\ notifyCallback \in BOOLEAN
    /\ closeFlag \in BOOLEAN
    /\ isOpen \in BOOLEAN
    /\ sendOp \in SendOps
    /\ readOp \in ReadOps
    /\ posted \subseteq Msgs
    /\ closes \in 0 .. MaxCloses
    /\ accepted \in Seq(Chunk)
    /\ wire \in Seq(Chunk)
    /\ newMsgs \in Nat
    /\ passiveCloses \in Nat

Init ==
    /\ strand = <<>>
    /\ sendBuffer = [i \in {0, 1} |-> <<>>]
    /\ maxSize = [i \in {0, 1} |-> BaseSize]
    /\ idleIndex = 0
    /\ asyncWriting = FALSE
    /\ notifyCallback = TRUE
    /\ closeFlag = FALSE
    /\ isOpen = TRUE
    /\ sendOp = "idle"
    /\ readOp = "none"
    /\ posted = {}
    /\ closes = 0
    /\ accepted = <<>>
    /\ wire = <<>>
    /\ newMsgs = 0
    /\ passiveCloses = 0

-----------------------------------------------------------------------------
(* Calls of the logic, from any thread.                                    *)

Write(m) ==
    /\ m \notin posted
    /\ posted' = posted \cup {m}
    /\ strand' = Append(strand, m)
    /\ UNCHANGED <<buffers, flags, sendOp, readOp, closes, history>>

Close ==
    /\ closes < MaxCloses
    /\ closes' = closes + 1
    /\ strand' = Append(strand, "close")
    /\ UNCHANGED <<buffers, flags, sendOp, readOp, posted, history>>

\* The state of the read operation once async_read_some is called: on a
\* closed socket it fails with bad_descriptor.
StartRead == IF isOpen THEN "pending" ELSE "error"

\* read(): the owner calls it once, when the connection is up.
Read ==
    /\ readOp = "none"
    /\ readOp' = StartRead
    /\ UNCHANGED <<strand, buffers, flags, sendOp, calls, history>>

-----------------------------------------------------------------------------
(* What the handlers share.                                                *)

\* doWrite: buf and writing are the buffers and m_asyncWriting as the
\* caller leaves them, rest is what the strand still has to run.
DoWrite(buf, writing, rest) ==
    /\ sendBuffer' = buf
    /\ \/ /\ writing
          /\ strand' = rest
          /\ UNCHANGED <<idleIndex, asyncWriting, sendOp>>
       \/ /\ ~writing
          /\ buf[idleIndex] = <<>>
          /\ asyncWriting' = FALSE
          /\ sendOp' = "idle"
          /\ strand' = IF closeFlag THEN Append(rest, "finish") ELSE rest
          /\ UNCHANGED idleIndex
       \/ /\ ~writing
          /\ buf[idleIndex] # <<>>
          /\ asyncWriting' = TRUE
          /\ idleIndex' = Other(idleIndex)
          /\ sendOp' = IF isOpen THEN "pending" ELSE "failed"
          /\ strand' = rest

\* m_socket.cancel() and close(): an operation still in the kernel completes
\* with operation_aborted; one that has already completed is not recalled.
Abort(op) == IF isOpen /\ op = "pending" THEN "aborted" ELSE op

\* Faulty: the callback is not tied to the socket being open.
DoCloseAgain(notify, sOp, rOp) ==
    /\ notifyCallback' = notify
    /\ isOpen' = FALSE
    /\ sendOp' = Abort(sOp)
    /\ readOp' = Abort(rOp)
    /\ passiveCloses' = passiveCloses + (IF notify THEN 1 ELSE 0)
    /\ UNCHANGED <<buffers, calls, accepted, wire, newMsgs>>

\* doClose: notify, sOp and rOp are m_notifyCallback and the two operations
\* as the caller leaves them.
DoClose(notify, sOp, rOp) ==
    /\ notifyCallback' = notify
    /\ isOpen' = FALSE
    /\ sendOp' = Abort(sOp)
    /\ readOp' = Abort(rOp)
    /\ passiveCloses' = passiveCloses + (IF isOpen /\ notify THEN 1 ELSE 0)
    /\ UNCHANGED <<buffers, calls, accepted, wire, newMsgs>>

-----------------------------------------------------------------------------
(* The handlers posted to the strand.                                      *)

NextHandler(h) == strand # <<>> /\ Head(strand) = h

Fits(m) ==
    PacketSize(m) <= Reserve(maxSize[idleIndex], Len(sendBuffer[idleIndex]), PacketSize(m))
                     - Len(sendBuffer[idleIndex])

\* write() on a closing socket, or of a body over the limit.
DropWrite(m) ==
    /\ NextHandler(m)
    /\ closeFlag \/ Size[m] > MaxBody
    /\ strand' = Tail(strand)
    /\ UNCHANGED <<buffers, flags, sendOp, readOp, calls, history>>

\* write() reserves room, appends head and body and calls doWrite.
AcceptWrite(m) ==
    /\ NextHandler(m)
    /\ ~closeFlag
    /\ Size[m] <= MaxBody
    /\ maxSize' = [maxSize EXCEPT ![idleIndex] =
                      Reserve(@, Len(sendBuffer[idleIndex]), PacketSize(m))]
    /\ IF Fits(m)
       THEN /\ DoWrite([sendBuffer EXCEPT ![idleIndex] = @ \o Packet(m)],
                       asyncWriting, Tail(strand))
            /\ accepted' = accepted \o Packet(m)
       ELSE /\ strand' = Tail(strand)
            /\ UNCHANGED <<sendBuffer, idleIndex, asyncWriting, sendOp, accepted>>
    /\ UNCHANGED <<flags, readOp, calls, wire, newMsgs, passiveCloses>>

\* Faulty: only sets the flag and leaves the rest to doWrite.
CloseHandlerOnlyFlags ==
    /\ NextHandler("close")
    /\ strand' = Tail(strand)
    /\ closeFlag' = TRUE
    /\ UNCHANGED <<buffers, notifyCallback, isOpen, sendOp, readOp, calls, history>>

\* Faulty: does not wait for the send in progress.
CloseHandlerAtOnce ==
    /\ NextHandler("close")
    /\ strand' = Tail(strand)
    /\ closeFlag' = TRUE
    /\ DoClose(FALSE, sendOp, readOp)

\* close(): at once when no send is in progress, else when doWrite finds
\* nothing left to send.
CloseHandler ==
    /\ NextHandler("close")
    /\ strand' = Tail(strand)
    /\ closeFlag' = TRUE
    /\ IF asyncWriting
       THEN UNCHANGED <<buffers, notifyCallback, isOpen, sendOp, readOp, calls, history>>
       ELSE DoClose(FALSE, sendOp, readOp)

\* The handler doWrite posts when everything is sent and a close was asked for.
FinishHandler ==
    /\ NextHandler("finish")
    /\ strand' = Tail(strand)
    /\ UNCHANGED closeFlag
    /\ DoClose(FALSE, sendOp, readOp)

-----------------------------------------------------------------------------
(* Completion handlers.                                                    *)

\* Faulty: the buffer is not emptied.
AfterSendKeepsData(sent) == sent

\* What is left of a buffer once its send has completed: addReadLen of all
\* of getReadSize(), whatever sendLength says, then refitBuffer.
AfterSend(sent) == <<>>

SendDone ==
    /\ sendOp = "sent"
    /\ DoWrite([sendBuffer EXCEPT ![Other(idleIndex)] = AfterSend(@)], FALSE, strand)
    /\ UNCHANGED <<maxSize, flags, readOp, calls, history>>

\* onWriteError: m_asyncWriting stays set.
SendFailed ==
    /\ sendOp = "failed"
    /\ DoClose(notifyCallback, "idle", readOp)
    /\ UNCHANGED <<strand, closeFlag>>

SendAborted ==
    /\ sendOp = "aborted"
    /\ sendOp' = "idle"
    /\ UNCHANGED <<strand, buffers, flags, readOp, calls, history>>

\* A closing socket stops reading; operation_aborted ends the reads too.
ReadStopped ==
    /\ \/ readOp \in {"data", "bad", "error"} /\ closeFlag
       \/ readOp = "aborted"
    /\ readOp' = "stopped"
    /\ UNCHANGED <<strand, buffers, flags, sendOp, calls, history>>

ReadDone ==
    /\ readOp = "data"
    /\ ~closeFlag
    /\ newMsgs' = newMsgs + 1
    /\ readOp' = StartRead
    /\ UNCHANGED <<strand, buffers, flags, sendOp, calls, accepted, wire, passiveCloses>>

\* onReadError, after an error of the socket or a packet readParse rejects.
ReadFailed ==
    /\ readOp \in {"bad", "error"}
    /\ ~closeFlag
    /\ DoClose(notifyCallback, sendOp, "stopped")
    /\ UNCHANGED <<strand, closeFlag>>

-----------------------------------------------------------------------------
(* The kernel and the peer.                                                *)

\* async_send is one send(2): it may take only a part of the buffer.
KernelSend ==
    /\ sendOp = "pending"
    /\ LET buf == sendBuffer[Other(idleIndex)]
       IN \E n \in 1 .. Len(buf) :
             /\ PartialSend \/ n = Len(buf)
             /\ wire' = wire \o SubSeq(buf, 1, n)
    /\ sendOp' = "sent"
    /\ UNCHANGED <<strand, buffers, flags, readOp, calls, accepted, newMsgs, passiveCloses>>

KernelSendError ==
    /\ sendOp = "pending"
    /\ sendOp' = "failed"
    /\ UNCHANGED <<strand, buffers, flags, readOp, calls, history>>

KernelRead ==
    /\ readOp = "pending"
    /\ \/ newMsgs < MaxReads /\ readOp' = "data"
       \/ readOp' \in {"bad", "error"}
    /\ UNCHANGED <<strand, buffers, flags, sendOp, calls, history>>

-----------------------------------------------------------------------------
Handlers ==
    \/ \E m \in Msgs : DropWrite(m) \/ AcceptWrite(m)
    \/ CloseHandler \/ FinishHandler

Next ==
    \/ \E m \in Msgs : Write(m)
    \/ Close \/ Read
    \/ Handlers
    \/ SendDone \/ SendFailed \/ SendAborted
    \/ ReadStopped \/ ReadDone \/ ReadFailed
    \/ KernelSend \/ KernelSendError \/ KernelRead

\* The threads of Network run every handler that is ready, and the peer
\* keeps taking data (or the connection breaks).
Fairness ==
    /\ WF_vars(Handlers)
    /\ WF_vars(SendDone \/ SendFailed \/ SendAborted)
    /\ WF_vars(KernelSend \/ KernelSendError)

Spec == Init /\ [][Next]_vars
FairSpec == Spec /\ Fairness

-----------------------------------------------------------------------------
(* Properties.                                                             *)

\* No accepted byte is left without somebody to send it: with no send in
\* progress both buffers are empty, and while the socket is open a send "in
\* progress" is really in the kernel or has a completion handler to come
\* (write() relies on that handler to call doWrite, tcp_socket.cpp:127).
NothingStranded ==
    /\ ~asyncWriting => \A i \in {0, 1} : sendBuffer[i] = <<>>
    /\ asyncWriting /\ isOpen => sendOp # "idle"

\* The memory handed to async_send is neither written, nor moved by reserve's
\* resize, nor swapped for the other buffer while the kernel holds it: the
\* reason for the two buffers of tcp_socket.hpp:79.
SendBufferStable ==
    [][sendOp = "pending" /\ sendOp' = "pending" =>
          /\ idleIndex' = idleIndex
          /\ sendBuffer'[Other(idleIndex)] = sendBuffer[Other(idleIndex)]
          /\ maxSize'[Other(idleIndex)] = maxSize[Other(idleIndex)]]_vars

\* A read error, a write error and a close racing each other report the loss
\* of the connection to the IoInterface at most once (doClose).
PassiveCloseOnce == passiveCloses <= 1

\* After reserve a packet within the size limit always has room, so the early
\* return of write() at tcp_socket.cpp:64 never loses a legal message.
RoomForEveryPacket ==
    \A m \in Msgs : NextHandler(m) /\ ~closeFlag /\ Size[m] <= MaxBody => Fits(m)

\* sentry_manager.hpp:36 on postCloseSocket after a burst of writes: all data
\* written before the close is sent.  A close that is not reported as a loss
\* of the connection (passiveCloses = 0) has sent every accepted byte.
DrainedBeforeClose == ~isOpen /\ passiveCloses = 0 => wire = accepted

\* close() ends in a closed socket, whatever sends were in progress, and so do
\* all its races with errors.
CloseCompletes == closeFlag ~> ~isOpen

Status ==
    IF isOpen THEN "open" ELSE IF passiveCloses = 0 THEN "finished" ELSE "broken"

\* When the kernel takes buffers whole, the socket is an ordered stream that
\* is drained by close(): see OrderedStream.
Stream == INSTANCE OrderedStream WITH status <- Status

ImplementsStream == Stream!Spec

-----------------------------------------------------------------------------
(* The inductive strengthening of the properties above.                    *)

BufferInv ==
    /\ NothingStranded
    /\ ~asyncWriting => sendOp = "idle"
    /\ sendOp = "pending" => isOpen
    /\ sendOp = "aborted" => ~isOpen
    /\ \A i \in {0, 1} : Len(sendBuffer[i]) <= maxSize[i]

CloseInv ==
    /\ PassiveCloseOnce
    /\ isOpen => passiveCloses = 0
    /\ ~notifyCallback => ~isOpen
    /\ \A i \in 1 .. Len(strand) : strand[i] = "finish" => closeFlag /\ ~asyncWriting

\* The bytes of the buffer in the kernel that have not left yet.
Unsent == IF sendOp = "pending" THEN sendBuffer[Other(idleIndex)] ELSE <<>>

\* Until a send fails, what was accepted is what left, then what the kernel
\* holds, then the idle buffer; a socket closed without a report was idle.
StreamInv ==
    /\ Len(wire) <= Len(accepted)
    /\ wire = SubSeq(accepted, 1, Len(wire))
    /\ sendOp \in {"pending", "sent"} \/ ~asyncWriting =>
          accepted = wire \o (Unsent \o sendBuffer[idleIndex])
    /\ ~isOpen /\ passiveCloses = 0 => closeFlag /\ ~asyncWriting

\* One invariant for both uses: the stream half needs whole sends.
SocketInv ==
    /\ BufferInv
    /\ CloseInv
    /\ ~PartialSend => StreamInv
=============================================================================
