---------------------------- MODULE SentryServer ----------------------------
(***************************************************************************)
(* single_server as a whole: its start, the Acceptor and the sockets it    *)
(* owns on the threads of BoostNetwork, the ObjectManager on the main      *)
(* io_service, and a signal that makes closeServer() stop them.            *)
(*                                                                         *)
(* The network side and the logic side talk through two queues: the strand *)
(* of the Acceptor (postCloseSocket, stop, clear, passive closes) and the  *)
(* main io_service, run by one thread (SentryListener's posts, the timer,  *)
(* signals).  The network works before the main thread runs its queue.     *)
(* A socket is reduced to what TcpSocket promises: once asked to close it  *)
(* drains and closes; a lost connection is reported at most once, never    *)
(* after a drained close, and a read that had completed may still deliver  *)
(* its packets after the report.                                           *)
(***************************************************************************)
EXTENDS Naturals, Sequences, FiniteSets

CONSTANTS
    Socks,     \* the connections peers open
    MaxMsgs    \* bound: messages of all connections together

VARIABLES
    listening,   \* m_acceptor.is_open()
    acceptOp,    \* the async_accept: "none", "pending", "error", "aborted", the
                 \*   socket accepted, or "reading" in the middle of the handler
    newSock,     \* the socket the accept handler is working on, or NoSock
    socketVec,   \* m_socketVec
    strand,      \* the handlers posted to m_strand
    conn,        \* conn[s]: "none", "queued", "accepted", "open", "draining", "lost", "closed"
    closeAsked,  \* sockets whose close() was called and has not run yet
    main,        \* the handlers posted to the main io_service
    objects,     \* s_objectMap
    globalUid,   \* s_globalUid
    bindUid,     \* m_bindUid of each socket
    server,      \* the main thread: "signals" set up, "network" begun,
                 \*   "listening", "failed"; "running" its queue; "stopped"
                 \*   (network stop), "joining", "ended"
    interrupted, \* m_interruptedFlag
    waitSignal,  \* is m_singleWait's async_wait pending?
    msgs,        \* messages delivered so far
    added        \* history: sockets addConnector was called with

network == <<listening, acceptOp, newSock, socketVec, strand, conn, closeAsked>>
logic   == <<objects, globalUid, bindUid, added>>
control == <<server, interrupted, waitSignal>>
vars    == <<network, main, logic, control, msgs>>

NoSock == "no socket"

ASSUME ServerAssumption ==
    /\ MaxMsgs \in Nat
    /\ Socks \cap {NoSock, "none", "pending", "error", "aborted", "reading"} = {}

Live   == {"open", "draining", "lost"}
Job(what, s) == [what |-> what, sock |-> s]
Jobs(queue)  == {queue[i] : i \in 1 .. Len(queue)}
StrandJobs == [what : {"active", "passive"}, sock : Socks] \cup [what : {"stop", "clear"}, sock : {NoSock}]
SockJobs   == [what : {"add", "msg", "test", "del"}, sock : Socks]
MainJobs   == SockJobs \cup [what : {"signal", "close"}, sock : {NoSock}]

TypeOK ==
    /\ listening \in BOOLEAN
    /\ acceptOp \in {"none", "pending", "error", "aborted", "reading"} \cup Socks
    /\ newSock \in Socks \cup {NoSock}
    /\ socketVec \subseteq Socks
    /\ strand \in Seq(StrandJobs)
    /\ conn \in [Socks -> {"none", "queued", "accepted", "open", "draining", "lost", "closed"}]
    /\ closeAsked \subseteq Socks
    /\ main \in Seq(MainJobs)
    /\ objects \subseteq [uid : Nat, sock : Socks]
    /\ globalUid \in Nat
    /\ bindUid \in [Socks -> Nat]
    /\ server \in {"signals", "network", "listening", "failed", "running", "stopped",
                  "joining", "ended"}
    /\ {interrupted, waitSignal} \subseteq BOOLEAN
    /\ msgs \in 0 .. MaxMsgs
    /\ added \subseteq Socks

\* runServer, after initSignal.
Init ==
    /\ listening = FALSE
    /\ acceptOp = "none"
    /\ newSock = NoSock
    /\ socketVec = {}
    /\ strand = <<>>
    /\ conn = [s \in Socks |-> "none"]
    /\ closeAsked = {}
    /\ main = <<>>
    /\ objects = {}
    /\ globalUid = 0
    /\ bindUid = [s \in Socks |-> 0]
    /\ server = "signals"
    /\ interrupted = FALSE
    /\ waitSignal = TRUE
    /\ msgs = 0
    /\ added = {}

-----------------------------------------------------------------------------
(* The start, by the main thread.                                          *)

\* onInitNetwork: startNetwork(1).
StartNetwork ==
    /\ server = "signals"
    /\ server' = "network"
    /\ UNCHANGED <<network, main, logic, interrupted, waitSignal, msgs>>

\* Acceptor::listen, all of whose calls succeed.
Listen == listening' = TRUE /\ acceptOp' = "pending"

\* ... then listenAt: the network accepts from now on.
ListenAt ==
    /\ server = "network"
    /\ server' = "listening"
    /\ Listen
    /\ UNCHANGED <<newSock, socketVec, strand, conn, closeAsked, main, logic, interrupted,
                   waitSignal, msgs>>

\* The port is taken, say: runServer returns, and the server's destructor
\* joins a network thread that has its work and never ends.
ListenFails ==
    /\ server = "network"
    /\ server' = "failed"
    /\ UNCHANGED <<network, main, logic, interrupted, waitSignal, msgs>>

\* onInitLogic, which cannot fail, onRunServer, and the queue is run.
RunServer ==
    /\ server = "listening"
    /\ server' = "running"
    /\ UNCHANGED <<network, main, logic, interrupted, waitSignal, msgs>>

\* SIGINT, SIGTERM or SIGQUIT: async_wait completes once, later ones change
\* nothing.
Signal ==
    /\ waitSignal
    /\ waitSignal' = FALSE
    /\ main' = Append(main, Job("signal", NoSock))
    /\ UNCHANGED <<network, logic, server, interrupted, msgs>>

-----------------------------------------------------------------------------
(* The Acceptor: handlers of m_strand.                                     *)

\* The kernel completes the async_accept with a new connection, or an error.
KernelAccept(s) ==
    /\ acceptOp = "pending"
    /\ conn[s] = "none"
    /\ acceptOp' = s
    /\ conn' = [conn EXCEPT ![s] = "queued"]
    /\ UNCHANGED <<listening, newSock, socketVec, strand, closeAsked, main, logic, control, msgs>>

KernelAcceptError ==
    /\ acceptOp = "pending"
    /\ acceptOp' = "error"
    /\ UNCHANGED <<listening, newSock, socketVec, strand, conn, closeAsked, main, logic, control, msgs>>

\* One handler of the strand at a time.
StrandFree == acceptOp # "reading"

\* accept()'s handler on a closed acceptor: the new socket is dropped.
AcceptStopped ==
    /\ \/ acceptOp = "aborted"
       \/ acceptOp \in Socks \cup {"error"} /\ ~listening
    /\ acceptOp' = "none"
    /\ conn' = [s \in Socks |-> IF s = acceptOp THEN "closed" ELSE conn[s]]
    /\ UNCHANGED <<listening, newSock, socketVec, strand, closeAsked, main, logic, control, msgs>>

AcceptFailed ==
    /\ acceptOp = "error"
    /\ listening
    /\ acceptOp' = "pending"
    /\ UNCHANGED <<listening, newSock, socketVec, strand, conn, closeAsked, main, logic, control, msgs>>

\* Faulty: the logic is not told.
AcceptNewSilent ==
    /\ acceptOp \in Socks
    /\ listening
    /\ newSock' = acceptOp
    /\ socketVec' = socketVec \cup {acceptOp}
    /\ acceptOp' = "reading"
    /\ conn' = [conn EXCEPT ![acceptOp] = "accepted"]
    /\ UNCHANGED <<listening, strand, closeAsked, main, logic, control, msgs>>

\* Faulty: does not look whether the acceptor is still open.
AcceptNewAlways ==
    /\ acceptOp \in Socks
    /\ newSock' = acceptOp
    /\ socketVec' = socketVec \cup {acceptOp}
    /\ main' = Append(main, Job("add", acceptOp))
    /\ acceptOp' = "reading"
    /\ conn' = [conn EXCEPT ![acceptOp] = "accepted"]
    /\ UNCHANGED <<listening, strand, closeAsked, logic, control, msgs>>

\* A new socket: it is kept and announced to the logic ...
AcceptNew ==
    /\ acceptOp \in Socks
    /\ listening
    /\ newSock' = acceptOp
    /\ socketVec' = socketVec \cup {acceptOp}
    /\ main' = Append(main, Job("add", acceptOp))
    /\ acceptOp' = "reading"
    /\ conn' = [conn EXCEPT ![acceptOp] = "accepted"]
    /\ UNCHANGED <<listening, strand, closeAsked, logic, control, msgs>>

\* ... then it reads and the next accept is started.
AcceptRead ==
    /\ acceptOp = "reading"
    /\ conn' = [conn EXCEPT ![newSock] = "open"]
    /\ acceptOp' = "pending"
    /\ newSock' = NoSock
    /\ UNCHANGED <<listening, socketVec, strand, closeAsked, main, logic, control, msgs>>

NextJob(job) == StrandFree /\ strand # <<>> /\ Head(strand) = job /\ strand' = Tail(strand)

\* onActiveSocketClose
ActiveClose(s) ==
    /\ NextJob(Job("active", s))
    /\ IF s \in socketVec
       THEN /\ closeAsked' = closeAsked \cup {s}
            /\ socketVec' = socketVec \ {s}
       ELSE UNCHANGED <<closeAsked, socketVec>>
    /\ UNCHANGED <<listening, acceptOp, newSock, conn, main, logic, control, msgs>>

\* Faulty: the logic is not told.
PassiveCloseSilent(s) ==
    /\ NextJob(Job("passive", s))
    /\ socketVec' = socketVec \ {s}
    /\ UNCHANGED <<listening, acceptOp, newSock, conn, closeAsked, main, logic, control, msgs>>

\* onPassiveSocketClose
PassiveClose(s) ==
    /\ NextJob(Job("passive", s))
    /\ IF s \in socketVec
       THEN /\ main' = Append(main, Job("del", s))
            /\ socketVec' = socketVec \ {s}
       ELSE UNCHANGED <<main, socketVec>>
    /\ UNCHANGED <<listening, acceptOp, newSock, conn, closeAsked, logic, control, msgs>>

StopAccept ==
    /\ NextJob(Job("stop", NoSock))
    /\ listening' = FALSE
    /\ acceptOp' = IF acceptOp = "pending" THEN "aborted" ELSE acceptOp
    /\ UNCHANGED <<newSock, socketVec, conn, closeAsked, main, logic, control, msgs>>

ClearSockets ==
    /\ NextJob(Job("clear", NoSock))
    /\ closeAsked' = closeAsked \cup socketVec
    /\ socketVec' = {}
    /\ UNCHANGED <<listening, acceptOp, newSock, conn, main, logic, control, msgs>>

-----------------------------------------------------------------------------
(* The sockets, on their own strands: see TcpSocket.                       *)

\* A whole packet has arrived: onNewMsg posts it to the logic.
Deliver(s, what) ==
    /\ conn[s] \in {"open", "lost"}
    /\ msgs < MaxMsgs
    /\ msgs' = msgs + 1
    /\ main' = Append(main, Job(what, s))
    /\ UNCHANGED <<network, logic, control>>

\* A read or a write fails: doClose reports to the Acceptor.  After a failed
\* write the handler of a completed read may still be to come.
Lost(s) ==
    /\ conn[s] \in {"open", "draining"}
    /\ conn' = [conn EXCEPT ![s] = IF @ = "open" THEN "lost" ELSE "closed"]
    /\ strand' = Append(strand, Job("passive", s))
    /\ UNCHANGED <<listening, acceptOp, newSock, socketVec, closeAsked, main, logic, control, msgs>>

LastReadDone(s) ==
    /\ conn[s] = "lost"
    /\ conn' = [conn EXCEPT ![s] = "closed"]
    /\ UNCHANGED <<listening, acceptOp, newSock, socketVec, strand, closeAsked, main, logic, control, msgs>>

\* close()'s handler: at once, or when the sends in progress are done.
CloseSock(s) ==
    /\ s \in closeAsked
    /\ closeAsked' = closeAsked \ {s}
    /\ \/ conn[s] = "open" /\ \E next \in {"draining", "closed"} : conn' = [conn EXCEPT ![s] = next]
       \/ conn[s] = "lost" /\ conn' = [conn EXCEPT ![s] = "closed"]
       \/ conn[s] \notin {"open", "lost"} /\ UNCHANGED conn
    /\ UNCHANGED <<listening, acceptOp, newSock, socketVec, strand, main, logic, control, msgs>>

Drained(s) ==
    /\ conn[s] = "draining"
    /\ conn' = [conn EXCEPT ![s] = "closed"]
    /\ UNCHANGED <<listening, acceptOp, newSock, socketVec, strand, closeAsked, main, logic, control, msgs>>

-----------------------------------------------------------------------------
(* The logic: handlers of the main io_service.                             *)

Found(uid) == {ob \in objects : ob.uid = uid}

\* addObject keeps the object it has; delObject does nothing without one.
AddObject(ob)  == IF Found(ob.uid) = {} THEN objects \cup {ob} ELSE objects
DelObject(uid) == objects \ Found(uid)

NextCall(job) == server = "running" /\ main # <<>> /\ Head(main) = job /\ main' = Tail(main)

\* Faulty: every uid is 0.
GetIdleUidStuck == 0

GetIdleUid == globalUid

\* onAddSentry: addConnector
AddConnector(s) ==
    /\ NextCall(Job("add", s))
    /\ LET uid == GetIdleUid
       IN /\ globalUid' = globalUid + 1
          /\ bindUid' = [bindUid EXCEPT ![s] = uid]
          /\ objects' = AddObject([uid |-> uid, sock |-> s])
    /\ added' = added \cup {s}
    /\ UNCHANGED <<network, control, msgs>>

\* onDelSentry: delConnector
DelConnector(s) ==
    /\ NextCall(Job("del", s))
    /\ objects' = DelObject(bindUid[s])
    /\ UNCHANGED <<network, globalUid, bindUid, added, control, msgs>>

\* handleMsgRobot, handleMsgPong: nothing but the time of the object changes.
HandleMsg(s) ==
    /\ NextCall(Job("msg", s))
    /\ UNCHANGED <<network, logic, control, msgs>>

\* Faulty: the object is forgotten without closing the connection.
TestLimitTcpNoClose(s) ==
    /\ NextCall(Job("test", s))
    /\ objects' = objects \ Found(bindUid[s])
    /\ UNCHANGED <<network, globalUid, bindUid, added, control, msgs>>

\* handleMsgTestTcpRequest: testLimitTcp closes the object's socket.
TestLimitTcp(s) ==
    /\ NextCall(Job("test", s))
    /\ IF Found(bindUid[s]) = {}
       THEN UNCHANGED <<strand, objects>>
       ELSE \E ob \in Found(bindUid[s]) :
               /\ strand' = Append(strand, Job("active", ob.sock))
               /\ objects' = DelObject(bindUid[ob.sock])
    /\ UNCHANGED <<listening, acceptOp, newSock, socketVec, conn, closeAsked,
                   globalUid, bindUid, added, control, msgs>>

\* One turn of onTimer's loop, at an object that is timed out: it is closed
\* and forgotten.  The Acceptor's strand runs between the turns.
Kick(ob) ==
    /\ server = "running"
    /\ ob \in objects
    /\ strand' = Append(strand, Job("active", ob.sock))
    /\ objects' = objects \ {ob}
    /\ UNCHANGED <<listening, acceptOp, newSock, socketVec, conn, closeAsked, main,
                   globalUid, bindUid, added, control, msgs>>

Post(job) == strand' = Append(strand, job)

\* Faulty: the flag is set before it is looked at.
HandleSignalLate ==
    /\ NextCall(Job("signal", NoSock))
    /\ interrupted' = TRUE
    /\ UNCHANGED <<network, logic, server, waitSignal, msgs>>

InterruptedServer == main' = Append(Tail(main), Job("close", NoSock))

\* handleSignal: interruptedServer posts closeServer.
HandleSignal ==
    /\ server = "running" /\ main # <<>> /\ Head(main) = Job("signal", NoSock)
    /\ IF interrupted
       THEN main' = Tail(main)
       ELSE InterruptedServer
    /\ interrupted' = TRUE
    /\ UNCHANGED <<network, logic, server, waitSignal, msgs>>

\* onCloseServer, as far as closeNetwork's stop.
OnCloseServer == server' = "stopped" /\ Post(Job("stop", NoSock))

\* closeServer: the Acceptor is stopped ...
CloseServer ==
    /\ NextCall(Job("close", NoSock))
    /\ OnCloseServer
    /\ UNCHANGED <<listening, acceptOp, newSock, socketVec, conn, closeAsked, logic,
                   interrupted, waitSignal, msgs>>

\* ... then has it close its sockets, lets go of the work object and waits.
CloseNetwork ==
    /\ server = "stopped"
    /\ server' = "joining"
    /\ Post(Job("clear", NoSock))
    /\ UNCHANGED <<listening, acceptOp, newSock, socketVec, conn, closeAsked, main, logic,
                   interrupted, waitSignal, msgs>>

\* The network's io_service has nothing left to do: join returns.
Idle == acceptOp = "none" /\ strand = <<>> /\ closeAsked = {} /\ \A s \in Socks : conn[s] \notin Live

JoinReturns ==
    /\ server = "joining"
    /\ Idle
    /\ server' = "ended"
    /\ UNCHANGED <<network, main, logic, interrupted, waitSignal, msgs>>

-----------------------------------------------------------------------------
Start  == StartNetwork \/ ListenAt \/ ListenFails \/ RunServer
Accept == AcceptStopped \/ AcceptFailed \/ AcceptNew \/ AcceptRead
Strand == StopAccept \/ ClearSockets \/ \E s \in Socks : ActiveClose(s) \/ PassiveClose(s)
Logic  == \E s \in Socks : AddConnector(s) \/ DelConnector(s) \/ HandleMsg(s) \/ TestLimitTcp(s)

Next ==
    \/ \E s \in Socks : KernelAccept(s)
    \/ KernelAcceptError
    \/ Accept \/ Strand
    \/ \E s \in Socks : Deliver(s, "msg") \/ Deliver(s, "test")
    \/ \E s \in Socks : Lost(s) \/ LastReadDone(s) \/ CloseSock(s) \/ Drained(s)
    \/ Logic
    \/ \E ob \in objects : Kick(ob)
    \/ Start \/ Signal \/ HandleSignal \/ CloseServer \/ CloseNetwork \/ JoinReturns

\* The io threads run what is ready; the peer of a draining socket takes the
\* data or breaks the connection.
Fairness ==
    /\ WF_vars(Accept) /\ WF_vars(Strand) /\ WF_vars(Logic)
    /\ \A s \in Socks : WF_vars(CloseSock(s)) /\ WF_vars(Drained(s)) /\ WF_vars(LastReadDone(s))
    /\ WF_vars(Start) /\ WF_vars(HandleSignal) /\ WF_vars(CloseServer)
    /\ WF_vars(CloseNetwork) /\ WF_vars(JoinReturns)

Spec == Init /\ [][Next]_vars
FairSpec == Spec /\ Fairness

-----------------------------------------------------------------------------
(* Properties.                                                             *)

\* Objects and sockets belong to each other: every object is the one its socket
\* is bound to, and no two sockets are ever bound to one uid, so that what a
\* socket sends, even after it was forgotten, never finds another's object.
OneObjectEach ==
    /\ \A s, t \in added : bindUid[s] = bindUid[t] => s = t
    /\ \A ob \in objects :
          /\ bindUid[ob.sock] = ob.uid
          /\ \A other \in objects : other.uid = ob.uid \/ other.sock = ob.sock => other = ob

\* What a socket sends is handled after it was added, so the uid it is looked
\* up by is its own: not 0, the uid a socket is born with, which is also the
\* uid of the first object (tcp_socket.hpp:91, sentry_manager.cpp:9).
AddedBeforeUse ==
    \A i \in 1 .. Len(main) :
        main[i].what \in {"msg", "test", "del"} =>
            main[i].sock \in added \/ \E j \in 1 .. i - 1 : main[j] = Job("add", main[i].sock)

ServerInv == TypeOK /\ OneObjectEach /\ AddedBeforeUse

\* An object never outlives its connection for good: when its socket is
\* closed or asked to close, its removal is on the way, unless the server is.
NoGhostObject ==
    server = "running" =>
        \A ob \in objects :
            conn[ob.sock] \in {"draining", "lost", "closed"} =>
                Job("passive", ob.sock) \in Jobs(strand) \/ Job("del", ob.sock) \in Jobs(main)

\* A connection never outlives its object for good: when the logic has
\* forgotten it, its close is on the way.
NoOrphanConnection ==
    \A s \in added :
        conn[s] = "open" /\ ~(\E ob \in objects : ob.sock = s) =>
            s \in closeAsked \/ Job("active", s) \in Jobs(strand)

\* The two sides forget each other: neither keeps what the other has dropped.
StayInStep == NoGhostObject /\ NoOrphanConnection

\* A signal, even one that comes while the server starts, brings the server
\* to its end, whatever sockets are open, being accepted or being closed when
\* its turn comes: unless the server could not listen.
ShutdownEnds == ~waitSignal ~> server \in {"ended", "failed"}


-----------------------------------------------------------------------------
(* The inductive strengthening of the safety properties.                   *)

Has(s) == \E ob \in objects : ob.sock = s

\* The accept in progress: the connection it brought, before and after it is
\* announced.
AcceptInv ==
    /\ server \in {"signals", "network"} => acceptOp = "none"
    /\ newSock # NoSock <=> acceptOp = "reading"
    /\ \A s \in Socks :
          /\ conn[s] = "queued" <=> acceptOp = s
          /\ conn[s] = "accepted" <=> newSock = s

\* A connection is announced to the logic once ...
OnceInv ==
    /\ \A i, j \in 1 .. Len(main) : main[i] = main[j] /\ main[i].what = "add" => i = j
    /\ \A s \in added : Job("add", s) \notin Jobs(main)

\* ... and as soon as it is accepted.
AnnounceInv ==
    \A s \in Socks :
        /\ conn[s] \in {"none", "queued"} => s \notin added /\ Job("add", s) \notin Jobs(main)
        /\ s \in socketVec \/ conn[s] \in {"accepted", "open", "draining", "lost"}
              => s \in added \/ Job("add", s) \in Jobs(main)

\* The Acceptor keeps a socket until it is asked to close or reports its loss.
KeptInv ==
    \A s \in Socks :
        /\ s \in socketVec =>
              /\ conn[s] \notin {"none", "queued"}
              /\ s \notin closeAsked
              /\ conn[s] \in {"draining", "lost", "closed"} => Job("passive", s) \in Jobs(strand)
        /\ conn[s] \in {"none", "queued", "accepted"} => s \notin closeAsked
        /\ conn[s] = "accepted" => s \in socketVec
        /\ conn[s] = "open" => s \in socketVec \/ s \in closeAsked
        /\ Job("passive", s) \in Jobs(strand) \/ Job("del", s) \in Jobs(main)
              => conn[s] \in {"lost", "closed"}

\* uids are given out once.
UidInv ==
    /\ \A s \in added : bindUid[s] < globalUid
    /\ \A ob \in objects : ob.sock \in added

Closing == {"stopped", "joining", "ended"}

\* What one side has dropped is on its way to the other.
NewsInv ==
    /\ Job("clear", NoSock) \in Jobs(strand) => server \in Closing
    /\ \A s \in Socks :
          /\ Job("active", s) \in Jobs(strand) => s \in added /\ ~Has(s)
          /\ server \notin Closing /\ (Has(s) \/ Job("add", s) \in Jobs(main))
                => s \in socketVec \/ Job("del", s) \in Jobs(main)
          /\ s \in added /\ conn[s] \in {"accepted", "open"} /\ ~Has(s)
                => s \in closeAsked \/ Job("active", s) \in Jobs(strand)

StepInv ==
    ServerInv /\ AcceptInv /\ OnceInv /\ AnnounceInv /\ KeptInv /\ UidInv /\ NewsInv
=============================================================================
