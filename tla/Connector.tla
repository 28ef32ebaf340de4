------------------------------ MODULE Connector ------------------------------
(***************************************************************************)
(* The client side of boost_network: one Connector (connector.cpp/.hpp)    *)
(* with the connections it makes one after the other, and BoostNetwork     *)
(* stopping and closing it (network.cpp).                                  *)
(*                                                                         *)
(* All handlers of the Connector run on m_strand and are one action each.  *)
(* The completion of the async_connect is kept in connectOp, that of the   *)
(* reconnect timer in timerOp, until its handler runs.  A socket is        *)
(* reduced to what TcpSocket promises, as in SentryServer.  The name of a  *)
(* closed connection that nothing refers to any more may be used again.    *)
(***************************************************************************)
EXTENDS Naturals, Sequences

CONSTANTS
    Socks,          \* names of connections: bounds those alive at once
    ReconnectTime,  \* m_reconnectTime
    StartSigns      \* what m_startSign may start as: {FALSE} is the constructor's;
                    \* TRUE reaches the rest of reconnect(), which {FALSE} never runs

VARIABLES
    startSign,   \* m_startSign
    connectOp,   \* the async_connect in progress, or its completion
    timerOp,     \* the wait of m_timer in progress, or its completion
    socketPtr,   \* m_socketPtr, or NoSock
    strand,      \* the handlers posted to m_strand
    conn,        \* conn[s]: "none", "open", "draining" or "closed"
    closeAsked,  \* sockets whose close() was called and has not run yet
    network,     \* "running", "stopped" (stop called), "joining", "ended"
    told,        \* history: the last of onConnect and onClose the logic was given
    asked        \* history: connections closed on our side

timer    == <<startSign, timerOp>>
sockets  == <<socketPtr, conn, closeAsked>>
history  == <<told, asked>>
vars     == <<timer, connectOp, strand, sockets, network, history>>

NoSock == "no socket"

ASSUME ConnectorAssumption ==
    /\ ReconnectTime \in Nat
    /\ StartSigns \subseteq BOOLEAN
    /\ NoSock \notin Socks

Job(what, s)    == [what |-> what, sock |-> s]
Jobs(queue)     == {queue[i] : i \in 1 .. Len(queue)}
StrandJobs      == [what : {"active", "passive"}, sock : Socks] \cup [what : {"stop", "clear"}, sock : {NoSock}]
CompletionState == {"none", "pending", "done", "failed", "aborted"}

TypeOK ==
    /\ startSign \in BOOLEAN
    /\ connectOp \in CompletionState
    /\ timerOp \in CompletionState \ {"failed"}
    /\ socketPtr \in Socks \cup {NoSock}
    /\ strand \in Seq(StrandJobs)
    /\ conn \in [Socks -> {"none", "open", "draining", "closed"}]
    /\ closeAsked \subseteq Socks
    /\ network \in {"running", "stopped", "joining", "ended"}
    /\ told \in [Socks -> {"nothing", "connect", "close"}]
    /\ asked \subseteq Socks

\* The constructor calls connect().
Init ==
    /\ startSign \in StartSigns
    /\ connectOp = "pending"
    /\ timerOp = "none"
    /\ socketPtr = NoSock
    /\ strand = <<>>
    /\ conn = [s \in Socks |-> "none"]
    /\ closeAsked = {}
    /\ network = "running"
    /\ told = [s \in Socks |-> "nothing"]
    /\ asked = {}

-----------------------------------------------------------------------------
(* Handlers of the Connector.                                              *)

Reconnect ==
    IF ReconnectTime = 0 \/ ~startSign
    THEN UNCHANGED timer
    ELSE timerOp' = "pending" /\ UNCHANGED startSign

\* A name for the next connection.
Unused(s) ==
    /\ conn[s] \in {"none", "closed"}
    /\ s # socketPtr
    /\ s \notin closeAsked
    /\ \A job \in Jobs(strand) : job.sock # s

\* connect()'s handler: a new socket, announced, then reading.
ConnectDone(s) ==
    /\ connectOp = "done"
    /\ Unused(s)
    /\ connectOp' = "none"
    /\ socketPtr' = s
    /\ conn' = [conn EXCEPT ![s] = "open"]
    /\ told' = [told EXCEPT ![s] = "connect"]
    /\ asked' = asked \ {s}
    /\ UNCHANGED <<timer, strand, closeAsked, network>>

ConnectFailed ==
    /\ connectOp = "failed"
    /\ connectOp' = "none"
    /\ Reconnect
    /\ UNCHANGED <<strand, sockets, network, history>>

ConnectAborted ==
    /\ connectOp = "aborted"
    /\ connectOp' = "none"
    /\ UNCHANGED <<timer, strand, sockets, network, history>>

\* reconnect()'s handler calls connect().
TimerDone ==
    /\ timerOp = "done"
    /\ timerOp' = "none"
    /\ connectOp' = "pending"
    /\ UNCHANGED <<startSign, strand, sockets, network, history>>

TimerAborted ==
    /\ timerOp = "aborted"
    /\ timerOp' = "none"
    /\ UNCHANGED <<startSign, connectOp, strand, sockets, network, history>>

NextJob(job) == strand # <<>> /\ Head(strand) = job /\ strand' = Tail(strand)

\* Faulty: m_socketPtr is left as it is.
ActiveCloseKeeps(s) ==
    /\ NextJob(Job("active", s))
    /\ IF s = socketPtr
       THEN /\ closeAsked' = closeAsked \cup {s}
            /\ asked' = asked \cup {s}
            /\ Reconnect
       ELSE UNCHANGED <<closeAsked, asked, timer>>
    /\ UNCHANGED <<connectOp, socketPtr, conn, network, told>>

\* onActiveSocketClose
ActiveClose(s) ==
    /\ NextJob(Job("active", s))
    /\ IF s = socketPtr
       THEN /\ closeAsked' = closeAsked \cup {s}
            /\ asked' = asked \cup {s}
            /\ socketPtr' = NoSock
            /\ Reconnect
       ELSE UNCHANGED <<closeAsked, asked, socketPtr, timer>>
    /\ UNCHANGED <<connectOp, conn, network, told>>

\* Faulty: the logic is not told.
PassiveCloseSilent(s) ==
    /\ NextJob(Job("passive", s))
    /\ IF s = socketPtr
       THEN socketPtr' = NoSock /\ Reconnect
       ELSE UNCHANGED <<socketPtr, timer>>
    /\ UNCHANGED <<connectOp, conn, closeAsked, network, history>>

\* onPassiveSocketClose
PassiveClose(s) ==
    /\ NextJob(Job("passive", s))
    /\ IF s = socketPtr
       THEN /\ told' = [told EXCEPT ![s] = "close"]
            /\ socketPtr' = NoSock
            /\ Reconnect
       ELSE UNCHANGED <<told, socketPtr, timer>>
    /\ UNCHANGED <<connectOp, conn, closeAsked, network, asked>>

\* cancel(): completes with operation_aborted.
CancelOp(op) == IF op = "pending" THEN "aborted" ELSE op

\* stop(): a completion that is already queued is not recalled.
StopConnect ==
    /\ NextJob(Job("stop", NoSock))
    /\ startSign' = FALSE
    /\ connectOp' = IF socketPtr = NoSock THEN CancelOp(connectOp) ELSE connectOp
    /\ timerOp' = CancelOp(timerOp)
    /\ UNCHANGED <<sockets, network, history>>

\* Faulty: the socket is let go of, not closed.
ClearConnectNoClose ==
    /\ NextJob(Job("clear", NoSock))
    /\ socketPtr' = NoSock
    /\ UNCHANGED <<timer, connectOp, conn, closeAsked, network, history>>

\* clear()
ClearConnect ==
    /\ NextJob(Job("clear", NoSock))
    /\ closeAsked' = closeAsked \cup ({socketPtr} \ {NoSock})
    /\ asked' = asked \cup ({socketPtr} \ {NoSock})
    /\ socketPtr' = NoSock
    /\ UNCHANGED <<timer, connectOp, conn, network, told>>

-----------------------------------------------------------------------------
(* The kernel, and the sockets on their own strands: see TcpSocket.        *)

KernelConnect ==
    /\ connectOp = "pending"
    /\ connectOp' \in {"done", "failed"}
    /\ UNCHANGED <<timer, strand, sockets, network, history>>

TimerFires ==
    /\ timerOp = "pending"
    /\ timerOp' = "done"
    /\ UNCHANGED <<startSign, connectOp, strand, sockets, network, history>>

\* doClose after an error of a read or a write.
Lost(s) ==
    /\ conn[s] \in {"open", "draining"}
    /\ conn' = [conn EXCEPT ![s] = "closed"]
    /\ strand' = Append(strand, Job("passive", s))
    /\ UNCHANGED <<timer, connectOp, socketPtr, closeAsked, network, history>>

\* close()'s handler: at once, or when the sends in progress are done.
CloseSock(s) ==
    /\ s \in closeAsked
    /\ closeAsked' = closeAsked \ {s}
    /\ \/ conn[s] = "open" /\ \E next \in {"draining", "closed"} : conn' = [conn EXCEPT ![s] = next]
       \/ conn[s] # "open" /\ UNCHANGED conn
    /\ UNCHANGED <<timer, connectOp, strand, socketPtr, network, history>>

Drained(s) ==
    /\ conn[s] = "draining"
    /\ conn' = [conn EXCEPT ![s] = "closed"]
    /\ UNCHANGED <<timer, connectOp, strand, socketPtr, closeAsked, network, history>>

-----------------------------------------------------------------------------
(* The logic's thread.                                                     *)

\* postCloseSocket of a connection it was told of (once at a time: a bound).
PostCloseSocket(s) ==
    /\ network = "running"
    /\ told[s] = "connect"
    /\ Job("active", s) \notin Jobs(strand)
    /\ strand' = Append(strand, Job("active", s))
    /\ UNCHANGED <<timer, connectOp, sockets, network, history>>

\* BoostNetwork::stop
NetworkStop ==
    /\ network = "running"
    /\ network' = "stopped"
    /\ strand' = Append(strand, Job("stop", NoSock))
    /\ UNCHANGED <<timer, connectOp, sockets, history>>

\* BoostNetwork::close up to join
NetworkClear ==
    /\ network = "stopped"
    /\ network' = "joining"
    /\ strand' = Append(strand, Job("clear", NoSock))
    /\ UNCHANGED <<timer, connectOp, sockets, history>>

\* The io_service has nothing left to do, now that the work object is gone.
Idle ==
    /\ connectOp = "none" /\ timerOp = "none" /\ strand = <<>> /\ closeAsked = {}
    /\ \A s \in Socks : conn[s] \notin {"open", "draining"}

JoinReturns ==
    /\ network = "joining"
    /\ Idle
    /\ network' = "ended"
    /\ UNCHANGED <<timer, connectOp, strand, sockets, history>>

-----------------------------------------------------------------------------
Completions ==
    \/ \E s \in Socks : ConnectDone(s)
    \/ ConnectFailed \/ ConnectAborted \/ TimerDone \/ TimerAborted
Strand == StopConnect \/ ClearConnect \/ \E s \in Socks : ActiveClose(s) \/ PassiveClose(s)

Next ==
    \/ Completions \/ Strand
    \/ KernelConnect \/ TimerFires
    \/ \E s \in Socks : Lost(s) \/ CloseSock(s) \/ Drained(s) \/ PostCloseSocket(s)
    \/ NetworkStop \/ NetworkClear \/ JoinReturns

\* The io threads run what is ready, a connect ends one way or the other, the
\* timer fires, a draining socket drains or breaks.
Fairness ==
    /\ WF_vars(Completions) /\ WF_vars(Strand)
    /\ WF_vars(KernelConnect) /\ WF_vars(TimerFires)
    /\ \A s \in Socks : WF_vars(CloseSock(s)) /\ WF_vars(Drained(s))
    /\ WF_vars(NetworkClear) /\ WF_vars(JoinReturns)

Spec == Init /\ [][Next]_vars
FairSpec == Spec /\ Fairness

-----------------------------------------------------------------------------
(* Properties.                                                             *)

\* m_newSocket and m_timer serve one attempt at a time (async_connect on a
\* socket that is connecting, or replacing a live m_socketPtr, would break it):
\* there is a connection, or a connect in progress, or a reconnect to come.
OneAttempt ==
    /\ socketPtr # NoSock => connectOp = "none" /\ timerOp \in {"none", "aborted"}
    /\ connectOp # "none" => timerOp \in {"none", "aborted"}
    /\ \A s \in Socks : conn[s] = "open" => s = socketPtr \/ s \in closeAsked

\* The logic hears of every connection that is lost without its doing, even
\* one that is lost while it is being closed down.
LossIsTold ==
    \A s \in Socks :
        conn[s] = "closed" /\ told[s] = "connect" /\ s \notin asked =>
            Job("passive", s) \in Jobs(strand)

ConnectorInv == TypeOK /\ OneAttempt /\ LossIsTold

\* connector.cpp:112 has reconnecting go on until stop(): without a connection
\* and with a reconnect time the Connector tries again.
Reconnects ==
    connectOp = "none" /\ socketPtr = NoSock ~>
        connectOp # "none" \/ network # "running"

\* network.cpp:26: letting go of the work object ends the run loop, so join
\* returns.
ShutdownEnds == network # "running" ~> network = "ended"

\* It does when clear leaves no connect behind that could still open a
\* connection, and no timer's completion that could start one.
ShutdownEndsUnlessLate ==
    (/\ network = "joining" /\ Job("clear", NoSock) \notin Jobs(strand)
     /\ socketPtr = NoSock /\ connectOp \notin {"pending", "done"} /\ timerOp # "done") ~>
        network = "ended"

-----------------------------------------------------------------------------
(* The inductive strengthening of the safety properties.                   *)

\* A loss is reported of a closed connection only, so its name is not used
\* again before the report was handled.  A connection the logic was told of and
\* we did not close is the one m_socketPtr holds; one that is being closed, or
\* drains, was let go of on our side.
ReportsInv ==
    \A s \in Socks :
        /\ Job("passive", s) \in Jobs(strand) => conn[s] = "closed"
        /\ told[s] = "connect" /\ s \notin asked => s = socketPtr
        /\ s \in closeAsked \/ conn[s] = "draining" => s \in asked

AttemptInv == ConnectorInv /\ ReportsInv
=============================================================================
