------------------------------- MODULE Reactor -------------------------------
(***************************************************************************)
(* One descriptor of the epoll reactor: ReactorEpoll (reactor_epoll.cpp),  *)
(* its ReactorEpollMountData (reactor_epoll_mount_data.cpp) and the        *)
(* asynchronous read and write of StreamSocket (stream_socket.hpp), run by *)
(* the threads of SchedulerLF (module LeaderFollower).                     *)
(*                                                                         *)
(* An operation posts its unit at once when the descriptor's trigger says  *)
(* that it is ready; else it registers with epoll and leaves its unit to   *)
(* the reactor.  The trigger is erased when an operation got EAGAIN and    *)
(* set by the reactor.  What holds the mutex of the mount data is one      *)
(* action; startEvent takes it twice, and m_curEvent has no lock.          *)
(*                                                                         *)
(* "in" is the read (asyncReadData; asyncAccept does the same), "out" the  *)
(* write.  A handler that has run may call its operation again.  Epoll is  *)
(* external: edge triggered, an entry enters the ready list at each event  *)
(* of the socket and when it is added or modified, and is reported with    *)
(* all that is true of it then.                                            *)
(***************************************************************************)
EXTENDS Naturals, FiniteSets

CONSTANT ThreadCounts   \* numbers of threads looked at

ASSUME ThreadAssumption == ThreadCounts \subseteq Nat \ {0}

Ops == {"in", "out"}

VARIABLES
    threads,                \* the threads of the scheduler
    level, gone,            \* the kernel: what the socket could do; the peer has gone
    registered, interest,   \* epoll's entry for the descriptor
    ready,                  \* is it in epoll's ready list?
    curEvent,               \* m_curEvent, as the subset of Ops
    mounted,                \* is the mount data in m_mountMap?
    trigger,                \* m_tiggerEventMap: the events that are true
    unitMap,                \* m_unitMap
    cancelFlag,             \* m_cancelFlag
    cancelCall,             \* cancelUnits(): "none", "del" (still to call delEvent), "done"
    reactor, mask,          \* the thread in reactorWait(), and the event it handles
    pc, ev                  \* per operation: where it is, its local ev.events

kernel  == <<level, gone>>
entry   == <<registered, interest, ready>>
mount   == <<curEvent, mounted, trigger, unitMap, cancelFlag>>
thread  == <<cancelCall, reactor, mask, pc, ev>>
vars    == <<threads, kernel, entry, mount, thread>>

Running == {"start", "ctl", "mount", "store", "add", "io"}
Places  == Running \cup {"idle", "wait", "posted", "dropped"}

TypeOK ==
    /\ threads \in ThreadCounts
    /\ {level, interest, curEvent, trigger, unitMap} \subseteq SUBSET Ops
    /\ {gone, registered, ready, mounted, cancelFlag} \subseteq BOOLEAN
    /\ cancelCall \in {"none", "del", "done"}
    /\ reactor \in {"out", "run"}
    /\ mask \in SUBSET (Ops \cup {"error"})
    /\ pc \in [Ops -> Places]
    /\ ev \in [Ops -> SUBSET Ops]

\* A connected socket without data; it can be written to.
Init ==
    /\ threads \in ThreadCounts
    /\ level = {"out"}
    /\ gone = FALSE
    /\ registered = FALSE
    /\ interest = {}
    /\ ready = FALSE
    /\ curEvent = {}
    /\ mounted = FALSE
    /\ trigger = {"out"}
    /\ unitMap = {}
    /\ cancelFlag = FALSE
    /\ cancelCall = "none"
    /\ reactor = "out"
    /\ mask = {}
    /\ pc = [op \in Ops |-> "idle"]
    /\ ev = [op \in Ops |-> {}]

Goto(op, place) == pc' = [pc EXCEPT ![op] = place]

\* A thread for one more of: an operation, the reactor, a cancel.
ThreadFree ==
    Cardinality({op \in Ops : pc[op] \in Running})
        + (IF reactor = "run" THEN 1 ELSE 0) + (IF cancelCall = "del" THEN 1 ELSE 0) < threads

Can(op)  == op \in level \/ gone
Now      == {op \in Ops : Can(op)} \cup (IF gone THEN {"error"} ELSE {})
Reported == Now \cap (interest \cup {"error"})

-----------------------------------------------------------------------------
(* The kernel.                                                             *)

\* Data arrives, or space in the send buffer is free again.
SocketEvent(op) ==
    /\ op = "out" => op \notin level
    /\ level' = level \cup {op}
    /\ ready' = registered
    /\ UNCHANGED <<threads, gone, registered, interest, mount, thread>>

PeerGone ==
    /\ ~gone
    /\ gone' = TRUE
    /\ ready' = registered
    /\ UNCHANGED <<threads, level, registered, interest, mount, thread>>

-----------------------------------------------------------------------------
(* An operation.                                                           *)

\* asyncReadData, asyncWriteData: from the logic, or from a handler.
Call(op) ==
    /\ pc[op] = "idle"
    /\ ~cancelFlag
    /\ ThreadFree
    /\ Goto(op, "start")
    /\ UNCHANGED <<threads, kernel, entry, mount, cancelCall, reactor, mask, ev>>

\* startEvent: getTiggerEvent, then the test of m_curEvent.
TestTrigger(op) ==
    /\ pc[op] = "start"
    /\ Goto(op, IF op \in trigger THEN "posted"
                ELSE IF op \in curEvent THEN "add" ELSE "ctl")
    /\ UNCHANGED <<threads, kernel, entry, mount, cancelCall, reactor, mask, ev>>

\* Faulty: a descriptor that is registered keeps its old events.
CtlKeeps(op) ==
    /\ pc[op] = "ctl"
    /\ ev' = [ev EXCEPT ![op] = curEvent \cup {op}]
    /\ IF curEvent = {}
       THEN /\ registered' = TRUE
            /\ interest' = IF registered THEN interest ELSE {op}
            /\ ready' = (ready \/ (~registered /\ Can(op)))
            /\ Goto(op, "mount")
       ELSE UNCHANGED entry /\ Goto(op, "store")
    /\ UNCHANGED <<threads, kernel, mount, cancelCall, reactor, mask>>

\* epoll_ctl, whose errors are ignored: EPOLL_CTL_ADD fails for a descriptor
\* that is registered, EPOLL_CTL_MOD for one that is not.
Ctl(op) ==
    /\ pc[op] = "ctl"
    /\ ev' = [ev EXCEPT ![op] = curEvent \cup {op}]
    /\ IF curEvent = {}
       THEN /\ registered' = TRUE
            /\ interest' = IF registered THEN interest ELSE {op}
            /\ ready' = (ready \/ (~registered /\ Can(op)))
            /\ Goto(op, "mount")
       ELSE /\ interest' = IF registered THEN ev'[op] ELSE interest
            /\ ready' = (ready \/ (registered /\ \E e \in ev'[op] : Can(e)))
            /\ UNCHANGED registered
            /\ Goto(op, "store")
    /\ UNCHANGED <<threads, kernel, mount, cancelCall, reactor, mask>>

AddMount(op) ==
    /\ pc[op] = "mount"
    /\ mounted' = TRUE
    /\ Goto(op, "store")
    /\ UNCHANGED <<threads, kernel, entry, curEvent, trigger, unitMap, cancelFlag,
                   cancelCall, reactor, mask, ev>>

StoreEvent(op) ==
    /\ pc[op] = "store"
    /\ curEvent' = ev[op]
    /\ Goto(op, "add")
    /\ UNCHANGED <<threads, kernel, entry, mounted, trigger, unitMap, cancelFlag,
                   cancelCall, reactor, mask, ev>>

\* Faulty: the flag is not looked at.
AddUnitAlways(op) ==
    /\ pc[op] = "add"
    /\ unitMap' = unitMap \cup {op}
    /\ Goto(op, "wait")
    /\ UNCHANGED <<threads, kernel, entry, curEvent, mounted, trigger, cancelFlag,
                   cancelCall, reactor, mask, ev>>

\* addUnit: after a cancel the unit is dropped.
AddUnit(op) ==
    /\ pc[op] = "add"
    /\ IF cancelFlag
       THEN UNCHANGED unitMap /\ Goto(op, "dropped")
       ELSE unitMap' = unitMap \cup {op} /\ Goto(op, "wait")
    /\ UNCHANGED <<threads, kernel, entry, curEvent, mounted, trigger, cancelFlag,
                   cancelCall, reactor, mask, ev>>

\* A thread takes the unit from the scheduler's list.
TakePosted(op) ==
    /\ pc[op] = "posted"
    /\ ThreadFree
    /\ Goto(op, "io")
    /\ UNCHANGED <<threads, kernel, entry, mount, cancelCall, reactor, mask, ev>>

\* runIOFunc after a cancel: the handler is called although nothing was done.
RunCancelled(op) ==
    /\ pc[op] = "io"
    /\ cancelFlag
    /\ Goto(op, "idle")
    /\ UNCHANGED <<threads, kernel, entry, mount, cancelCall, reactor, mask, ev>>

\* recv or send takes some or all of what there is; then the handler is called.
RunIO(op) ==
    /\ pc[op] = "io"
    /\ ~cancelFlag
    /\ Can(op)
    /\ level' \in {level, level \ {op}}
    /\ Goto(op, "idle")
    /\ UNCHANGED <<threads, gone, entry, mount, cancelCall, reactor, mask, ev>>

\* EAGAIN: the trigger is erased and the operation starts again.
RunAgain(op) ==
    /\ pc[op] = "io"
    /\ ~cancelFlag
    /\ ~Can(op)
    /\ trigger' = trigger \ {op}
    /\ Goto(op, "start")
    /\ UNCHANGED <<threads, kernel, entry, curEvent, mounted, unitMap, cancelFlag,
                   cancelCall, reactor, mask, ev>>

-----------------------------------------------------------------------------
(* The reactor.                                                            *)

\* epoll_wait.
EpollWait ==
    /\ reactor = "out"
    /\ registered /\ ready
    /\ ThreadFree
    /\ ready' = FALSE
    /\ IF Reported = {}
       THEN UNCHANGED <<reactor, mask>>
       ELSE reactor' = "run" /\ mask' = Reported
    /\ UNCHANGED <<threads, kernel, registered, interest, mount, cancelCall, pc, ev>>

Activated(ops) == {op \in ops : op \in mask \/ "error" \in mask}

\* Faulty: only the trigger is set; the units wait on.
RunEventOpTriggerOnly ==
    /\ reactor = "run"
    /\ reactor' = "out"
    /\ mask' = {}
    /\ IF mounted /\ ~cancelFlag
       THEN /\ trigger' = IF mask \cap {"in", "error"} # {} THEN trigger \cup {"in"}
                          ELSE trigger \cup {"out"}
            /\ UNCHANGED unitMap
            /\ UNCHANGED pc
       ELSE UNCHANGED <<trigger, unitMap, pc>>
    /\ UNCHANGED <<threads, kernel, entry, curEvent, mounted, cancelFlag, cancelCall, ev>>

\* getMount and runEventOp: the trigger of one event is set, and the units of
\* all events that happened go to the scheduler.
RunEventOp ==
    /\ reactor = "run"
    /\ reactor' = "out"
    /\ mask' = {}
    /\ IF mounted /\ ~cancelFlag
       THEN /\ trigger' = IF mask \cap {"in", "error"} # {} THEN trigger \cup {"in"}
                          ELSE trigger \cup {"out"}
            /\ unitMap' = unitMap \ Activated(unitMap)
            /\ pc' = [op \in Ops |-> IF op \in Activated(unitMap) THEN "posted" ELSE pc[op]]
       ELSE UNCHANGED <<trigger, unitMap, pc>>
    /\ UNCHANGED <<threads, kernel, entry, curEvent, mounted, cancelFlag, cancelCall, ev>>

-----------------------------------------------------------------------------
(* Closing.                                                                *)

\* cancelUnits, up to the end of the lock's scope.
CancelUnits ==
    /\ cancelCall = "none"
    /\ ThreadFree
    /\ cancelCall' = "del"
    /\ cancelFlag' = TRUE
    /\ trigger' = {}
    /\ unitMap' = {}
    /\ pc' = [op \in Ops |-> IF op \in unitMap THEN "dropped" ELSE pc[op]]
    /\ UNCHANGED <<threads, kernel, entry, curEvent, mounted, reactor, mask, ev>>

\* delEvent: the mount data goes only when the descriptor was registered.
DelEvent ==
    /\ cancelCall = "del"
    /\ cancelCall' = "done"
    /\ registered' = FALSE
    /\ interest' = {}
    /\ ready' = FALSE
    /\ mounted' = IF registered THEN FALSE ELSE mounted
    /\ UNCHANGED <<threads, kernel, curEvent, trigger, unitMap, cancelFlag, reactor, mask,
                   pc, ev>>

-----------------------------------------------------------------------------
Step(op) ==
    \/ TestTrigger(op) \/ Ctl(op) \/ AddMount(op) \/ StoreEvent(op) \/ AddUnit(op)
    \/ RunCancelled(op) \/ RunIO(op) \/ RunAgain(op)

Next ==
    \/ \E op \in Ops : SocketEvent(op) \/ Call(op) \/ TakePosted(op) \/ Step(op)
    \/ PeerGone
    \/ EpollWait \/ RunEventOp
    \/ CancelUnits \/ DelEvent

\* Threads run on.  The scheduler's list is first in, first out, and the
\* reactor is a unit of it: a unit and the reactor both get a thread in turn,
\* whatever else wants one.
Fairness ==
    /\ \A op \in Ops : WF_vars(Step(op)) /\ SF_vars(TakePosted(op))
    /\ SF_vars(EpollWait) /\ WF_vars(RunEventOp) /\ WF_vars(DelEvent)

Spec == Init /\ [][Next]_vars /\ Fairness

-----------------------------------------------------------------------------
(* Properties.                                                             *)

\* What waits for the reactor waits in m_unitMap, and after a cancel nothing
\* waits and nothing is triggered, whatever startEvent, which tests the
\* trigger and adds the unit under two locks, was about to do.
CancelledIsQuiet ==
    /\ unitMap = {op \in Ops : pc[op] = "wait"}
    /\ cancelFlag => unitMap = {} /\ trigger = {}

\* With one thread: an operation, the reactor and a cancel take turns ...
Turns ==
    /\ pc["in"] \in Running => pc["out"] \notin Running
    /\ \A op \in Ops : pc[op] \in Running => reactor = "out" /\ cancelCall # "del"
    /\ reactor = "run" => cancelCall # "del"
    /\ cancelFlag <=> cancelCall # "none"
    /\ \A op \in Ops : cancelFlag => pc[op] \in {"idle", "posted", "io", "dropped"}

\* ... so that m_curEvent is what epoll knows, but in the midst of startEvent ...
EventsKnown ==
    ~cancelFlag =>
        /\ \A op \in Ops :
              /\ pc[op] = "mount" => curEvent = {} /\ ev[op] = {op}
              /\ pc[op] = "store" => mounted /\ ev[op] = curEvent \cup {op}
              /\ pc[op] \in {"mount", "store"} => registered /\ interest = ev[op]
              /\ pc[op] = "ctl" => op \notin curEvent
              /\ pc[op] \in {"add", "wait"} => op \in curEvent
        /\ (\A op \in Ops : pc[op] \notin {"mount", "store"}) =>
              /\ curEvent = {} => ~registered
              /\ curEvent # {} => registered /\ mounted /\ interest = curEvent

Served == (registered /\ ready /\ "in" \in interest) \/ (reactor = "run" /\ mask \cap {"in", "error"} # {})

\* ... and what the trigger does not say, epoll or the reactor will.
EdgeKept ==
    /\ pc["in"] \in {"ctl", "mount", "store", "add", "wait"} => "in" \notin trigger
    /\ ~cancelFlag /\ "in" \notin trigger /\ Can("in")
          /\ ("in" \in curEvent \/ pc["in"] \in {"mount", "store"}) => Served

ReactorInv ==
    /\ TypeOK
    /\ CancelledIsQuiet
    /\ threads = 1 => Turns /\ EventsKnown /\ EdgeKept

\* With one thread no edge is lost to a read: while it waits and there is data
\* (or the peer has gone), epoll still has the event, or the reactor has it.
NoReadLost ==
    threads = 1 /\ pc["in"] = "wait" /\ Can("in") =>
        \/ registered /\ ready /\ "in" \in interest /\ mounted
        \/ reactor = "run" /\ mask \cap {"in", "error"} # {}

\* With one thread a read that has data, or whose peer has gone, is done or
\* cancelled.
ReadsComplete ==
    (threads = 1 /\ pc["in"] # "idle" /\ Can("in")) ~> (pc["in"] = "idle" \/ cancelFlag)

\* reactor_epoll_mount_data.cpp:78-80: erasing the trigger and setting it from
\* the reactor work together.  With one thread a write for which there is space
\* is done or cancelled.
WritesComplete ==
    (threads = 1 /\ pc["out"] # "idle" /\ Can("out")) ~> (pc["out"] = "idle" \/ cancelFlag)
=============================================================================
