---------------------------- MODULE LeaderFollower ----------------------------
(***************************************************************************)
(* SchedulerLF (scheduler_leader_follower.cpp/.hpp) with the timers of     *)
(* ReactorTimer (reactor_timer.cpp): workers share one list of units; one  *)
(* of the units, reactorUnit, is a baton, and the worker that takes it     *)
(* waits in the reactor, fills m_taskList with what became ready and with  *)
(* the timers that are due, puts the baton behind them and gives all to    *)
(* the list.  m_taskList and the reactor have no lock: the baton is it.    *)
(*                                                                         *)
(* The list and its condition variable are those of module Scheduler: what *)
(* holds the list's mutex is one action, notify_one and notify_all are     *)
(* called without it.  What the reactor finds ready besides timers is a    *)
(* unit of Events (module Reactor looks inside).  Time is counted in units *)
(* of 1/Second seconds, the milliseconds of the timers.                    *)
(***************************************************************************)
EXTENDS Integers, Sequences, FiniteSets

CONSTANTS
    Workers,    \* the threads in run()
    Tasks,      \* the units given to post(), each once
    Events,     \* the units of descriptors that become ready, each once
    SecTimers,  \* calls of expiresFunc
    MsTimers,   \* calls of expiresFuncByMs
    Second,     \* units of time per second
    Delays,     \* the delays asked for, in units (whole seconds for SecTimers)
    MaxTime     \* bound: the time looked at

ASSUME TimeAssumption == Second \in Nat \ {0} /\ Delays \subseteq Nat /\ MaxTime \in Nat

ASSUME FiniteAssumption ==
    IsFiniteSet(Workers) /\ IsFiniteSet(SecTimers) /\ IsFiniteSet(MsTimers)

Baton  == "reactorUnit"
NULL   == "null"
Timers == SecTimers \cup MsTimers
Units  == Tasks \cup Events \cup Timers

ASSUME UnitAssumption ==
    /\ Baton \notin Units /\ NULL \notin Units
    /\ Tasks \cap Events = {} /\ SecTimers \cap MsTimers = {}
    /\ Timers \cap (Tasks \cup Events) = {}

VARIABLES
    reactorMode,  \* m_mode & SCHEDULE_LF_MODE_REACTOR
    start, work,  \* m_start, m_work
    workList,     \* m_workList
    taskList,     \* m_taskList
    pc, unit,     \* per worker: where it is, the unit it completes or NULL
    notices,      \* calls of post() and start() that are still to call notify_one()
    startCall,    \* start() and stop(): "none", what was done last, or "done"
    stopCall,
    clock,        \* the time
    due,          \* s_secUnitMap, s_msUnitMap: when an armed timer is due
    armedAt,      \* history: when expiresFunc was called
    cancelled,    \* m_cancelSign
    posted, taken, ran   \* history: units handed over, how often taken, run

worker  == <<pc, unit>>
control == <<reactorMode, start, work, startCall, stopCall>>
timing  == <<clock, due, armedAt, cancelled>>
history == <<posted, taken, ran>>
vars    == <<control, workList, taskList, worker, notices, timing, history>>

StartPlaces == {"startTest", "startSleep", "startWaiting"}
Places == StartPlaces \cup
          {"get", "complete", "func", "reactorWait", "reactorPush", "reactorNotify",
           "empty", "wait", "waiting", "loop", "exited"}
Started(w) == pc[w] \notin StartPlaces
Elements(s) == {s[i] : i \in 1 .. Len(s)}
Now == clock \div Second

TypeOK ==
    /\ {reactorMode, start, work, cancelled} \subseteq BOOLEAN
    /\ workList \in Seq(Units \cup {Baton})
    /\ taskList \in Seq(Units)
    /\ pc \in [Workers -> Places]
    /\ unit \in [Workers -> Units \cup {NULL}]
    /\ notices \in Nat
    /\ startCall \in {"none", "set", "notified", "done"}
    /\ stopCall \in {"none", "set", "done"}
    /\ clock \in Nat
    /\ due \in [Timers -> Nat \cup {-1}]
    /\ armedAt \in [Timers -> Nat \cup {-1}]
    /\ posted \subseteq Units /\ taken \in [Units -> Nat] /\ ran \subseteq Units

\* init() was called in reactor mode; DBManager uses the scheduler without it
\* and m_work has no value.  m_start has none in either case.
Init ==
    /\ reactorMode \in BOOLEAN
    /\ start \in BOOLEAN
    /\ work \in IF reactorMode THEN {TRUE} ELSE BOOLEAN
    /\ workList = <<>>
    /\ taskList = <<>>
    /\ pc = [w \in Workers |-> "startTest"]
    /\ unit = [w \in Workers |-> NULL]
    /\ notices = 0
    /\ startCall = "none"
    /\ stopCall = "none"
    /\ clock \in 0 .. Second - 1
    /\ due = [t \in Timers |-> -1]
    /\ armedAt = [t \in Timers |-> -1]
    /\ cancelled = FALSE
    /\ posted = {}
    /\ taken = [u \in Units |-> 0]
    /\ ran = {}

Goto(w, place) == pc' = [pc EXCEPT ![w] = place]

-----------------------------------------------------------------------------
(* Calls of other threads, or of a unit that is being completed.           *)

StartSet ==
    /\ startCall = "none"
    /\ startCall' = "set"
    /\ start' = TRUE
    /\ UNCHANGED <<reactorMode, work, stopCall, workList, taskList, worker, notices,
                   timing, history>>

StartNotify ==
    /\ startCall = "set"
    /\ startCall' = IF reactorMode THEN "notified" ELSE "done"
    /\ pc' = [w \in Workers |-> IF pc[w] = "startWaiting" THEN "startTest" ELSE pc[w]]
    /\ UNCHANGED <<reactorMode, start, work, stopCall, workList, taskList, unit, notices,
                   timing, history>>

\* The end of start(): the baton enters the list.
StartPush ==
    /\ startCall = "notified"
    /\ startCall' = "done"
    /\ workList' = Append(workList, Baton)
    /\ notices' = notices + 1
    /\ UNCHANGED <<reactorMode, start, work, stopCall, taskList, worker, timing, history>>

StopSet ==
    /\ stopCall = "none"
    /\ stopCall' = "set"
    /\ work' = FALSE
    /\ UNCHANGED <<reactorMode, start, startCall, workList, taskList, worker, notices,
                   timing, history>>

StopNotify ==
    /\ stopCall = "set"
    /\ stopCall' = "done"
    /\ pc' = [w \in Workers |-> IF pc[w] = "waiting" THEN "wait" ELSE pc[w]]
    /\ UNCHANGED <<reactorMode, start, work, startCall, workList, taskList, unit, notices,
                   timing, history>>

\* post(): pushWithNotify up to the end of the lock's scope.
Post(task) ==
    /\ task \notin posted
    /\ posted' = posted \cup {task}
    /\ workList' = Append(workList, task)
    /\ notices' = notices + 1
    /\ UNCHANGED <<control, taskList, worker, timing, taken, ran>>

\* notify_one() wakes one sleeper, if there is one.
Notify ==
    /\ notices > 0
    /\ notices' = notices - 1
    /\ \/ \E w \in Workers : pc[w] = "waiting" /\ Goto(w, "wait")
       \/ (\A w \in Workers : pc[w] # "waiting") /\ UNCHANGED pc
    /\ UNCHANGED <<control, workList, taskList, unit, timing, history>>

\* Faulty: the second of the call is not counted.
ExpiresFuncShort(t, delay) ==
    /\ armedAt[t] = -1
    /\ delay \in Delays
    /\ delay % Second = 0 /\ Now * Second + delay <= MaxTime
    /\ due' = [due EXCEPT ![t] = delay]
    /\ armedAt' = [armedAt EXCEPT ![t] = clock]
    /\ UNCHANGED <<control, workList, taskList, worker, notices, clock, cancelled, history>>

\* expiresFunc: the key in s_secUnitMap is a whole second.
ExpiresFunc(t, delay) ==
    /\ armedAt[t] = -1
    /\ delay \in Delays
    /\ delay % Second = 0 /\ Now * Second + delay <= MaxTime
    /\ due' = [due EXCEPT ![t] = Now * Second + delay]
    /\ armedAt' = [armedAt EXCEPT ![t] = clock]
    /\ UNCHANGED <<control, workList, taskList, worker, notices, clock, cancelled, history>>

ExpiresFuncByMs(t, delay) ==
    /\ armedAt[t] = -1
    /\ delay \in Delays
    /\ clock + delay <= MaxTime
    /\ due' = [due EXCEPT ![t] = clock + delay]
    /\ armedAt' = [armedAt EXCEPT ![t] = clock]
    /\ UNCHANGED <<control, workList, taskList, worker, notices, clock, cancelled, history>>

CancelFunc ==
    /\ ~cancelled
    /\ cancelled' = TRUE
    /\ UNCHANGED <<control, workList, taskList, worker, notices, clock, due, armedAt, history>>

Tick ==
    /\ clock < MaxTime
    /\ clock' = clock + 1
    /\ UNCHANGED <<control, workList, taskList, worker, notices, due, armedAt, cancelled,
                   history>>

-----------------------------------------------------------------------------
(* A worker.                                                               *)

StartTest(w) ==
    /\ pc[w] = "startTest"
    /\ Goto(w, IF start THEN "get" ELSE "startSleep")
    /\ UNCHANGED <<control, workList, taskList, unit, notices, timing, history>>

StartSleep(w) ==
    /\ pc[w] = "startSleep"
    /\ Goto(w, "startWaiting")
    /\ UNCHANGED <<control, workList, taskList, unit, notices, timing, history>>

GetTast(w) ==
    /\ pc[w] = "get"
    /\ workList' = IF workList = <<>> THEN <<>> ELSE Tail(workList)
    /\ IF workList = <<>>
       THEN Goto(w, "empty") /\ UNCHANGED <<unit, taken>>
       ELSE IF Head(workList) = Baton
       THEN Goto(w, "reactorWait") /\ UNCHANGED <<unit, taken>>
       ELSE /\ Goto(w, "complete")
            /\ unit' = [unit EXCEPT ![w] = Head(workList)]
            /\ taken' = [taken EXCEPT ![Head(workList)] = @ + 1]
    /\ UNCHANGED <<control, taskList, notices, timing, posted, ran>>

\* complete(): a timer's function is called after the test of m_cancelSign.
Complete(w) ==
    /\ pc[w] = "complete"
    /\ IF unit[w] \in Timers /\ ~cancelled
       THEN Goto(w, "func") /\ UNCHANGED <<unit, ran>>
       ELSE /\ Goto(w, "loop")
            /\ unit' = [unit EXCEPT ![w] = NULL]
            /\ ran' = IF unit[w] \in Timers THEN ran ELSE ran \cup {unit[w]}
    /\ UNCHANGED <<control, workList, taskList, notices, timing, posted, taken>>

\* A timer's function.
RunFunc(w) ==
    /\ pc[w] = "func"
    /\ ran' = ran \cup {unit[w]}
    /\ unit' = [unit EXCEPT ![w] = NULL]
    /\ Goto(w, "loop")
    /\ UNCHANGED <<control, workList, taskList, notices, timing, posted, taken>>

\* getTimerTask takes the timers that are due, in the order of their times,
\* those in seconds first.
DueOf(timers) == {t \in timers : due[t] # -1 /\ due[t] <= clock}
DueInOrder(timers) ==
    {s \in [1 .. Cardinality(DueOf(timers)) -> DueOf(timers)] :
        \A i, j \in DOMAIN s : i < j => s[i] # s[j] /\ due[s[i]] <= due[s[j]]}

\* Faulty: the timers stay in their maps.
ReactorWaitKeeps(w) ==
    /\ pc[w] = "reactorWait"
    /\ \E events \in {<<>>} \cup {<<e>> : e \in Events \ posted},
          secs \in DueInOrder(SecTimers), mss \in DueInOrder(MsTimers) :
            /\ taskList' = taskList \o events \o secs \o mss
            /\ posted' = posted \cup Elements(events) \cup Elements(secs) \cup Elements(mss)
            /\ UNCHANGED due
    /\ Goto(w, "reactorPush")
    /\ UNCHANGED <<control, workList, unit, notices, clock, armedAt, cancelled, taken, ran>>

\* reactorWait: what is ready, then the timers that are due, joins m_taskList.
ReactorWait(w) ==
    /\ pc[w] = "reactorWait"
    /\ \E events \in {<<>>} \cup {<<e>> : e \in Events \ posted},
          secs \in DueInOrder(SecTimers), mss \in DueInOrder(MsTimers) :
            /\ taskList' = taskList \o events \o secs \o mss
            /\ posted' = posted \cup Elements(events) \cup Elements(secs) \cup Elements(mss)
            /\ due' = [t \in Timers |-> IF t \in DueOf(Timers) THEN -1 ELSE due[t]]
    /\ Goto(w, "reactorPush")
    /\ UNCHANGED <<control, workList, unit, notices, clock, armedAt, cancelled, taken, ran>>

\* Faulty: the baton is left behind when nothing was ready.
ReactorPushIfAny(w) ==
    /\ pc[w] = "reactorPush"
    /\ workList' = IF taskList = <<>> THEN workList ELSE workList \o Append(taskList, Baton)
    /\ taskList' = <<>>
    /\ Goto(w, "reactorNotify")
    /\ UNCHANGED <<control, unit, notices, timing, history>>

\* Faulty: m_taskList is given but not emptied.
ReactorPushCopies(w) ==
    /\ pc[w] = "reactorPush"
    /\ workList' = workList \o Append(taskList, Baton)
    /\ Goto(w, "reactorNotify")
    /\ UNCHANGED <<control, taskList, unit, notices, timing, history>>

\* The rest of reactorFunc: m_taskList and the baton enter the list.
ReactorPush(w) ==
    /\ pc[w] = "reactorPush"
    /\ workList' = workList \o Append(taskList, Baton)
    /\ taskList' = <<>>
    /\ Goto(w, "reactorNotify")
    /\ UNCHANGED <<control, unit, notices, timing, history>>

\* One notify_one() for all of them.
ReactorNotify(w) ==
    /\ pc[w] = "reactorNotify"
    /\ \/ \E v \in Workers : pc[v] = "waiting" /\ pc' = [pc EXCEPT ![v] = "wait", ![w] = "loop"]
       \/ (\A v \in Workers : pc[v] # "waiting") /\ Goto(w, "loop")
    /\ UNCHANGED <<control, workList, taskList, unit, notices, timing, history>>

Empty(w) ==
    /\ pc[w] = "empty"
    /\ Goto(w, IF work THEN "wait" ELSE "loop")
    /\ UNCHANGED <<control, workList, taskList, unit, notices, timing, history>>

\* Faulty: a wait without its predicate.
WaitBlindly(w) ==
    /\ pc[w] = "wait"
    /\ Goto(w, "waiting")
    /\ UNCHANGED <<control, workList, taskList, unit, notices, timing, history>>

\* wait(): its predicate is only that the list is not empty.
Wait(w) ==
    /\ pc[w] = "wait"
    /\ Goto(w, IF workList = <<>> THEN "waiting" ELSE "loop")
    /\ UNCHANGED <<control, workList, taskList, unit, notices, timing, history>>

\* The condition of run()'s loop.
Loop(w) ==
    /\ pc[w] = "loop"
    /\ Goto(w, IF work THEN "get" ELSE "exited")
    /\ UNCHANGED <<control, workList, taskList, unit, notices, timing, history>>

Work(w) ==
    \/ StartTest(w) \/ StartSleep(w) \/ GetTast(w) \/ Complete(w) \/ RunFunc(w)
    \/ ReactorWait(w) \/ ReactorPush(w) \/ ReactorNotify(w) \/ Empty(w) \/ Wait(w) \/ Loop(w)

\* A condition variable may wake its waiters for no reason.
SpuriousWakeup(w) ==
    /\ \/ pc[w] = "waiting" /\ Goto(w, "wait")
       \/ pc[w] = "startWaiting" /\ Goto(w, "startTest")
    /\ UNCHANGED <<control, workList, taskList, unit, notices, timing, history>>

Next ==
    \/ StartSet \/ StartNotify \/ StartPush \/ StopSet \/ StopNotify
    \/ \E task \in Tasks : Post(task)
    \/ Notify
    \/ \E delay \in Delays :
          \/ \E t \in SecTimers : ExpiresFunc(t, delay)
          \/ \E t \in MsTimers : ExpiresFuncByMs(t, delay)
    \/ CancelFunc
    \/ Tick
    \/ \E w \in Workers : Work(w) \/ SpuriousWakeup(w)

\* Every thread runs, and time goes on; epoll_wait returns after 50 ms.
Fairness ==
    /\ \A w \in Workers : WF_vars(Work(w))
    /\ WF_vars(StartNotify) /\ WF_vars(StartPush) /\ WF_vars(StopNotify)
    /\ WF_vars(Notify) /\ WF_vars(Tick)

Spec == Init /\ [][Next]_vars /\ Fairness

-----------------------------------------------------------------------------
(* Properties.                                                             *)

Leaders == {w \in Workers : pc[w] \in {"reactorWait", "reactorPush"}}
BatonsIn(list) == {i \in 1 .. Len(list) : list[i] = Baton}

\* The baton is one: it is in the list or with the worker in the reactor,
\* from the end of start() on, so no two threads are in the reactor, and only
\* the one that is has something in m_taskList, which no lock protects.
OneLeader ==
    /\ Cardinality(BatonsIn(workList)) + Cardinality(Leaders)
           = IF startCall = "done" /\ reactorMode THEN 1 ELSE 0
    /\ taskList # <<>> => \E w \in Leaders : pc[w] = "reactorPush"

\* A unit handed over, by post(), by a descriptor or by a timer, is in exactly
\* one place, once: m_taskList, the list, or taken by one worker.
HandedOverOnce ==
    /\ \A u \in Units :
           Cardinality({i \in 1 .. Len(workList) : workList[i] = u})
               + Cardinality({i \in 1 .. Len(taskList) : taskList[i] = u}) + taken[u]
           = IF u \in posted THEN 1 ELSE 0
    /\ \A t \in posted \cap Timers : due[t] = -1

\* When a timer armed at armedAt[t] may be handed over: a delay asked for has
\* passed, of which in seconds the one of the call may have begun before it.
LateEnough(t, time) ==
    \E delay \in Delays :
        time >= armedAt[t] + delay - (IF t \in SecTimers THEN Second - 1 ELSE 0)

\* A timer's function runs no earlier than asked for: in milliseconds exactly,
\* in seconds up to one second less, as the second of the call has begun.
NotEarly ==
    \A t \in Timers, w \in Workers : unit[w] = t => LateEnough(t, clock)

\* No notification is lost.  While a unit or the baton is in the list and the
\* scheduler works, a worker is awake, or one is about to be woken, although
\* notify_one is called outside the lock, and once for all that the reactor
\* brought.
NoLostSignal ==
    workList # <<>> /\ work /\ (\E w \in Workers : Started(w)) =>
        \/ notices > 0
        \/ \E w \in Workers : Started(w) /\ pc[w] \notin {"waiting", "exited"}

LeaderInv == TypeOK /\ OneLeader /\ HandedOverOnce /\ NotEarly /\ NoLostSignal

\* What the scheduler owes: the units handed over, and with a reactor that is
\* started the timers that are armed; not the timers that were cancelled.
Owed ==
    {u \in Units :
        /\ \/ u \in posted
           \/ u \in Timers /\ armedAt[u] # -1 /\ reactorMode /\ startCall = "done"
        /\ (u \in Timers => ~cancelled)}

\* Once a worker has started, all that is owed is run again and again, unless
\* the scheduler is stopped: no unit waits for ever behind a lost baton or a
\* lost notification (there are finitely many units, each handed over once).
EveryUnitRuns == (\E w \in Workers : Started(w)) ~> (~work \/ Owed \subseteq ran)


-----------------------------------------------------------------------------
(* The inductive strengthening of the safety properties.                   *)

\* What a worker completes was handed over.
UnitInv ==
    \A w \in Workers :
        /\ pc[w] \in {"complete", "func"} => unit[w] # NULL
        /\ unit[w] # NULL => unit[w] \in posted

\* A timer is armed for late enough, and handed over when it is.
TimerInv ==
    \A t \in Timers :
        /\ due[t] # -1 \/ t \in posted => armedAt[t] # -1
        /\ due[t] # -1 => LateEnough(t, due[t])
        /\ t \in posted => LateEnough(t, clock)

\* While the scheduler works no worker leaves it.
NobodyLeft == work => \A w \in Workers : pc[w] # "exited"

SchedulerInv ==
    LeaderInv /\ UnitInv /\ TimerInv /\ NobodyLeft /\ (startCall = "notified" => reactorMode)
=============================================================================
