----------------------------- MODULE Scheduler ------------------------------
(***************************************************************************)
(* Scheduler (scheduler.cpp/.hpp), consumer mode, with its task list       *)
(* (scheduler_list.cpp/.hpp): threads that wait for the start, take tasks  *)
(* from one list and sleep on a condition variable while it is empty.      *)
(*                                                                         *)
(* The list's mutex covers the test of wait()'s predicate and going to     *)
(* sleep, so these are one action; notify_one() and notify_all() are       *)
(* called without it, so they are actions of their own.  start() sets      *)
(* m_start without m_startMutex: the test in startWait() and going to      *)
(* sleep are two actions there.                                            *)
(***************************************************************************)
EXTENDS Naturals, Sequences

CONSTANTS
    Workers,   \* the threads in workThreadFunc()
    Tasks      \* the units given to post(), each once

VARIABLES
    start,      \* m_start
    workStart,  \* m_workStart
    taskList,   \* m_taskList
    pc,         \* pc[w]: where worker w is
    unit,       \* unit[w]: the unit w completes, or NULL
    notices,    \* calls of post() between the push and notify_one()
    startCall,  \* start() and stop(): "none", "set" (the notification is
    stopCall,   \*   still to come) or "done"
    pushed,     \* history: the tasks posted, in order
    taken,      \* history: the tasks taken, in order
    completed   \* history: the tasks completed

worker  == <<pc, unit>>
control == <<start, workStart, startCall, stopCall>>
history == <<pushed, taken, completed>>
vars    == <<control, taskList, worker, notices, history>>

NULL == "null"

ASSUME UnitAssumption == NULL \notin Tasks

StartPlaces == {"startTest", "startSleep", "startWaiting"}
Places == StartPlaces \cup {"get", "complete", "empty", "wait", "waiting", "loop", "exited"}

Started(w) == pc[w] \notin StartPlaces
Elements(s) == {s[i] : i \in 1 .. Len(s)}

TypeOK ==
    /\ start \in BOOLEAN
    /\ workStart \in BOOLEAN
    /\ taskList \in Seq(Tasks)
    /\ pc \in [Workers -> Places]
    /\ unit \in [Workers -> Tasks \cup {NULL}]
    /\ notices \in Nat
    /\ startCall \in {"none", "set", "done"}
    /\ stopCall \in {"none", "set", "done"}
    /\ pushed \in Seq(Tasks)
    /\ taken \in Seq(Tasks)
    /\ completed \subseteq Tasks

Init ==
    /\ start = FALSE
    /\ workStart = TRUE
    /\ taskList = <<>>
    /\ pc = [w \in Workers |-> "startTest"]
    /\ unit = [w \in Workers |-> NULL]
    /\ notices = 0
    /\ startCall = "none"
    /\ stopCall = "none"
    /\ pushed = <<>>
    /\ taken = <<>>
    /\ completed = {}

Goto(w, place) == pc' = [pc EXCEPT ![w] = place]

-----------------------------------------------------------------------------
(* The calls of other threads, or of a task that is being completed.       *)

StartSet ==
    /\ startCall = "none"
    /\ startCall' = "set"
    /\ start' = TRUE
    /\ UNCHANGED <<workStart, stopCall, taskList, worker, notices, history>>

\* Faulty: notify_one.
StartNotifyOne ==
    /\ startCall = "set"
    /\ startCall' = "done"
    /\ \/ \E w \in Workers : pc[w] = "startWaiting" /\ Goto(w, "startTest")
       \/ (\A w \in Workers : pc[w] # "startWaiting") /\ UNCHANGED pc
    /\ UNCHANGED <<start, workStart, stopCall, taskList, unit, notices, history>>

StartNotify ==
    /\ startCall = "set"
    /\ startCall' = "done"
    /\ pc' = [w \in Workers |-> IF pc[w] = "startWaiting" THEN "startTest" ELSE pc[w]]
    /\ UNCHANGED <<start, workStart, stopCall, taskList, unit, notices, history>>

StopSet ==
    /\ stopCall = "none"
    /\ stopCall' = "set"
    /\ workStart' = FALSE
    /\ UNCHANGED <<start, startCall, taskList, worker, notices, history>>

StopNotify ==
    /\ stopCall = "set"
    /\ stopCall' = "done"
    /\ pc' = [w \in Workers |-> IF pc[w] = "waiting" THEN "wait" ELSE pc[w]]
    /\ UNCHANGED <<start, workStart, startCall, taskList, unit, notices, history>>

\* Faulty: pushWithoutNofity.
PostQuietly(task) ==
    /\ task \notin Elements(pushed)
    /\ taskList' = Append(taskList, task)
    /\ pushed' = Append(pushed, task)
    /\ UNCHANGED <<control, worker, notices, taken, completed>>

\* post(): pushWithNotify up to the end of the lock's scope.
Post(task) ==
    /\ task \notin Elements(pushed)
    /\ taskList' = Append(taskList, task)
    /\ pushed' = Append(pushed, task)
    /\ notices' = notices + 1
    /\ UNCHANGED <<control, worker, taken, completed>>

\* notify_one() wakes one sleeper, if there is one.
Notify ==
    /\ notices > 0
    /\ notices' = notices - 1
    /\ \/ \E w \in Workers : pc[w] = "waiting" /\ Goto(w, "wait")
       \/ (\A w \in Workers : pc[w] # "waiting") /\ UNCHANGED pc
    /\ UNCHANGED <<control, taskList, unit, history>>

-----------------------------------------------------------------------------
(* A worker.                                                               *)

StartTest(w) ==
    /\ pc[w] = "startTest"
    /\ Goto(w, IF start THEN "get" ELSE "startSleep")
    /\ UNCHANGED <<control, taskList, unit, notices, history>>

StartSleep(w) ==
    /\ pc[w] = "startSleep"
    /\ Goto(w, "startWaiting")
    /\ UNCHANGED <<control, taskList, unit, notices, history>>

\* Faulty: the front stays in the list.
GetTastCopies(w) ==
    /\ pc[w] = "get"
    /\ IF taskList = <<>>
       THEN Goto(w, "empty") /\ UNCHANGED <<unit, taken>>
       ELSE /\ unit' = [unit EXCEPT ![w] = Head(taskList)]
            /\ taken' = Append(taken, Head(taskList))
            /\ Goto(w, "complete")
    /\ UNCHANGED <<control, taskList, notices, pushed, completed>>

GetTast(w) ==
    /\ pc[w] = "get"
    /\ IF taskList = <<>>
       THEN Goto(w, "empty") /\ UNCHANGED <<taskList, unit, taken>>
       ELSE /\ unit' = [unit EXCEPT ![w] = Head(taskList)]
            /\ taken' = Append(taken, Head(taskList))
            /\ taskList' = Tail(taskList)
            /\ Goto(w, "complete")
    /\ UNCHANGED <<control, notices, pushed, completed>>

Complete(w) ==
    /\ pc[w] = "complete"
    /\ completed' = completed \cup {unit[w]}
    /\ unit' = [unit EXCEPT ![w] = NULL]
    /\ Goto(w, "loop")
    /\ UNCHANGED <<control, taskList, notices, pushed, taken>>

\* consumerFunc found no task: wait only while the scheduler works.
Empty(w) ==
    /\ pc[w] = "empty"
    /\ Goto(w, IF workStart THEN "wait" ELSE "loop")
    /\ UNCHANGED <<control, taskList, unit, notices, history>>

\* Faulty: sleeps without looking at the list.
WaitBlindly(w) ==
    /\ pc[w] = "wait"
    /\ Goto(w, "waiting")
    /\ UNCHANGED <<control, taskList, unit, notices, history>>

\* wait(): its predicate is only that the list is not empty.
Wait(w) ==
    /\ pc[w] = "wait"
    /\ Goto(w, IF taskList = <<>> THEN "waiting" ELSE "loop")
    /\ UNCHANGED <<control, taskList, unit, notices, history>>

\* The condition of workThreadFunc's loop.
Loop(w) ==
    /\ pc[w] = "loop"
    /\ Goto(w, IF workStart THEN "get" ELSE "exited")
    /\ UNCHANGED <<control, taskList, unit, notices, history>>

Work(w) ==
    \/ StartTest(w) \/ StartSleep(w)
    \/ GetTast(w) \/ Complete(w) \/ Empty(w) \/ Wait(w) \/ Loop(w)

\* A condition variable may wake its waiters for no reason.
SpuriousWakeup(w) ==
    /\ \/ pc[w] = "waiting" /\ Goto(w, "wait")
       \/ pc[w] = "startWaiting" /\ Goto(w, "startTest")
    /\ UNCHANGED <<control, taskList, unit, notices, history>>

Next ==
    \/ StartSet \/ StartNotify \/ StopSet \/ StopNotify
    \/ \E task \in Tasks : Post(task)
    \/ Notify
    \/ \E w \in Workers : Work(w) \/ SpuriousWakeup(w)

\* Every thread runs: the workers, and the callers in the middle of a call.
\* Nothing makes a spurious wakeup happen.
Fairness ==
    /\ \A w \in Workers : WF_vars(Work(w))
    /\ WF_vars(StartNotify) /\ WF_vars(StopNotify) /\ WF_vars(Notify)

Spec == Init /\ [][Next]_vars
FairSpec == Spec /\ Fairness

-----------------------------------------------------------------------------
(* Properties.                                                             *)

\* Every task posted is either still in the list or was taken by one worker,
\* in the order of the posts; what is taken is being completed or was.
TakenOnceInOrder ==
    /\ pushed = taken \o taskList
    /\ \A v, w \in Workers : v # w /\ unit[v] # NULL => unit[v] # unit[w]
    /\ Elements(taken) = completed \cup ({unit[w] : w \in Workers} \ {NULL})

\* scheduler_list.cpp:7: no signal is lost.  While there is a task and the
\* scheduler works, a worker is awake, or one is about to be woken, although
\* notify_one is called outside the lock and may wake a worker too late.
NoLostSignal ==
    taskList # <<>> /\ workStart /\ (\E w \in Workers : Started(w)) =>
        \/ notices > 0
        \/ \E w \in Workers : Started(w) /\ pc[w] # "waiting"

SchedulerInv == TypeOK /\ TakenOnceInOrder /\ NoLostSignal

\* The inductive strengthening: nothing is posted twice, and a worker has a
\* unit just while it completes it.
OnceInv ==
    /\ \A i, j \in 1 .. Len(pushed) : pushed[i] = pushed[j] => i = j
    /\ \A w \in Workers : pc[w] = "complete" <=> unit[w] # NULL

\* scheduler.hpp:38, and test_scheduler.hpp, which joins the workers after
\* stop(): a stopped scheduler lets all its workers go.
StopEndsWork ==
    (stopCall = "done" /\ \A w \in Workers : Started(w)) ~> \A w \in Workers : pc[w] = "exited"

\* scheduler.cpp:22: start() makes all threads start to work.
StartStartsAll == startCall = "done" ~> \A w \in Workers : Started(w)
=============================================================================
