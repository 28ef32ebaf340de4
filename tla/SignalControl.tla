---------------------------- MODULE SignalControl ----------------------------
(***************************************************************************)
(* SignalControl (signal_control.cpp/.hpp) on a Scheduler: init,           *)
(* addSignal, asyncWait with a function that resets SignalControl and      *)
(* stops the scheduler, as test_signal_control.hpp does it with            *)
(* SchedulerLF, whose units come from the same kind of list.               *)
(*                                                                         *)
(* The handler of a signal runs in whatever thread the kernel interrupts   *)
(* and posts a unit to the scheduler from there.  A thread that was        *)
(* interrupted with the list's mutex locked waits for itself for ever, and *)
(* all who need the list wait with it.  Module Scheduler has what is done  *)
(* under the mutex as one action; such an interruption is one that a       *)
(* worker suffers where this action would be its next.                     *)
(*                                                                         *)
(* A signal is one of Signals, comes at most once, and is its own unit.    *)
(* sigaction is given flags and a mask that were never set; what they may  *)
(* change, that a signal is caught a second time, does not come up.        *)
(***************************************************************************)
EXTENDS Scheduler

CONSTANT Signals

ASSUME SignalAssumption == Signals \subseteq Tasks

VARIABLES
    sScheduler,   \* is sScheduler set?
    sSignalSet,   \* sSignalSet
    waits,        \* asyncWait was called: sFuncWarp is set
    disposition,  \* what the kernel does with a signal
    delivered,    \* history: the signals that came
    stuck,        \* the worker whose handler waits for its own mutex, or NULL
    process       \* "runs", "killed" by default, "crashed" by a NULL pointer

signal == <<sScheduler, sSignalSet, waits, disposition, delivered, stuck, process>>
sigVars == <<vars, signal>>

SigInit ==
    /\ Init
    /\ sScheduler = FALSE
    /\ sSignalSet = {}
    /\ waits = FALSE
    /\ disposition = [s \in Signals |-> "default"]
    /\ delivered = {}
    /\ stuck = NULL
    /\ process = "runs"

-----------------------------------------------------------------------------
(* Calls of the main thread, in the order of the test.                     *)

InitControl ==
    /\ ~sScheduler /\ ~waits
    /\ sScheduler' = TRUE
    /\ UNCHANGED <<vars, sSignalSet, waits, disposition, delivered, stuck, process>>

\* sigaction(SIG_IGN); the int that it returns, 0, is taken for a bool.
AddIgnoreSignal(s) ==
    /\ sScheduler /\ ~waits
    /\ disposition[s] = "default" /\ s \notin sSignalSet
    /\ disposition' = [disposition EXCEPT ![s] = "ignore"]
    /\ UNCHANGED <<vars, sScheduler, sSignalSet, waits, delivered, stuck, process>>

AddSignal(s) ==
    /\ sScheduler /\ ~waits
    /\ s \notin sSignalSet /\ disposition[s] = "default"
    /\ sSignalSet' = sSignalSet \cup {s}
    /\ UNCHANGED <<vars, sScheduler, waits, disposition, delivered, stuck, process>>

\* sFuncWarp is set before the handlers are.
AsyncWait ==
    /\ sScheduler /\ ~waits
    /\ sSignalSet # {}
    /\ waits' = TRUE
    /\ disposition' = [s \in Signals |-> IF s \in sSignalSet THEN "handler" ELSE disposition[s]]
    /\ UNCHANGED <<vars, sScheduler, sSignalSet, delivered, stuck, process>>

-----------------------------------------------------------------------------
(* A signal comes.                                                         *)

Comes(s) == s \notin delivered /\ delivered' = delivered \cup {s}

\* Without a handler.
Uncaught(s) ==
    /\ Comes(s)
    /\ disposition[s] # "handler"
    /\ process' = IF disposition[s] = "default" THEN "killed" ELSE process
    /\ UNCHANGED <<vars, sScheduler, sSignalSet, waits, disposition, stuck>>

\* Faulty: lets go of the scheduler as soon as a signal is posted.
CatchSignalOnce(s) ==
    /\ Comes(s)
    /\ disposition[s] = "handler"
    /\ IF sScheduler
       THEN Post(s) /\ sScheduler' = FALSE /\ UNCHANGED process
       ELSE process' = "crashed" /\ UNCHANGED <<vars, sScheduler>>
    /\ UNCHANGED <<sSignalSet, waits, disposition, stuck>>

\* catchSignal in a thread that does not hold the list's mutex.
CatchSignal(s) ==
    /\ Comes(s)
    /\ disposition[s] = "handler"
    /\ IF sScheduler
       THEN Post(s) /\ UNCHANGED process
       ELSE process' = "crashed" /\ UNCHANGED vars
    /\ UNCHANGED <<sScheduler, sSignalSet, waits, disposition, stuck>>

\* catchSignal in worker w, that holds it in getTast or in wait.
CatchInLock(s, w) ==
    /\ Comes(s)
    /\ disposition[s] = "handler"
    /\ sScheduler
    /\ pc[w] \in {"get", "wait"}
    /\ stuck' = w
    /\ UNCHANGED <<vars, sScheduler, sSignalSet, waits, disposition, process>>

\* The signals' function: SignalControl::reset, then the scheduler's stop.
SignalFunc(w) ==
    /\ pc[w] = "complete"
    /\ unit[w] \in Signals
    /\ sScheduler
    /\ sScheduler' = FALSE
    /\ StopSet \/ (stopCall # "none" /\ UNCHANGED vars)
    /\ UNCHANGED <<sSignalSet, waits, disposition, delivered, stuck, process>>

\* The scheduler's steps that take the list's mutex, and those that do not.
Locks ==
    \/ \E task \in Tasks \ Signals : Post(task)
    \/ \E w \in Workers : GetTast(w) \/ Wait(w)

LockFreeWork(w) ==
    \/ StartTest(w) \/ StartSleep(w) \/ Empty(w) \/ Loop(w)
    \/ Complete(w) /\ (unit[w] \in Signals => ~sScheduler)

LockFree ==
    \/ StartSet \/ StartNotify \/ StopSet \/ StopNotify \/ Notify
    \/ \E w \in Workers : LockFreeWork(w) \/ SpuriousWakeup(w)

SigNext ==
    /\ process = "runs"
    /\ \/ stuck = NULL /\ Locks /\ UNCHANGED signal
       \/ LockFree /\ UNCHANGED signal
       \/ InitControl \/ AsyncWait
       \/ \E s \in Signals : AddIgnoreSignal(s) \/ AddSignal(s) \/ Uncaught(s)
       \/ \E s \in Signals : stuck = NULL /\ CatchSignal(s)
       \/ \E s \in Signals, w \in Workers : stuck = NULL /\ CatchInLock(s, w)
       \/ \E w \in Workers : SignalFunc(w)

Runs(A) == process = "runs" /\ A /\ UNCHANGED signal

SigFairness ==
    /\ \A w \in Workers :
          /\ WF_sigVars(Runs(stuck = NULL /\ (GetTast(w) \/ Wait(w))))
          /\ WF_sigVars(Runs(LockFreeWork(w)))
          /\ WF_sigVars(process = "runs" /\ SignalFunc(w))
    /\ WF_sigVars(Runs(StartNotify)) /\ WF_sigVars(Runs(StopNotify)) /\ WF_sigVars(Runs(Notify))

SigSpec == SigInit /\ [][SigNext]_sigVars /\ SigFairness

-----------------------------------------------------------------------------
SigTypeOK ==
    /\ {sScheduler, waits} \subseteq BOOLEAN
    /\ sSignalSet \subseteq Signals /\ delivered \subseteq Signals
    /\ disposition \in [Signals -> {"default", "ignore", "handler"}]
    /\ stuck \in Workers \cup {NULL}
    /\ process \in {"runs", "killed", "crashed"}

\* A signal has come, was posted and is running or has run its function.
SignalBefore == \E s \in delivered : s \in completed \/ \E w \in Workers : unit[w] = s

(* The first signal is safe: catchSignal follows sScheduler without a      *)
(* test, and it is NULL only after another signal (signal_control.cpp:43). *)
OnlyALaterSignalCrashes == process = "crashed" => SignalBefore

SignalInv == SchedulerInv /\ SigTypeOK /\ OnlyALaterSignalCrashes

(* The inductive strengthening: what was posted for a signal has come,     *)
(* only asyncWait installs a handler, and sScheduler is let go of by the   *)
(* function of a signal.                                                   *)
HandlersInv ==
    /\ Elements(pushed) \cap Signals \subseteq delivered
    /\ \A s \in Signals : disposition[s] = "handler" => waits
    /\ waits /\ ~sScheduler => SignalBefore

ControlInv == SignalInv /\ OnceInv /\ HandlersInv

\* Nothing more can be expected.
Over == stuck # NULL \/ process # "runs"

(* Every task runs once a worker has started, and every signal caught does *)
(* and stops the scheduler, although it was posted by a handler: unless    *)
(* the scheduler was stopped, the process has ended or a handler waits for *)
(* a mutex of its own thread.                                              *)
TasksAndSignalsRun ==
    \A task \in Tasks :
        (task \in Elements(pushed) /\ \E w \in Workers : Started(w)) ~>
            (task \in completed \/ ~workStart \/ Over)

(* start() starts each worker that is asleep or has still to test m_start, *)
(* but may miss the one between its test and its sleep (scheduler.cpp:21); *)
(* stop() ends each that is awake, but leaves the ones asleep on the empty *)
(* list asleep, for ever if nobody posts (scheduler_list.cpp:8).           *)
StartAndStopReach ==
    \A w \in Workers :
        /\ (startCall = "set" /\ pc[w] # "startSleep") ~> (Started(w) \/ Over)
        /\ (stopCall = "set" /\ Started(w)) ~> (pc[w] \in {"exited", "waiting"} \/ Over)

=============================================================================
