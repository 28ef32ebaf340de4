------------------------------ MODULE SafeUnit ------------------------------
(***************************************************************************)
(* The strand of utils: SchdelerSafeUnit (scheduler_safe_unit.cpp/.hpp) on *)
(* a scheduler with several worker threads.                                *)
(*                                                                         *)
(* post() and cancelUnits() hold listMutex from end to end, so each is one *)
(* action of any thread, a worker inside a function included.  doComplete  *)
(* takes the lock only at its end: the swap of accessList before it is two *)
(* steps (the list is read, the list is emptied), and so is each function  *)
(* it runs (it starts, it returns).                                        *)
(***************************************************************************)
EXTENDS Naturals, Sequences

CONSTANTS
    Workers,   \* the worker threads of the scheduler
    Funcs,     \* what is given to post(), each at most once
    Callbacks  \* what is given to cancelUnits(), each at most once

ASSUME SafeUnitAssumption ==
    /\ Workers # {}
    /\ Funcs \cap Callbacks = {}

VARIABLES
    access,      \* access: the unit is scheduled or executed
    cancelFlag,  \* cancelFlag
    waitList,    \* waitList
    accessList,  \* accessList
    scheduled,   \* how many times the scheduler's list holds the unit
    pc,          \* pc[w]: where worker w is in doComplete
    runList,     \* runList[w]: the local runList, from the function at iter
    calls,       \* the functions and callbacks the calls so far brought
    accepted,    \* history: what went into one of the lists, in order
    executed     \* history: what was started, in order

lists   == <<waitList, accessList>>
locals  == <<pc, runList>>
history == <<accepted, executed>>
vars    == <<access, cancelFlag, lists, scheduled, locals, calls, history>>

Jobs   == Funcs \cup Callbacks
Places == {"idle", "taken", "swapping", "running", "inside"}

TypeOK ==
    /\ access \in BOOLEAN
    /\ cancelFlag \in BOOLEAN
    /\ waitList \in Seq(Jobs)
    /\ accessList \in Seq(Jobs)
    /\ scheduled \in Nat
    /\ pc \in [Workers -> Places]
    /\ runList \in [Workers -> Seq(Jobs)]
    /\ calls \subseteq Jobs
    /\ accepted \in Seq(Jobs)
    /\ executed \in Seq(Jobs)

Init ==
    /\ access = FALSE
    /\ cancelFlag = FALSE
    /\ waitList = <<>>
    /\ accessList = <<>>
    /\ scheduled = 0
    /\ pc = [w \in Workers |-> "idle"]
    /\ runList = [w \in Workers |-> <<>>]
    /\ calls = {}
    /\ accepted = <<>>
    /\ executed = <<>>

-----------------------------------------------------------------------------
(* Calls, under listMutex.                                                 *)

\* Faulty: schedules the unit whether it is scheduled already or not.
PostWithoutLockAlways(job) ==
    /\ accepted' = Append(accepted, job)
    /\ accessList' = Append(accessList, job)
    /\ access' = TRUE
    /\ scheduled' = scheduled + 1
    /\ UNCHANGED waitList

\* Faulty: goes into accessList while the unit is scheduled.
PostWithoutLockOneList(job) ==
    /\ accepted' = Append(accepted, job)
    /\ accessList' = Append(accessList, job)
    /\ access' = TRUE
    /\ scheduled' = IF access THEN scheduled ELSE scheduled + 1
    /\ UNCHANGED waitList

PostWithoutLock(job) ==
    /\ accepted' = Append(accepted, job)
    /\ \/ /\ ~access
          /\ access' = TRUE
          /\ accessList' = Append(accessList, job)
          /\ scheduled' = scheduled + 1
          /\ UNCHANGED waitList
       \/ /\ access
          /\ waitList' = Append(waitList, job)
          /\ UNCHANGED <<access, accessList, scheduled>>

\* Faulty: the flag is not looked at.
PostAfterCancel(func) ==
    /\ func \notin calls
    /\ calls' = calls \cup {func}
    /\ PostWithoutLock(func)
    /\ UNCHANGED <<cancelFlag, locals, executed>>

Post(func) ==
    /\ func \notin calls
    /\ calls' = calls \cup {func}
    /\ IF cancelFlag
       THEN UNCHANGED <<access, lists, scheduled, accepted>>
       ELSE PostWithoutLock(func)
    /\ UNCHANGED <<cancelFlag, locals, executed>>

CancelUnits(callback) ==
    /\ callback \notin calls
    /\ calls' = calls \cup {callback}
    /\ IF cancelFlag
       THEN UNCHANGED <<access, lists, scheduled, accepted>>
       ELSE PostWithoutLock(callback)
    /\ cancelFlag' = TRUE
    /\ UNCHANGED <<locals, executed>>

-----------------------------------------------------------------------------
(* A worker.                                                               *)

\* The scheduler hands the unit to a worker: complete() calls doComplete().
Take(w) ==
    /\ pc[w] = "idle"
    /\ scheduled > 0
    /\ scheduled' = scheduled - 1
    /\ pc' = [pc EXCEPT ![w] = "taken"]
    /\ UNCHANGED <<access, cancelFlag, lists, runList, calls, history>>

SwapRead(w) ==
    /\ pc[w] = "taken"
    /\ runList' = [runList EXCEPT ![w] = accessList]
    /\ pc' = [pc EXCEPT ![w] = "swapping"]
    /\ UNCHANGED <<access, cancelFlag, lists, scheduled, calls, history>>

SwapWrite(w) ==
    /\ pc[w] = "swapping"
    /\ accessList' = <<>>
    /\ pc' = [pc EXCEPT ![w] = "running"]
    /\ UNCHANGED <<access, cancelFlag, waitList, scheduled, runList, calls, history>>

StartFunc(w) ==
    /\ pc[w] = "running"
    /\ runList[w] # <<>>
    /\ executed' = Append(executed, Head(runList[w]))
    /\ pc' = [pc EXCEPT ![w] = "inside"]
    /\ UNCHANGED <<access, cancelFlag, lists, scheduled, runList, calls, accepted>>

EndFunc(w) ==
    /\ pc[w] = "inside"
    /\ runList' = [runList EXCEPT ![w] = Tail(@)]
    /\ pc' = [pc EXCEPT ![w] = "running"]
    /\ UNCHANGED <<access, cancelFlag, lists, scheduled, calls, history>>

\* Faulty: the unit is released with functions still waiting.
LeaveReleases(w) ==
    /\ pc[w] = "running"
    /\ runList[w] = <<>>
    /\ accessList' = waitList
    /\ waitList' = accessList
    /\ access' = FALSE
    /\ pc' = [pc EXCEPT ![w] = "idle"]
    /\ UNCHANGED <<cancelFlag, scheduled, runList, calls, history>>

\* Faulty: the unit is not scheduled again.
LeaveForgets(w) ==
    /\ pc[w] = "running"
    /\ runList[w] = <<>>
    /\ accessList' = waitList
    /\ waitList' = accessList
    /\ access' = (waitList # <<>>)
    /\ pc' = [pc EXCEPT ![w] = "idle"]
    /\ UNCHANGED <<cancelFlag, scheduled, runList, calls, history>>

\* The end of doComplete, under listMutex.
Leave(w) ==
    /\ pc[w] = "running"
    /\ runList[w] = <<>>
    /\ accessList' = waitList
    /\ waitList' = accessList
    /\ IF waitList = <<>>
       THEN access' = FALSE /\ UNCHANGED scheduled
       ELSE scheduled' = scheduled + 1 /\ UNCHANGED access
    /\ pc' = [pc EXCEPT ![w] = "idle"]
    /\ UNCHANGED <<cancelFlag, runList, calls, history>>

DoComplete(w) == SwapRead(w) \/ SwapWrite(w) \/ StartFunc(w) \/ EndFunc(w) \/ Leave(w)

Next ==
    \/ \E func \in Funcs : Post(func)
    \/ \E callback \in Callbacks : CancelUnits(callback)
    \/ \E w \in Workers : Take(w) \/ DoComplete(w)

Spec == Init /\ [][Next]_vars

-----------------------------------------------------------------------------
(* Properties.                                                             *)

\* The point of the class: two workers are never inside functions of one
\* unit, nor anywhere else in its doComplete.
MutualExclusion == \A v, w \in Workers : pc[v] # "idle" /\ pc[w] # "idle" => v = w

\* access says exactly that the unit is in the scheduler's list, once, or in
\* doComplete: it is never forgotten with functions waiting, nor held twice.
AccessMeansOwned ==
    /\ scheduled <= 1
    /\ access <=> scheduled = 1 \/ \E w \in Workers : pc[w] # "idle"
    /\ \A w \in Workers : pc[w] # "idle" => scheduled = 0

\* doComplete may swap accessList without listMutex (scheduler_safe_unit.cpp:34)
\* because nobody else touches the list meanwhile.
UnlockedSwapIsPrivate ==
    [][\A w \in Workers :
          pc[w] \in {"taken", "swapping"} /\ pc'[w] = pc[w] => accessList' = accessList]_vars

\* cancelUnits' callback, which lets go of the unit's owner, is the last
\* function to run: none is accepted or started after it.
CancelIsLast ==
    [][\A i \in 1 .. Len(executed) : executed[i] \in Callbacks => UNCHANGED history]_vars

\* The unit is a strand: see SerialExecutor.
Strand == INSTANCE SerialExecutor WITH
    Closers <- Callbacks,
    busy <- \E w \in Workers : pc[w] = "inside",
    closed <- cancelFlag

ImplementsStrand == Strand!Spec

-----------------------------------------------------------------------------
(* The inductive strengthening of the safety properties.                   *)

\* The functions not started yet, as worker w's progress shows them.
Pending(w) ==
    (IF pc[w] \in {"idle", "taken"} THEN accessList
     ELSE IF pc[w] = "inside" THEN Tail(runList[w]) ELSE runList[w]) \o waitList

\* Nothing accepted is lost, doubled or overtaken, whoever holds it.
NothingLost ==
    /\ access => \A w \in Workers :
          (pc[w] # "idle" \/ scheduled = 1) => accepted = executed \o Pending(w)
    /\ ~access => accepted = executed /\ accessList = <<>> /\ waitList = <<>>

ListsInv ==
    \A w \in Workers :
        /\ pc[w] = "swapping" => runList[w] = accessList
        /\ pc[w] \in {"running", "inside"} => accessList = <<>>
        /\ pc[w] = "inside" => runList[w] # <<>>

\* A callback is the last function accepted.
CancelInv ==
    \A i \in 1 .. Len(accepted) :
        accepted[i] \in Callbacks => cancelFlag /\ i = Len(accepted)

UnitInv == MutualExclusion /\ AccessMeansOwned /\ NothingLost /\ ListsInv /\ CancelInv
=============================================================================
