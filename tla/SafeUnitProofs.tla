--------------------------- MODULE SafeUnitProofs ---------------------------
(***************************************************************************)
(* Proofs about SafeUnit, for every set of workers and of functions.       *)
(***************************************************************************)
EXTENDS DBManager, FiniteSetTheorems, SequenceTheorems, TLAPS

\* A function put behind the others stays last when they are put together.
LEMMA PushBehind ==
    ASSUME NEW e \in Seq(Jobs), NEW x \in Seq(Jobs), NEW w \in Seq(Jobs), NEW j \in Jobs
    PROVE  e \o (x \o Append(w, j)) = Append(e \o (x \o w), j)
  <1>1. x \o Append(w, j) = Append(x \o w, j)
    BY AppendProperties, ConcatProperties
  <1>2. x \o w \in Seq(Jobs)
    BY ConcatProperties
  <1> QED
    BY <1>1, <1>2, AppendProperties, ConcatProperties

\* Starting the first function moves it from one end of the cut to the other.
LEMMA MoveFirst ==
    ASSUME NEW e \in Seq(Jobs), NEW r \in Seq(Jobs), NEW w \in Seq(Jobs), r # <<>>
    PROVE  /\ e \o (r \o w) = Append(e, Head(r)) \o (Tail(r) \o w)
           /\ Tail(r) \o w \in Seq(Jobs)
           /\ Len(e) < Len(e \o (r \o w))
           /\ (e \o (r \o w))[Len(e) + 1] = Head(r)
  <1>1. /\ Tail(r) \in Seq(Jobs)
        /\ Head(r) \in Jobs
        /\ Len(r) \in Nat \ {0}
        /\ Len(Tail(r)) = Len(r) - 1
        /\ Head(r) = r[1]
        /\ \A i \in 1 .. Len(r) - 1 : Tail(r)[i] = r[i + 1]
    BY HeadTailProperties, EmptySeq, LenProperties
  <1>2. /\ r \o w \in Seq(Jobs)
        /\ Tail(r) \o w \in Seq(Jobs)
        /\ Append(e, Head(r)) \in Seq(Jobs)
    BY <1>1, ConcatProperties, AppendProperties
  <1>3. r = <<Head(r)>> \o Tail(r)
    BY <1>1
  <1>4. /\ r \o w = <<Head(r)>> \o (Tail(r) \o w)
        /\ Append(e, Head(r)) = e \o <<Head(r)>>
    BY <1>1, <1>3
  <1> DEFINE t == Tail(r) \o w
             h == Head(r)
  <1>5. h \in Jobs /\ t \in Seq(Jobs) /\ <<h>> \in Seq(Jobs)
    BY <1>1, <1>2
  <1>6. r \o w = <<h>> \o t /\ Append(e, h) = e \o <<h>>
    BY <1>4
  <1> HIDE DEF t, h
  <1>7. e \o (<<h>> \o t) = (e \o <<h>>) \o t
    BY <1>5
  <1>8. /\ Len(e) < Len(e \o (<<h>> \o t))
        /\ (e \o (<<h>> \o t))[Len(e) + 1] = h
    BY <1>5
  <1> QED
    BY <1>5, <1>6, <1>7, <1>8 DEF t, h

-----------------------------------------------------------------------------
(* One step preserves each part of the invariant.                          *)

\* What every lemma below assumes of the state before the step.
Inv == TypeOK /\ UnitInv

LEMMA TypeStep ==
    Inv /\ [Next]_vars => TypeOK'
  <1> SUFFICES ASSUME TypeOK, ListsInv, [Next]_vars PROVE TypeOK'
    BY DEF Inv, UnitInv
  <1> USE DEF TypeOK
  <1>0. ASSUME NEW job \in Jobs, PostWithoutLock(job)
        PROVE /\ access' \in BOOLEAN
              /\ scheduled' \in Nat
              /\ accepted' \in Seq(Jobs)
              /\ accessList' \in Seq(Jobs)
              /\ waitList' \in Seq(Jobs)
    <2>1. access' \in BOOLEAN
      BY <1>0, Zenon DEF PostWithoutLock
    <2>2. UNCHANGED scheduled \/ scheduled' = scheduled + 1
      BY <1>0 DEF PostWithoutLock
    <2>3. /\ accepted' = Append(accepted, job)
          /\ accessList' = accessList \/ accessList' = Append(accessList, job)
          /\ waitList' = waitList \/ waitList' = Append(waitList, job)
      BY <1>0 DEF PostWithoutLock
    <2>4. scheduled' \in Nat
      BY <2>2
    <2>5. Append(accepted, job) \in Seq(Jobs) /\ Append(accessList, job) \in Seq(Jobs)
            /\ Append(waitList, job) \in Seq(Jobs)
      BY <1>0
    <2>6. accepted' \in Seq(Jobs) /\ accessList' \in Seq(Jobs) /\ waitList' \in Seq(Jobs)
      BY <2>3, <2>5
    <2> QED
      BY <2>1, <2>4, <2>6
  <1>1. ASSUME NEW func \in Funcs, Post(func) PROVE TypeOK'
    BY <1>0, <1>1 DEF Post, lists, locals, Jobs
  <1>2. ASSUME NEW callback \in Callbacks, CancelUnits(callback) PROVE TypeOK'
    BY <1>0, <1>2 DEF CancelUnits, lists, locals, Jobs
  <1>3. ASSUME NEW w \in Workers, Take(w) PROVE TypeOK'
    BY <1>3 DEF Take, lists, history, Places
  <1>4. ASSUME NEW w \in Workers, SwapRead(w) PROVE TypeOK'
    BY <1>4 DEF SwapRead, lists, history, Places
  <1>5. ASSUME NEW w \in Workers, SwapWrite(w) PROVE TypeOK'
    BY <1>5 DEF SwapWrite, history, Places
  <1>6. ASSUME NEW w \in Workers, StartFunc(w) PROVE TypeOK'
    BY <1>6 DEF StartFunc, lists, Places
  <1>7. ASSUME NEW w \in Workers, EndFunc(w) PROVE TypeOK'
    <2>1. Tail(runList[w]) \in Seq(Jobs)
      BY <1>7 DEF EndFunc, ListsInv
    <2> QED
      BY <1>7, <2>1 DEF EndFunc, lists, history, Places
  <1>8. ASSUME NEW w \in Workers, Leave(w) PROVE TypeOK'
    <2>1. CASE waitList = <<>>
      BY <1>8, <2>1 DEF Leave, history, Places
    <2>2. CASE waitList # <<>>
      BY <1>8, <2>2 DEF Leave, history, Places
    <2> QED
      BY <2>1, <2>2
  <1>9. CASE UNCHANGED vars
    BY <1>9 DEF vars, lists, locals, history
  <1> QED
    BY <1>1, <1>2, <1>3, <1>4, <1>5, <1>6, <1>7, <1>8, <1>9 DEF Next, DoComplete

\* Owned by one: the scheduler's list or one worker.
LEMMA OwnStep ==
    Inv /\ [Next]_vars => MutualExclusion' /\ AccessMeansOwned'
  <1> SUFFICES ASSUME TypeOK, MutualExclusion, AccessMeansOwned, [Next]_vars
               PROVE MutualExclusion' /\ AccessMeansOwned'
    BY DEF Inv, UnitInv
  <1> USE DEF TypeOK, MutualExclusion, AccessMeansOwned
  <1>1. ASSUME NEW job, PostWithoutLock(job), UNCHANGED locals
        PROVE MutualExclusion' /\ AccessMeansOwned'
    BY <1>1 DEF PostWithoutLock, locals
  <1>2. ASSUME UNCHANGED <<access, scheduled, locals>>
        PROVE MutualExclusion' /\ AccessMeansOwned'
    BY <1>2 DEF locals
  <1>3. ASSUME NEW func \in Funcs, Post(func)
        PROVE MutualExclusion' /\ AccessMeansOwned'
    BY <1>1, <1>2, <1>3 DEF Post
  <1>4. ASSUME NEW callback \in Callbacks, CancelUnits(callback)
        PROVE MutualExclusion' /\ AccessMeansOwned'
    BY <1>1, <1>2, <1>4 DEF CancelUnits
  <1>5. ASSUME NEW w \in Workers, Take(w)
        PROVE MutualExclusion' /\ AccessMeansOwned'
    BY <1>5 DEF Take
  <1>6. ASSUME NEW w \in Workers, SwapRead(w) \/ SwapWrite(w) \/ StartFunc(w) \/ EndFunc(w)
        PROVE MutualExclusion' /\ AccessMeansOwned'
    <2>1. /\ UNCHANGED <<access, scheduled>>
          /\ \A v \in Workers : pc'[v] = "idle" <=> pc[v] = "idle"
      BY <1>6 DEF SwapRead, SwapWrite, StartFunc, EndFunc
    <2> QED
      BY <2>1
  <1>7. ASSUME NEW w \in Workers, Leave(w)
        PROVE MutualExclusion' /\ AccessMeansOwned'
    <2>1. CASE waitList = <<>>
      BY <1>7, <2>1 DEF Leave
    <2>2. CASE waitList # <<>>
      BY <1>7, <2>2 DEF Leave
    <2> QED
      BY <2>1, <2>2
  <1>8. CASE UNCHANGED vars
    BY <1>2, <1>8 DEF vars
  <1> QED
    BY <1>3, <1>4, <1>5, <1>6, <1>7, <1>8 DEF Next, DoComplete

LEMMA ListsStep ==
    Inv /\ [Next]_vars => ListsInv'
  <1> SUFFICES ASSUME TypeOK, MutualExclusion, AccessMeansOwned, ListsInv, [Next]_vars
               PROVE ListsInv'
    BY DEF Inv, UnitInv
  <1> USE DEF TypeOK, MutualExclusion, ListsInv
  <1>1. ASSUME NEW job, PostWithoutLock(job), UNCHANGED locals PROVE ListsInv'
    BY <1>1 DEF PostWithoutLock, locals, AccessMeansOwned
  <1>2. ASSUME NEW func \in Funcs, Post(func) PROVE ListsInv'
    BY <1>1, <1>2 DEF Post, lists, locals
  <1>3. ASSUME NEW callback \in Callbacks, CancelUnits(callback) PROVE ListsInv'
    BY <1>1, <1>3 DEF CancelUnits, lists, locals
  <1>4. ASSUME NEW w \in Workers, Take(w) PROVE ListsInv'
    BY <1>4 DEF Take, lists
  <1>5. ASSUME NEW w \in Workers, SwapRead(w) PROVE ListsInv'
    BY <1>5 DEF SwapRead, lists
  <1>6. ASSUME NEW w \in Workers, SwapWrite(w) PROVE ListsInv'
    BY <1>6 DEF SwapWrite
  <1>7. ASSUME NEW w \in Workers, StartFunc(w) PROVE ListsInv'
    BY <1>7 DEF StartFunc, lists
  <1>8. ASSUME NEW w \in Workers, EndFunc(w) PROVE ListsInv'
    BY <1>8 DEF EndFunc, lists
  <1>9. ASSUME NEW w \in Workers, Leave(w) PROVE ListsInv'
    BY <1>9 DEF Leave
  <1>10. CASE UNCHANGED vars
    BY <1>10 DEF vars, lists, locals
  <1> QED
    BY <1>2, <1>3, <1>4, <1>5, <1>6, <1>7, <1>8, <1>9, <1>10 DEF Next, DoComplete

LEMMA LostStep ==
    Inv /\ [Next]_vars => NothingLost'
  <1> SUFFICES ASSUME Inv, [Next]_vars PROVE NothingLost'
    OBVIOUS
  <1>0. TypeOK /\ MutualExclusion /\ AccessMeansOwned /\ NothingLost /\ ListsInv
    BY DEF Inv, UnitInv
  <1>1. ASSUME NEW job \in Jobs, PostWithoutLock(job), UNCHANGED <<locals, executed>>
        PROVE NothingLost'
    <2>1. CASE ~access
      <3>1. accepted' = executed \o (<<job>> \o <<>>) /\ access' = TRUE
        BY <1>0, <1>1, <2>1 DEF PostWithoutLock, NothingLost, TypeOK
      <3>2. accessList' = <<job>> /\ waitList' = <<>> /\ executed' = executed /\ pc' = pc
        BY <1>0, <1>1, <2>1 DEF PostWithoutLock, NothingLost, TypeOK, locals
      <3>3. \A w \in Workers : pc[w] = "idle"
        BY <1>0, <2>1 DEF AccessMeansOwned
      <3> QED
        BY <3>1, <3>2, <3>3 DEF NothingLost, Pending
    <2>2. CASE access
      <3>1. /\ accepted' = Append(accepted, job)
            /\ waitList' = Append(waitList, job)
            /\ UNCHANGED <<access, accessList, scheduled, executed, pc, runList>>
        BY <1>1, <2>2 DEF PostWithoutLock, locals
      <3>2. ASSUME NEW w \in Workers, pc[w] # "idle" \/ scheduled = 1
            PROVE accepted' = executed' \o Pending(w)'
        <4>1. accepted = executed \o Pending(w)
          BY <1>0, <2>2, <3>2 DEF NothingLost
        <4>2. /\ executed \in Seq(Jobs) /\ waitList \in Seq(Jobs)
              /\ accessList \in Seq(Jobs) /\ runList[w] \in Seq(Jobs)
              /\ pc[w] \in Places
              /\ pc[w] = "inside" => Tail(runList[w]) \in Seq(Jobs)
          BY <1>0 DEF TypeOK, ListsInv
        <4> DEFINE held == IF pc[w] \in {"idle", "taken"} THEN accessList
                           ELSE IF pc[w] = "inside" THEN Tail(runList[w]) ELSE runList[w]
        <4>3. held \in Seq(Jobs)
          BY <4>2
        <4>4. Pending(w) = held \o waitList /\ Pending(w)' = held \o Append(waitList, job)
          BY <3>1 DEF Pending
        <4> HIDE DEF held
        <4>5. executed \o (held \o Append(waitList, job))
                = Append(executed \o (held \o waitList), job)
          <5>1. executed \in Seq(Jobs) /\ held \in Seq(Jobs) /\ waitList \in Seq(Jobs) /\ job \in Jobs
            BY <4>2, <4>3
          <5> QED
            BY <5>1, PushBehind
        <4> QED
          BY <3>1, <4>1, <4>4, <4>5, Zenon
      <3> QED
        BY <2>2, <3>1, <3>2 DEF NothingLost
    <2> QED
      BY <2>1, <2>2
  <1>2. ASSUME UNCHANGED <<access, lists, scheduled, locals, history>> PROVE NothingLost'
    <2>1. ASSUME NEW w \in Workers PROVE Pending(w)' = Pending(w)
      BY <1>2 DEF Pending, lists, locals
    <2> QED
      BY <1>0, <1>2, <2>1 DEF NothingLost, lists, locals, history
  <1>3. ASSUME NEW func \in Funcs, Post(func) PROVE NothingLost'
    BY <1>1, <1>2, <1>3 DEF Post, Jobs, history
  <1>4. ASSUME NEW callback \in Callbacks, CancelUnits(callback) PROVE NothingLost'
    BY <1>1, <1>2, <1>4 DEF CancelUnits, Jobs, history
  <1>5. ASSUME NEW w \in Workers, Take(w) PROVE NothingLost'
    <2>1. access /\ scheduled = 1 /\ scheduled' = 0 /\ \A v \in Workers : pc[v] = "idle"
      BY <1>0, <1>5 DEF Take, AccessMeansOwned, TypeOK
    <2>2. accepted = executed \o (accessList \o waitList)
      BY <1>0, <2>1 DEF NothingLost, Pending
    <2> QED
      BY <1>0, <1>5, <2>1, <2>2 DEF Take, NothingLost, Pending, TypeOK, lists, history
  <1>6. ASSUME NEW w \in Workers, pc[w] # "idle", pc'[w] # "idle",
               \A v \in Workers : v # w => pc'[v] = pc[v],
               UNCHANGED <<access, scheduled, accepted>>,
               accepted = executed \o Pending(w) => accepted' = executed' \o Pending(w)'
        PROVE NothingLost'
    <2>1. access /\ scheduled = 0 /\ \A v \in Workers : v # w => pc[v] = "idle"
      BY <1>0, <1>6 DEF AccessMeansOwned, MutualExclusion
    <2>2. accepted = executed \o Pending(w)
      BY <1>0, <1>6, <2>1 DEF NothingLost
    <2>3. accepted' = executed' \o Pending(w)'
      BY <1>6, <2>2
    <2>4. access' /\ scheduled' = 0 /\ \A v \in Workers : pc'[v] # "idle" => v = w
      BY <1>6, <2>1
    <2> QED
      BY <2>3, <2>4 DEF NothingLost
  <1>7. ASSUME NEW w \in Workers, SwapRead(w) PROVE NothingLost'
    BY <1>0, <1>6, <1>7 DEF SwapRead, Pending, TypeOK, lists, history
  <1>8. ASSUME NEW w \in Workers, SwapWrite(w) PROVE NothingLost'
    BY <1>0, <1>6, <1>8 DEF SwapWrite, Pending, TypeOK, history
  <1>9. ASSUME NEW w \in Workers, StartFunc(w) PROVE NothingLost'
    <2>1. /\ executed \in Seq(Jobs) /\ waitList \in Seq(Jobs)
          /\ runList[w] \in Seq(Jobs) /\ runList[w] # <<>>
      BY <1>0, <1>9 DEF TypeOK, StartFunc
    <2>2. executed \o (runList[w] \o waitList)
            = Append(executed, Head(runList[w])) \o (Tail(runList[w]) \o waitList)
      BY <2>1, MoveFirst, Zenon
    <2>3. /\ Pending(w) = runList[w] \o waitList
          /\ Pending(w)' = Tail(runList[w]) \o waitList
          /\ executed' = Append(executed, Head(runList[w]))
          /\ pc[w] = "running" /\ pc'[w] = "inside"
          /\ \A v \in Workers : v # w => pc'[v] = pc[v]
          /\ UNCHANGED <<access, scheduled, accepted>>
      BY <1>0, <1>9 DEF StartFunc, Pending, TypeOK, lists
    <2> QED
      BY <1>6, <2>2, <2>3
  <1>10. ASSUME NEW w \in Workers, EndFunc(w) PROVE NothingLost'
    BY <1>0, <1>6, <1>10 DEF EndFunc, Pending, TypeOK, lists, history
  <1>11. ASSUME NEW w \in Workers, Leave(w) PROVE NothingLost'
    <2>1. /\ access /\ scheduled = 0
          /\ \A v \in Workers : v # w => pc[v] = "idle"
          /\ accessList = <<>>
      BY <1>0, <1>11 DEF Leave, AccessMeansOwned, MutualExclusion, ListsInv
    <2>2. accepted = executed \o (<<>> \o waitList)
      BY <1>0, <1>11, <2>1 DEF Leave, NothingLost, Pending
    <2>3. waitList \in Seq(Jobs) /\ executed \in Seq(Jobs)
      BY <1>0 DEF TypeOK
    <2>4. <<>> \o waitList = waitList /\ waitList \o <<>> = waitList /\ executed \o <<>> = executed
      BY <2>3
    <2>5. /\ waitList' = <<>> /\ accessList' = waitList
          /\ UNCHANGED <<accepted, executed>>
          /\ access' = (waitList # <<>>)
          /\ \A v \in Workers : pc'[v] = "idle"
      BY <1>0, <1>11, <2>1 DEF Leave, TypeOK, history
    <2> QED
      BY <2>2, <2>4, <2>5 DEF NothingLost, Pending
  <1>12. CASE UNCHANGED vars
    BY <1>2, <1>12 DEF vars
  <1> QED
    BY <1>3, <1>4, <1>5, <1>7, <1>8, <1>9, <1>10, <1>11, <1>12 DEF Next, DoComplete

LEMMA CancelStep ==
    Inv /\ [Next]_vars => CancelInv'
  <1> SUFFICES ASSUME TypeOK, CancelInv, [Next]_vars PROVE CancelInv'
    BY DEF Inv, UnitInv
  <1> USE DEF TypeOK, CancelInv
  <1>1. ASSUME NEW func \in Funcs, Post(func) PROVE CancelInv'
    <2>1. CASE cancelFlag
      BY <1>1, <2>1 DEF Post
    <2>2. CASE ~cancelFlag
      <3>1. func \notin Callbacks
        BY SafeUnitAssumption
      <3>2. accepted' = Append(accepted, func)
        BY <1>1, <2>2 DEF Post, PostWithoutLock
      <3>3. \A i \in 1 .. Len(accepted) : accepted[i] \notin Callbacks
        BY <2>2
      <3>4. /\ Len(accepted') = Len(accepted) + 1
            /\ \A i \in 1 .. Len(accepted) : accepted'[i] = accepted[i]
            /\ accepted'[Len(accepted) + 1] = func
        BY <3>2
      <3>5. ASSUME NEW i \in 1 .. Len(accepted') PROVE accepted'[i] \notin Callbacks
        <4>1. accepted \in Seq(Jobs) /\ Len(accepted) \in Nat
          OBVIOUS
        <4>2. i \in 1 .. Len(accepted) \/ i = Len(accepted) + 1
          BY <3>4, <3>5, <4>1
        <4> QED
          BY <3>1, <3>3, <3>4, <4>2
      <3> QED
        BY <3>5
    <2> QED
      BY <2>1, <2>2
  <1>2. ASSUME NEW callback \in Callbacks, CancelUnits(callback) PROVE CancelInv'
    <2>1. CASE cancelFlag
      BY <1>2, <2>1 DEF CancelUnits
    <2>2. CASE ~cancelFlag
      <3>1. accepted' = Append(accepted, callback) /\ cancelFlag' = TRUE
        BY <1>2, <2>2 DEF CancelUnits, PostWithoutLock
      <3>2. \A i \in 1 .. Len(accepted) : accepted[i] \notin Callbacks
        BY <2>2
      <3>3. /\ Len(accepted') = Len(accepted) + 1
            /\ \A i \in 1 .. Len(accepted) : accepted'[i] = accepted[i]
        BY <3>1
      <3> QED
        BY <3>1, <3>2, <3>3
    <2> QED
      BY <2>1, <2>2
  <1>3. ASSUME UNCHANGED <<accepted, cancelFlag>> PROVE CancelInv'
    BY <1>3
  <1>4. ASSUME NEW w \in Workers, Take(w) \/ DoComplete(w) PROVE CancelInv'
    BY <1>3, <1>4 DEF Take, DoComplete, SwapRead, SwapWrite, StartFunc, EndFunc, Leave, history
  <1>5. CASE UNCHANGED vars
    BY <1>3, <1>5 DEF vars, history
  <1> QED
    BY <1>1, <1>2, <1>4, <1>5 DEF Next

-----------------------------------------------------------------------------
(* The theorems.                                                           *)

LEMMA InvInit ==
    Init => Inv
  <1> SUFFICES ASSUME Init PROVE Inv
    OBVIOUS
  <1>1. TypeOK
    <2>1. access \in BOOLEAN /\ cancelFlag \in BOOLEAN
      BY DEF Init
    <2> QED
      BY <2>1 DEF Init, TypeOK, Places
  <1>2. UnitInv
    BY DEF Init, UnitInv, MutualExclusion, AccessMeansOwned, NothingLost, ListsInv, CancelInv
  <1> QED
    BY <1>1, <1>2 DEF Inv

LEMMA Invariance ==
    Spec => []Inv
  <1>1. Inv /\ [Next]_vars => Inv'
    BY TypeStep, OwnStep, ListsStep, LostStep, CancelStep DEF Inv, UnitInv
  <1> QED
    BY <1>1, InvInit, PTL DEF Spec

\* Every variable keeps its type.
THEOREM TypeCorrect == Spec => []TypeOK
  BY Invariance, PTL DEF Inv

\* The inductive invariant: who holds the unit, and that between them the
\* lists and the workers hold exactly the functions accepted and not started,
\* in order (scheduler_safe_unit.cpp:13-61).
THEOREM UnitInvariant == Spec => []UnitInv
  BY Invariance, PTL DEF Inv

\* No two workers are in doComplete of one unit, however many there are.
THEOREM Exclusive == Spec => []MutualExclusion
  BY Invariance, PTL DEF Inv, UnitInv

\* The unit is in the scheduler's list at most once, and if and only if it is
\* owned and no worker has it.
THEOREM OwnedOnce == Spec => []AccessMeansOwned
  BY Invariance, PTL DEF Inv, UnitInv

\* accessList is left alone by all other threads while doComplete swaps it
\* without the lock.
THEOREM SwapIsSafe == Spec => UnlockedSwapIsPrivate
  <1>1. Inv /\ [Next]_vars =>
          [\A w \in Workers :
              pc[w] \in {"taken", "swapping"} /\ pc'[w] = pc[w] => accessList' = accessList]_vars
    <2> SUFFICES ASSUME TypeOK, MutualExclusion, AccessMeansOwned, Next,
                        NEW w \in Workers, pc[w] \in {"taken", "swapping"}, pc'[w] = pc[w]
                 PROVE accessList' = accessList
      BY DEF Inv, UnitInv
    <2>1. access
      BY DEF AccessMeansOwned
    <2>2. ASSUME NEW func \in Funcs, Post(func) PROVE accessList' = accessList
      BY <2>1, <2>2 DEF Post, PostWithoutLock, lists
    <2>3. ASSUME NEW callback \in Callbacks, CancelUnits(callback)
          PROVE accessList' = accessList
      BY <2>1, <2>3 DEF CancelUnits, PostWithoutLock, lists
    <2>4. ASSUME NEW v \in Workers, DoComplete(v) PROVE accessList' = accessList
      <3>1. v = w
        BY <2>4 DEF MutualExclusion, DoComplete, SwapRead, SwapWrite, StartFunc, EndFunc, Leave
      <3> QED
        BY <2>4, <3>1 DEF TypeOK, DoComplete, SwapRead, SwapWrite, StartFunc, EndFunc, Leave
    <2>5. ASSUME NEW v \in Workers, Take(v) PROVE accessList' = accessList
      BY <2>5 DEF Take, lists
    <2> QED
      BY <2>2, <2>3, <2>4, <2>5 DEF Next
  <1> QED
    BY <1>1, Invariance, PTL DEF Spec, UnlockedSwapIsPrivate

-----------------------------------------------------------------------------
(* Refinement.                                                             *)

\* A worker that starts a function starts the first accepted one that has not
\* been started.
LEMMA StartsNext ==
    ASSUME Inv, NEW w \in Workers, StartFunc(w)
    PROVE  /\ executed' = Append(executed, accepted[Len(executed) + 1])
           /\ Len(executed) < Len(accepted)
           /\ \A v \in Workers : pc[v] # "inside"
           /\ pc'[w] = "inside"
           /\ UNCHANGED <<accepted, cancelFlag>>
  <1>1. TypeOK /\ MutualExclusion /\ AccessMeansOwned /\ NothingLost
    BY DEF Inv, UnitInv
  <1>2. /\ executed \in Seq(Jobs) /\ waitList \in Seq(Jobs)
        /\ runList[w] \in Seq(Jobs) /\ runList[w] # <<>>
    BY <1>1 DEF TypeOK, StartFunc
  <1>3. accepted = executed \o (runList[w] \o waitList)
    BY <1>1 DEF StartFunc, AccessMeansOwned, NothingLost, Pending
  <1>4. /\ Len(executed) < Len(executed \o (runList[w] \o waitList))
        /\ (executed \o (runList[w] \o waitList))[Len(executed) + 1] = Head(runList[w])
    BY <1>2, MoveFirst, Zenon
  <1>5. Len(executed) < Len(accepted) /\ accepted[Len(executed) + 1] = Head(runList[w])
    BY <1>3, <1>4, Zenon
  <1>6. executed' = Append(executed, Head(runList[w])) /\ UNCHANGED <<accepted, cancelFlag>>
    BY DEF StartFunc
  <1>7. /\ \A v \in Workers : pc[v] # "inside"
        /\ pc'[w] = "inside"
    BY <1>1 DEF StartFunc, MutualExclusion, TypeOK
  <1> QED
    BY <1>5, <1>6, <1>7, Zenon

LEMMA StrandStep ==
    Inv /\ [Next]_vars => [Strand!Next]_Strand!vars
  <1> SUFFICES ASSUME Inv, [Next]_vars PROVE [Strand!Next]_Strand!vars
    OBVIOUS
  <1> DEFINE busy == \E w \in Workers : pc[w] = "inside"
  <1>0. TypeOK /\ MutualExclusion
    BY DEF Inv, UnitInv
  <1>1. ASSUME UNCHANGED <<accepted, executed, cancelFlag>>, busy' = busy
        PROVE [Strand!Next]_Strand!vars
    BY <1>1 DEF Strand!vars
  <1>2. ASSUME UNCHANGED <<pc, runList>> PROVE busy' = busy
    BY <1>2
  <1>3. ASSUME NEW func \in Funcs, Post(func) PROVE [Strand!Next]_Strand!vars
    <2>1. CASE cancelFlag
      BY <1>1, <1>2, <1>3, <2>1 DEF Post, locals
    <2>2. CASE ~cancelFlag
      <3>1. /\ accepted' = Append(accepted, func)
            /\ UNCHANGED cancelFlag /\ func \notin Callbacks /\ func \in Jobs
            /\ UNCHANGED <<executed, pc, runList>>
        BY <1>3, <2>2, SafeUnitAssumption DEF Post, PostWithoutLock, locals, Jobs
      <3>2. Strand!Accept(func)
        BY <1>2, <2>2, <3>1 DEF Strand!Accept
      <3> QED
        BY <3>1, <3>2 DEF Strand!Next
    <2> QED
      BY <2>1, <2>2
  <1>4. ASSUME NEW callback \in Callbacks, CancelUnits(callback)
        PROVE [Strand!Next]_Strand!vars
    <2>1. CASE cancelFlag
      <3>1. UNCHANGED <<accepted, executed, cancelFlag, pc, runList>>
        BY <1>0, <1>4, <2>1 DEF CancelUnits, locals, TypeOK
      <3> QED
        BY <1>1, <1>2, <3>1
    <2>2. CASE ~cancelFlag
      <3>1. /\ accepted' = Append(accepted, callback)
            /\ cancelFlag' = TRUE /\ callback \in Jobs
            /\ UNCHANGED <<executed, pc, runList>>
        BY <1>4, <2>2 DEF CancelUnits, PostWithoutLock, locals, Jobs
      <3>2. Strand!Accept(callback)
        BY <1>2, <2>2, <3>1 DEF Strand!Accept
      <3> QED
        BY <3>1, <3>2 DEF Strand!Next
    <2> QED
      BY <2>1, <2>2
  <1>5. ASSUME NEW w \in Workers,
               Take(w) \/ SwapRead(w) \/ SwapWrite(w) \/ Leave(w)
        PROVE [Strand!Next]_Strand!vars
    <2>1. /\ UNCHANGED <<accepted, executed, cancelFlag>>
          /\ \A v \in Workers : pc'[v] = "inside" <=> pc[v] = "inside"
      BY <1>0, <1>5 DEF Take, SwapRead, SwapWrite, Leave, history, TypeOK
    <2> QED
      BY <1>1, <2>1
  <1>6. ASSUME NEW w \in Workers, StartFunc(w) PROVE [Strand!Next]_Strand!vars
    <2>1. ~busy /\ busy'
      BY <1>6, StartsNext
    <2>2. Strand!Start
      BY <1>6, <2>1, StartsNext DEF Strand!Start
    <2> QED
      BY <2>2 DEF Strand!Next
  <1>7. ASSUME NEW w \in Workers, EndFunc(w) PROVE [Strand!Next]_Strand!vars
    <2>1. /\ pc[w] = "inside"
          /\ \A v \in Workers : pc'[v] # "inside"
          /\ UNCHANGED <<accepted, executed, cancelFlag>>
      BY <1>0, <1>7 DEF EndFunc, MutualExclusion, TypeOK, history
    <2>2. Strand!Finish
      BY <2>1 DEF Strand!Finish
    <2> QED
      BY <2>2 DEF Strand!Next
  <1>8. CASE UNCHANGED vars
    BY <1>1, <1>2, <1>8 DEF vars, locals, history
  <1> QED
    BY <1>3, <1>4, <1>5, <1>6, <1>7, <1>8 DEF Next, DoComplete

\* SchdelerSafeUnit is a strand: it executes what it accepts one at a time,
\* once, in order, and nothing after the callback of cancelUnits.
THEOREM UnitIsStrand == Spec => ImplementsStrand
  <1>1. Init => Strand!Init
    BY DEF Init, Strand!Init
  <1>2. Inv /\ [Next]_vars => [Strand!Next]_Strand!vars
    BY StrandStep
  <1> QED
    BY <1>1, <1>2, Invariance, PTL DEF Spec, ImplementsStrand, Strand!Spec

\* Once the callback of cancelUnits has started, nothing is accepted and
\* nothing is started any more.
THEOREM CallbackIsLast == Spec => CancelIsLast
  <1>1. Inv /\ [Next]_vars =>
          [\A i \in 1 .. Len(executed) : executed[i] \in Callbacks => UNCHANGED history]_vars
    <2> SUFFICES ASSUME Inv, Next, NEW i \in 1 .. Len(executed), executed[i] \in Callbacks
                 PROVE UNCHANGED history
      OBVIOUS
    <2>1. TypeOK /\ CancelInv /\ NothingLost /\ AccessMeansOwned
      BY DEF Inv, UnitInv
    <2>2. /\ Len(executed) <= Len(accepted)
          /\ \A j \in 1 .. Len(executed) : executed[j] = accepted[j]
      <3>1. CASE ~access
        BY <2>1, <3>1 DEF NothingLost, TypeOK
      <3>2. CASE access
        <4>1. PICK w \in Workers : pc[w] # "idle" \/ scheduled = 1
          BY <2>1, <3>2, SafeUnitAssumption DEF AccessMeansOwned
        <4>2. accepted = executed \o Pending(w)
          BY <2>1, <3>2, <4>1 DEF NothingLost
        <4>3. pc[w] = "inside" => Tail(runList[w]) \in Seq(Jobs)
          BY DEF Inv, UnitInv, ListsInv, TypeOK
        <4>4. Pending(w) \in Seq(Jobs)
          BY <2>1, <4>3 DEF Pending, TypeOK
        <4> DEFINE s == Pending(w)
        <4>5. s \in Seq(Jobs) /\ executed \in Seq(Jobs) /\ accepted = executed \o s
          BY <2>1, <4>2, <4>4 DEF TypeOK
        <4> HIDE DEF s
        <4> QED
          BY <4>5
      <3> QED
        BY <3>1, <3>2
    <2>3. cancelFlag /\ Len(executed) = Len(accepted)
      BY <2>1, <2>2 DEF CancelInv, TypeOK
    <2>4. ASSUME NEW func \in Funcs, Post(func) PROVE UNCHANGED history
      BY <2>3, <2>4 DEF Post, history
    <2>5. ASSUME NEW callback \in Callbacks, CancelUnits(callback) PROVE UNCHANGED history
      BY <2>3, <2>5 DEF CancelUnits, history
    <2>6. ASSUME NEW w \in Workers, StartFunc(w) PROVE UNCHANGED history
      <3>1. Len(executed) < Len(accepted)
        BY <2>6, StartsNext, Zenon
      <3>2. Len(executed) \in Nat
        BY <2>1 DEF TypeOK
      <3> QED
        BY <2>3, <3>1, <3>2
    <2>7. ASSUME NEW w \in Workers, Take(w) \/ SwapRead(w) \/ SwapWrite(w) \/ EndFunc(w) \/ Leave(w)
          PROVE UNCHANGED history
      BY <2>7 DEF Take, SwapRead, SwapWrite, EndFunc, Leave, history
    <2> QED
      BY <2>4, <2>5, <2>6, <2>7 DEF Next, DoComplete
  <1> QED
    BY <1>1, Invariance, PTL DEF Spec, CancelIsLast


-----------------------------------------------------------------------------
(* The manager, whose threads run the unit (module DBManager).             *)

\* What the assumptions say of the case of init that was chosen.
LEMMA SetupTypes ==
    ASSUME setup \in DOMAIN Setups
    PROVE  /\ Args.threadCount \in Nat /\ Args.connMaxCount \in Nat
           /\ \A t \in DOMAIN Args.columns : Args.columns[t] \in Seq(SUBSET STRING)
           /\ Args.tables \in Seq([table : DOMAIN Args.columns, where : STRING])
           /\ \A i, j \in 1 .. Len(Args.tables) :
                 Args.tables[i].table = Args.tables[j].table => i = j
           /\ Thrown \notin Args.params
  BY SetupAssumption, Zenon DEF Args

\* A step of the manager is a step of the unit, or leaves the unit alone.
LEMMA ManagerStep == [DBNext]_dbVars => [Next]_vars
  <1> SUFFICES ASSUME DBNext PROVE [Next]_vars
    BY DEF dbVars
  <1>1. CASE Main
    BY <1>1 DEF Main, InitPool, CreateThreads, LoadTable, InitReturns, StopScheduler,
                JoinReturns, ClosePool
  <1>2. CASE PostUnit
    BY <1>2 DEF PostUnit, Next
  <1>3. ASSUME NEW task \in Tasks, PostDBTask(task) PROVE UNCHANGED vars
    BY <1>3 DEF PostDBTask
  <1>4. ASSUME NEW w \in Workers, Work(w) PROVE [Next]_vars
    <2>1. CASE TakeUnit(w)
      BY <2>1 DEF TakeUnit, Next
    <2>2. CASE TakeTask(w) \/ FindNothing(w) \/ WakeUp(w) \/ EndTask(w)
      BY <2>2 DEF TakeTask, FindNothing, WakeUp, EndTask
    <2>3. CASE RunUnit(w)
      BY <2>3 DEF RunUnit, Next, DoComplete
    <2>4. CASE CallPool(w)
      BY <2>4 DEF CallPool, GetConnection, Exec, ExecFunc, ExecPrepared
    <2> QED
      BY <1>4, <2>1, <2>2, <2>3, <2>4 DEF Work
  <1>5. CASE Reap
    BY <1>5 DEF Reap
  <1> QED
    BY <1>1, <1>2, <1>3, <1>4, <1>5 DEF DBNext

LEMMA UnitInManager == DBSpec => Spec
  <1>1. DBInit => Init
    BY DEF DBInit
  <1> QED
    BY <1>1, ManagerStep, PTL DEF DBSpec, Spec

\* The unit's invariant holds on the manager's threads.
LEMMA UnitInvInManager == DBSpec => []Inv
  BY UnitInManager, Invariance, PTL

\* What each group of actions leaves alone.
LEMMA Frames ==
    /\ Main => UNCHANGED <<vars, setup, workList, body, database, ended>>
    /\ PostUnit => UNCHANGED <<manager, work, workers, database, ended, crashed>>
    /\ \A task \in Tasks :
          PostDBTask(task) => UNCHANGED <<vars, manager, work, workers, database, ended, crashed>>
    /\ \A w \in Workers :
          /\ TakeUnit(w) \/ TakeTask(w) \/ FindNothing(w) \/ WakeUp(w) \/ RunUnit(w) \/ EndTask(w)
                => UNCHANGED <<manager, work, database, crashed>>
          /\ CallPool(w) => UNCHANGED <<vars, manager, work, workList, at, ended>>
    /\ Reap => UNCHANGED <<vars, manager, work, workList, workers, active, ended, crashed>>
  <1>1. Main => UNCHANGED <<vars, setup, workList, body, database, ended>>
    BY DEF Main, InitPool, CreateThreads, LoadTable, InitReturns, StopScheduler, JoinReturns,
           ClosePool, workers
  <1>2. PostUnit => UNCHANGED <<manager, work, workers, database, ended, crashed>>
    BY DEF PostUnit
  <1>3. ASSUME NEW task \in Tasks
        PROVE  PostDBTask(task) =>
                  UNCHANGED <<vars, manager, work, workers, database, ended, crashed>>
    BY DEF PostDBTask
  <1>4. ASSUME NEW w \in Workers
        PROVE  /\ TakeUnit(w) \/ TakeTask(w) \/ FindNothing(w) \/ WakeUp(w) \/ RunUnit(w) \/ EndTask(w)
                     => UNCHANGED <<manager, work, database, crashed>>
               /\ CallPool(w) => UNCHANGED <<vars, manager, work, workList, at, ended>>
    <2>1. TakeUnit(w) \/ TakeTask(w) \/ FindNothing(w) \/ WakeUp(w) \/ RunUnit(w) \/ EndTask(w)
             => UNCHANGED <<manager, work, database, crashed>>
      BY DEF TakeUnit, TakeTask, FindNothing, WakeUp, RunUnit, EndTask
    <2>2. CallPool(w) => UNCHANGED <<vars, manager, work, workList, at, ended>>
      BY DEF CallPool, GetConnection, Exec, ExecFunc, ExecPrepared
    <2> QED
      BY <2>1, <2>2
  <1>5. Reap => UNCHANGED <<vars, manager, work, workList, workers, active, ended, crashed>>
    BY DEF Reap
  <1> QED
    BY <1>1, <1>2, <1>3, <1>4, <1>5

\* What the unit's worker steps do to the counter and to the places.
LEMMA UnitSteps ==
    ASSUME TypeOK, NEW w \in Workers
    PROVE  /\ Take(w) => /\ pc[w] = "idle" /\ pc' = [pc EXCEPT ![w] = "taken"]
                         /\ scheduled > 0 /\ scheduled' = scheduled - 1
           /\ SwapRead(w) => pc[w] = "taken" /\ pc' = [pc EXCEPT ![w] = "swapping"] /\ scheduled' = scheduled
           /\ SwapWrite(w) => pc[w] = "swapping" /\ pc' = [pc EXCEPT ![w] = "running"] /\ scheduled' = scheduled
           /\ StartFunc(w) => pc[w] = "running" /\ pc' = [pc EXCEPT ![w] = "inside"] /\ scheduled' = scheduled
           /\ EndFunc(w) => pc[w] = "inside" /\ pc' = [pc EXCEPT ![w] = "running"] /\ scheduled' = scheduled
           /\ Leave(w) => /\ pc[w] = "running" /\ pc' = [pc EXCEPT ![w] = "idle"]
                          /\ scheduled' = scheduled \/ scheduled' = scheduled + 1
  BY DEF Take, SwapRead, SwapWrite, StartFunc, EndFunc, Leave

LEMMA PostSteps ==
    ASSUME (\E func \in Funcs : Post(func)) \/ (\E callback \in Callbacks : CancelUnits(callback))
    PROVE  pc' = pc /\ (scheduled' = scheduled \/ scheduled' = scheduled + 1)
  BY DEF Post, CancelUnits, PostWithoutLock, locals


\* The parts of an invariant's step that every lemma below starts from.
Before == ManagerInv /\ Inv
After  == Inv'

LEMMA ListedStep == Before /\ After /\ [DBNext]_dbVars => UnitListed'
  <1> SUFFICES ASSUME Before, After, [DBNext]_dbVars PROVE UnitListed'
    OBVIOUS
  <1> DEFINE s == workList
             n == Len(workList)
  <1>1. /\ TypeOK /\ AccessMeansOwned /\ DBTypeOK /\ scheduled \in Nat /\ scheduled <= 1
        /\ s \in Seq(Tasks \cup {Unit}) /\ n \in Nat
    BY LenProperties DEF Before, Inv, UnitInv, AccessMeansOwned, TypeOK, ManagerInv, DBInv, DBTypeOK
  <1>2. scheduled' \in Nat /\ scheduled' <= 1
    BY DEF After, Inv, UnitInv, AccessMeansOwned, TypeOK
  <1>3. /\ scheduled = 1 <=> \E i \in 1 .. n : s[i] = Unit
        /\ \A i, j \in 1 .. n : s[i] = Unit /\ s[j] = Unit => i = j
    BY DEF Before, ManagerInv, UnitListed
  <1>4. ASSUME UNCHANGED <<scheduled, workList>> PROVE UnitListed'
    BY <1>3, <1>4 DEF UnitListed
  <1>5. ASSUME scheduled' = scheduled + 1, workList' = Append(workList, Unit) PROVE UnitListed'
    <2>1. scheduled = 0 /\ scheduled' = 1
      BY <1>1, <1>2, <1>5
    <2>2. /\ Len(workList') = n + 1 /\ workList'[n + 1] = Unit
          /\ \A i \in 1 .. n : workList'[i] = s[i]
      BY <1>1, <1>5, AppendProperties
    <2> QED
      BY <1>1, <1>3, <2>1, <2>2 DEF UnitListed
  <1>6. ASSUME UnitList, scheduled' = scheduled \/ scheduled' = scheduled + 1 PROVE UnitListed'
    <2>1. CASE scheduled' = scheduled
      BY <1>1, <1>4, <1>6, <2>1 DEF UnitList
    <2>2. CASE scheduled' = scheduled + 1
      BY <1>1, <1>5, <1>6, <2>2 DEF UnitList
    <2> QED
      BY <1>6, <2>1, <2>2
  <1>7. ASSUME s # <<>> PROVE /\ Head(s) = s[1] /\ Len(Tail(s)) = n - 1 /\ n \in Nat \ {0}
                              /\ \A i \in 1 .. n - 1 : Tail(s)[i] = s[i + 1]
    BY <1>1, <1>7, HeadTailProperties, EmptySeq
  <1>8. UNCHANGED vars => UNCHANGED scheduled
    BY DEF vars
  <1>9. CASE Main \/ Reap \/ \E w \in Workers : CallPool(w)
    BY <1>4, <1>8, <1>9, Frames
  <1>10. CASE PostUnit
    BY <1>6, <1>10, PostSteps DEF PostUnit
  <1>11. ASSUME NEW task \in Tasks, PostDBTask(task) PROVE UnitListed'
    <2>1. workList' = Append(workList, task) /\ scheduled' = scheduled /\ task # Unit
      BY <1>8, <1>11, DatabaseAssumption DEF PostDBTask, Unit
    <2>2. /\ Len(workList') = n + 1 /\ workList'[n + 1] = task
          /\ \A i \in 1 .. n : workList'[i] = s[i]
      BY <1>1, <2>1, AppendProperties
    <2> QED
      BY <1>1, <1>3, <2>1, <2>2 DEF UnitListed
  <1>12. ASSUME NEW w \in Workers, TakeUnit(w) PROVE UnitListed'
    <2>1. /\ s # <<>> /\ Head(s) = Unit /\ workList' = Tail(s)
          /\ scheduled > 0 /\ scheduled' = scheduled - 1
      BY <1>1, <1>12, UnitSteps DEF TakeUnit
    <2>2. scheduled' = 0 /\ s[1] = Unit
      BY <1>1, <1>7, <2>1
    <2>3. ASSUME NEW i \in 1 .. Len(workList') PROVE workList'[i] # Unit
      <3>1. i \in 1 .. n - 1 /\ workList'[i] = s[i + 1]
        BY <1>7, <2>1
      <3>2. 1 \in 1 .. n /\ i + 1 \in 1 .. n /\ i + 1 # 1
        BY <1>7, <2>1, <3>1
      <3> QED
        BY <1>3, <2>2, <3>1, <3>2
    <2> QED
      BY <2>2, <2>3 DEF UnitListed
  <1>13. ASSUME NEW w \in Workers, TakeTask(w) PROVE UnitListed'
    <2>1. s # <<>> /\ Head(s) # Unit /\ workList' = Tail(s) /\ scheduled' = scheduled
      BY <1>8, <1>13 DEF TakeTask
    <2>2. /\ Len(workList') = n - 1 /\ n \in Nat \ {0} /\ s[1] # Unit
          /\ \A i \in 1 .. n - 1 : workList'[i] = s[i + 1]
      BY <1>7, <2>1
    <2>3. (\E i \in 1 .. n : s[i] = Unit) <=> \E i \in 1 .. n - 1 : workList'[i] = Unit
      <3>1. ASSUME NEW i \in 1 .. n, s[i] = Unit PROVE i - 1 \in 1 .. n - 1 /\ workList'[i - 1] = Unit
        BY <2>2, <3>1
      <3>2. ASSUME NEW i \in 1 .. n - 1, workList'[i] = Unit PROVE i + 1 \in 1 .. n /\ s[i + 1] = Unit
        BY <2>2, <3>2
      <3> QED
        BY <3>1, <3>2
    <2>4. ASSUME NEW i \in 1 .. n - 1, NEW j \in 1 .. n - 1, workList'[i] = Unit, workList'[j] = Unit
          PROVE  i = j
      <3>1. i + 1 \in 1 .. n /\ j + 1 \in 1 .. n /\ s[i + 1] = Unit /\ s[j + 1] = Unit
        BY <2>2, <2>4
      <3>2. i + 1 = j + 1
        BY <1>3, <3>1
      <3> QED
        BY <3>2
    <2> QED
      BY <1>3, <2>1, <2>2, <2>3, <2>4 DEF UnitListed
  <1>14. ASSUME NEW w \in Workers, FindNothing(w) \/ WakeUp(w) \/ EndTask(w) PROVE UnitListed'
    BY <1>4, <1>8, <1>14 DEF FindNothing, WakeUp, EndTask
  <1>15. ASSUME NEW w \in Workers, RunUnit(w) PROVE UnitListed'
    BY <1>1, <1>6, <1>15, UnitSteps DEF RunUnit
  <1>16. CASE UNCHANGED dbVars
    BY <1>4, <1>8, <1>16 DEF dbVars
  <1> QED
    BY <1>9, <1>10, <1>11, <1>12, <1>13, <1>14, <1>15, <1>16 DEF DBNext, Work

LEMMA AgreeStep == Before /\ After /\ [DBNext]_dbVars => WorkersAgree'
  <1> SUFFICES ASSUME Before, After, [DBNext]_dbVars PROVE WorkersAgree'
    OBVIOUS
  <1>1. /\ TypeOK /\ MutualExclusion /\ DBTypeOK
        /\ pc \in [Workers -> Places] /\ at \in [Workers -> {"absent", "get", "asleep", "exited", Unit} \cup Tasks]
        /\ body \in [Workers -> Bodies]
    BY DEF Before, Inv, UnitInv, TypeOK, ManagerInv, DBInv, DBTypeOK
  <1>2. /\ WorkersAgree /\ NobodyAtWork
        /\ \A w \in Workers : /\ at[w] = Unit <=> pc[w] # "idle"
                              /\ body[w] # "none" <=> at[w] \in Tasks \/ pc[w] = "inside"
    BY DEF Before, ManagerInv, WorkersAgree
  <1>3. /\ Unit \notin Tasks /\ Unit \notin {"absent", "get", "asleep", "exited"}
        /\ {"absent", "get", "asleep", "exited"} \cap Tasks = {}
    BY DatabaseAssumption DEF Unit
  <1>4. UNCHANGED vars => UNCHANGED pc
    BY DEF vars, locals
  <1>5. ASSUME UNCHANGED <<pc, at>>,
               \A w \in Workers : body'[w] # "none" <=> body[w] # "none"
        PROVE  WorkersAgree'
    BY <1>2, <1>5 DEF WorkersAgree
  <1>6. CASE Main
    <2>1. UNCHANGED <<pc, body>>
      BY <1>4, <1>6, Frames
    <2>2. CASE CreateThreads
      <3>1. \A w \in Workers : at[w] \in {"absent", "exited"} /\ at'[w] \in {"absent", "get"}
        BY <1>2, <2>2 DEF CreateThreads, NobodyAtWork
      <3>2. \A w \in Workers : at[w] # Unit /\ at'[w] # Unit /\ at[w] \notin Tasks /\ at'[w] \notin Tasks
        BY <1>3, <3>1
      <3> QED
        BY <1>2, <2>1, <3>2 DEF WorkersAgree
    <2>3. CASE ~CreateThreads
      <3>1. UNCHANGED at
        BY <1>6, <2>3 DEF Main, InitPool, LoadTable, InitReturns, StopScheduler, JoinReturns,
                          ClosePool, workers
      <3> QED
        BY <1>5, <2>1, <3>1
    <2> QED
      BY <2>2, <2>3
  <1>7. CASE PostUnit
    <2>1. UNCHANGED <<pc, at, body>>
      BY <1>7, PostSteps, Frames DEF PostUnit, workers
    <2> QED
      BY <1>5, <2>1
  <1>8. ASSUME NEW task \in Tasks, PostDBTask(task) PROVE WorkersAgree'
    BY <1>4, <1>5, <1>8, Frames DEF workers
  <1>9. CASE Reap
    BY <1>4, <1>5, <1>9, Frames DEF workers
  <1>10. CASE UNCHANGED dbVars
    BY <1>4, <1>5, <1>10 DEF dbVars, workers
  <1>11. ASSUME NEW w \in Workers, CallPool(w) PROVE WorkersAgree'
    <2>1. UNCHANGED <<pc, at>>
      BY <1>4, <1>11, Frames
    <2>2. body[w] # "none" /\ (body' = body \/ body' = [body EXCEPT ![w] = "holding"]
                                            \/ body' = [body EXCEPT ![w] = "done"])
      <3>1. CASE GetConnection(w)
        BY <3>1 DEF GetConnection
      <3>2. CASE Exec(w) \/ ExecFunc(w)
        BY <3>2 DEF Exec, ExecFunc, GiveBack
      <3>3. CASE ExecPrepared(w)
        BY <3>3 DEF ExecPrepared, GiveBack
      <3> QED
        BY <1>11, <3>1, <3>2, <3>3 DEF CallPool
    <2> QED
      BY <1>1, <1>5, <2>1, <2>2
  <1>12. ASSUME NEW w \in Workers,
                \A v \in Workers : v # w => /\ pc'[v] = pc[v] /\ at'[v] = at[v]
                                            /\ body'[v] = body[v],
                /\ at'[w] = Unit <=> pc'[w] # "idle"
                /\ body'[w] # "none" <=> at'[w] \in Tasks \/ pc'[w] = "inside"
         PROVE  WorkersAgree'
    <2> SUFFICES ASSUME NEW v \in Workers
                 PROVE  /\ at'[v] = Unit <=> pc'[v] # "idle"
                        /\ body'[v] # "none" <=> at'[v] \in Tasks \/ pc'[v] = "inside"
      BY DEF WorkersAgree
    <2> QED
      BY <1>2, <1>12
  <1>13. ASSUME NEW w \in Workers, TakeUnit(w) PROVE WorkersAgree'
    <2>1. /\ pc' = [pc EXCEPT ![w] = "taken"] /\ at' = [at EXCEPT ![w] = Unit] /\ body' = body
          /\ at[w] = "get"
      BY <1>1, <1>13, UnitSteps DEF TakeUnit, Moves
    <2>2. body[w] = "none"
      BY <1>2, <1>3, <2>1
    <2> QED
      BY <1>1, <1>3, <1>12, <2>1, <2>2
  <1>14. ASSUME NEW w \in Workers, TakeTask(w) PROVE WorkersAgree'
    <2>1. /\ pc' = pc /\ at' = [at EXCEPT ![w] = Head(workList)] /\ body' = [body EXCEPT ![w] = "call"]
          /\ at[w] = "get" /\ workList # <<>> /\ Head(workList) # Unit
      BY <1>4, <1>14 DEF TakeTask, Moves
    <2>2. Head(workList) \in Tasks
      BY <1>1, <2>1, HeadTailProperties DEF DBTypeOK
    <2>3. pc[w] = "idle"
      BY <1>2, <1>3, <2>1
    <2> QED
      BY <1>1, <1>3, <1>12, <2>1, <2>2, <2>3
  <1>15. ASSUME NEW w \in Workers, FindNothing(w) \/ WakeUp(w) PROVE WorkersAgree'
    <2>1. /\ pc' = pc /\ body' = body /\ at[w] \in {"get", "asleep"}
          /\ \E p \in {"get", "asleep", "exited"} : at' = [at EXCEPT ![w] = p]
      BY <1>4, <1>15 DEF FindNothing, WakeUp, Moves, NextTurn
    <2>2. pc[w] = "idle" /\ body[w] = "none"
      BY <1>2, <1>3, <2>1
    <2> QED
      BY <1>1, <1>3, <1>12, <2>1, <2>2
  <1>16. ASSUME NEW w \in Workers, EndTask(w) PROVE WorkersAgree'
    <2>1. /\ pc' = pc /\ body' = [body EXCEPT ![w] = "none"] /\ at[w] \in Tasks
          /\ \E p \in {"get", "exited"} : at' = [at EXCEPT ![w] = p]
      BY <1>4, <1>16 DEF EndTask, Moves, NextTurn
    <2>2. pc[w] = "idle"
      BY <1>1, <1>2, <1>3, <2>1
    <2> QED
      BY <1>1, <1>3, <1>12, <2>1, <2>2
  <1>17. ASSUME NEW w \in Workers, RunUnit(w) PROVE WorkersAgree'
    <2>1. CASE SwapRead(w) \/ SwapWrite(w)
      <3>1. /\ pc[w] \in {"taken", "swapping"} /\ UNCHANGED <<body, at>>
            /\ \E p \in {"swapping", "running"} : pc' = [pc EXCEPT ![w] = p]
        BY <1>1, <1>17, <2>1, UnitSteps DEF RunUnit
      <3> QED
        BY <1>1, <1>2, <1>3, <1>12, <3>1
    <2>2. CASE StartFunc(w)
      <3>1. /\ pc[w] = "running" /\ pc' = [pc EXCEPT ![w] = "inside"] /\ UNCHANGED at
            /\ \E b \in {"call", "done"} : body' = [body EXCEPT ![w] = b]
        BY <1>1, <1>17, <2>2, UnitSteps DEF RunUnit
      <3> QED
        BY <1>1, <1>2, <1>3, <1>12, <3>1
    <2>3. CASE EndFunc(w)
      <3>1. /\ pc[w] = "inside" /\ pc' = [pc EXCEPT ![w] = "running"] /\ UNCHANGED at
            /\ body' = [body EXCEPT ![w] = "none"]
        BY <1>1, <1>17, <2>3, UnitSteps DEF RunUnit
      <3> QED
        BY <1>1, <1>2, <1>3, <1>12, <3>1
    <2>4. CASE Leave(w)
      <3>1. /\ pc[w] = "running" /\ pc' = [pc EXCEPT ![w] = "idle"] /\ UNCHANGED body
            /\ \E p \in {"get", "exited"} : at' = [at EXCEPT ![w] = p]
        BY <1>1, <1>17, <2>4, UnitSteps DEF RunUnit, Moves, NextTurn
      <3> QED
        BY <1>1, <1>2, <1>3, <1>12, <3>1
    <2> QED
      BY <1>17, <2>1, <2>2, <2>3, <2>4 DEF RunUnit
  <1> QED
    BY <1>6, <1>7, <1>8, <1>9, <1>10, <1>11, <1>13, <1>14, <1>15, <1>16, <1>17 DEF DBNext, Work


LEMMA ManagerTypeStep == Before /\ [DBNext]_dbVars /\ active' \in Nat => DBTypeOK'
  <1> SUFFICES ASSUME Before, [DBNext]_dbVars, active' \in Nat PROVE DBTypeOK'
    OBVIOUS
  <1>1. TypeOK /\ DBTypeOK /\ CachedInOrder
    BY DEF Before, Inv, ManagerInv, DBInv
  <1>2. setup \in DOMAIN Setups
    BY <1>1 DEF DBTypeOK
  <1>3. /\ phase \in Phases /\ ret \in BOOLEAN /\ work \in BOOLEAN /\ crashed \in BOOLEAN
        /\ pool \in {"null", "up"} /\ connMax \in Nat /\ DOMAIN cache \subseteq DOMAIN Args.columns
    BY <1>1 DEF DBTypeOK
  <1>4. /\ workList \in Seq(Tasks \cup {Unit})
        /\ at \in [Workers -> {"absent", "get", "asleep", "exited", Unit} \cup Tasks]
        /\ body \in [Workers -> Bodies] /\ stuck \in Nat /\ ended \subseteq Tasks
    BY <1>1 DEF DBTypeOK
  <1> DEFINE Places1 == {"absent", "get", "asleep", "exited", Unit} \cup Tasks
             MainType == /\ phase' \in Phases /\ ret' \in BOOLEAN /\ work' \in BOOLEAN
                         /\ crashed' \in BOOLEAN /\ pool' \in {"null", "up"} /\ connMax' \in Nat
                         /\ setup' = setup /\ DOMAIN cache' \subseteq DOMAIN Args.columns
             WorkType == /\ workList' \in Seq(Tasks \cup {Unit}) /\ at' \in [Workers -> Places1]
                         /\ body' \in [Workers -> Bodies] /\ stuck' \in Nat /\ ended' \subseteq Tasks
  <1>5. SUFFICES MainType /\ WorkType
    BY <1>2 DEF DBTypeOK, Args
  <1>6. UNCHANGED <<manager, work, crashed>> => MainType
    BY <1>2, <1>3 DEF manager
  <1>7. UNCHANGED <<workList, workers, stuck, ended>> => WorkType
    BY <1>4 DEF workers
  <1>8. CASE Main
    <2>1. WorkType
      <3>1. CASE CreateThreads
        <4>1. at' \in [Workers -> {"absent", "get"}]
          BY <3>1 DEF CreateThreads
        <4>2. UNCHANGED <<workList, body, stuck, ended>>
          BY <3>1 DEF CreateThreads, database
        <4> QED
          BY <1>4, <4>1, <4>2
      <3>2. CASE ~CreateThreads
        <4>1. UNCHANGED <<workList, workers, stuck, ended>>
          BY <1>8, <3>2 DEF Main, InitPool, LoadTable, InitReturns, StopScheduler, JoinReturns,
                            ClosePool, database
        <4> QED
          BY <1>7, <4>1
      <3> QED
        BY <3>1, <3>2
    <2>2. CASE InitPool
      <3>1. Clamped(Args.connMaxCount, MinConnections) \in Nat
        BY <1>2, SetupTypes, DatabaseAssumption DEF Clamped
      <3> QED
        BY <1>2, <1>3, <2>1, <2>2, <3>1 DEF InitPool, Phases
    <2>3. CASE CreateThreads \/ InitReturns \/ StopScheduler \/ JoinReturns \/ ClosePool
      BY <1>2, <1>3, <2>1, <2>3 DEF CreateThreads, InitReturns, Return, StopScheduler, JoinReturns,
                                    ClosePool, Phases
    <2>4. CASE LoadTable
      <3> DEFINE n == Cardinality(DOMAIN cache) + 1
                 table == Args.tables[n].table
                 columns == Args.columns[table]
      <3>1. /\ n <= Len(Args.tables) /\ UNCHANGED <<setup, pool, connMax, work>>
            /\ UNCHANGED <<phase, ret>> \/ (phase' = "ready" /\ ret' \in BOOLEAN)
            /\ UNCHANGED crashed \/ crashed' = TRUE
            /\ UNCHANGED cache \/ Cache(table, Args.tables[n].where, columns)
        BY <2>4, Zenon DEF LoadTable, Return
      <3>2. n \in 1 .. Len(Args.tables)
        BY <1>1, <3>1, FS_CardinalityType DEF CachedInOrder
      <3>3. table \in DOMAIN Args.columns
        <4>1. Args.tables \in Seq([table : DOMAIN Args.columns, where : STRING])
          BY <1>2, SetupTypes
        <4>2. Args.tables[n] \in [table : DOMAIN Args.columns, where : STRING]
          BY <3>2, <4>1, ElementOfSeq
        <4> QED
          BY <4>2
      <3> HIDE DEF n, table, columns
      <3>4. DOMAIN cache' \subseteq DOMAIN cache \cup {table}
        BY <3>1 DEF Cache
      <3>5. phase' \in Phases /\ ret' \in BOOLEAN /\ crashed' \in BOOLEAN
        BY <1>3, <3>1 DEF Phases
      <3> QED
        BY <1>3, <2>1, <3>1, <3>3, <3>4, <3>5
    <2> QED
      BY <1>8, <2>2, <2>3, <2>4 DEF Main
  <1>9. CASE PostUnit
    <2>1. UNCHANGED <<manager, work, workers, stuck, ended, crashed>>
      BY <1>9, Frames DEF database
    <2>2. workList' \in Seq(Tasks \cup {Unit})
      BY <1>4, <1>9 DEF PostUnit, UnitList
    <2> QED
      BY <1>4, <1>6, <2>1, <2>2 DEF workers
  <1>10. ASSUME NEW task \in Tasks, PostDBTask(task) PROVE MainType /\ WorkType
    <2>1. UNCHANGED <<manager, work, workers, stuck, ended, crashed>>
      BY <1>10, Frames DEF database
    <2>2. workList' \in Seq(Tasks \cup {Unit})
      BY <1>4, <1>10 DEF PostDBTask
    <2> QED
      BY <1>4, <1>6, <2>1, <2>2 DEF workers
  <1>11. ASSUME NEW w \in Workers, TakeUnit(w) \/ TakeTask(w) PROVE MainType /\ WorkType
    <2>1. UNCHANGED <<manager, work, crashed, stuck>>
      BY <1>11, Frames DEF database
    <2>2. workList # <<>> /\ workList' = Tail(workList) /\ ended' = ended
      BY <1>11 DEF TakeUnit, TakeTask
    <2>3. Head(workList) \in Tasks \cup {Unit} /\ Tail(workList) \in Seq(Tasks \cup {Unit})
      BY <1>4, <2>2, HeadTailProperties
    <2>4. /\ \E p \in Tasks \cup {Unit} : at' = [at EXCEPT ![w] = p]
          /\ body' = body \/ body' = [body EXCEPT ![w] = "call"]
      BY <1>11, <2>3 DEF TakeUnit, TakeTask, Moves
    <2>5. at' \in [Workers -> Places1] /\ body' \in [Workers -> Bodies]
      BY <1>4, <2>4 DEF Bodies
    <2> QED
      BY <1>4, <1>6, <2>1, <2>2, <2>3, <2>5
  <1>12. ASSUME NEW w \in Workers, FindNothing(w) \/ WakeUp(w) \/ EndTask(w) \/ RunUnit(w)
         PROVE  MainType /\ WorkType
    <2>1. UNCHANGED <<manager, work, crashed, stuck>>
      BY <1>12, Frames DEF database
    <2>2. workList' = workList \/ workList' = Append(workList, Unit)
      BY <1>12 DEF FindNothing, WakeUp, EndTask, RunUnit, UnitList
    <2>3. ended' \subseteq Tasks
      BY <1>4, <1>12 DEF FindNothing, WakeUp, EndTask, RunUnit
    <2>4. /\ at' = at \/ \E p \in {"get", "asleep", "exited"} : at' = [at EXCEPT ![w] = p]
          /\ body' = body \/ \E b \in {"none", "call", "done"} : body' = [body EXCEPT ![w] = b]
      BY <1>12 DEF FindNothing, WakeUp, EndTask, RunUnit, Moves, NextTurn
    <2>5. at' \in [Workers -> Places1] /\ body' \in [Workers -> Bodies]
      BY <1>4, <2>4 DEF Bodies
    <2>6. workList' \in Seq(Tasks \cup {Unit})
      BY <1>4, <2>2
    <2> QED
      BY <1>4, <1>6, <2>1, <2>3, <2>5, <2>6
  <1>13. ASSUME NEW w \in Workers, CallPool(w) PROVE MainType /\ WorkType
    <2>1. UNCHANGED <<manager, work, workList, at, ended>>
      BY <1>13, Frames
    <2>2. /\ body' = body \/ \E b \in {"holding", "done"} : body' = [body EXCEPT ![w] = b]
          /\ stuck' = stuck \/ stuck' = stuck + 1
          /\ crashed' = crashed \/ crashed' = TRUE
      <3>1. CASE GetConnection(w)
        BY <3>1 DEF GetConnection
      <3>2. CASE Exec(w) \/ ExecFunc(w)
        BY <3>2 DEF Exec, ExecFunc, GiveBack
      <3>3. CASE ExecPrepared(w)
        BY <3>3 DEF ExecPrepared, GiveBack
      <3> QED
        BY <1>13, <3>1, <3>2, <3>3 DEF CallPool
    <2>3. body' \in [Workers -> Bodies] /\ stuck' \in Nat
      BY <1>4, <2>2 DEF Bodies
    <2>4. crashed' \in BOOLEAN
      BY <1>3, <2>2
    <2> QED
      BY <1>2, <1>3, <1>4, <2>1, <2>3, <2>4 DEF manager
  <1>14. CASE Reap
    <2>1. UNCHANGED <<manager, work, workList, workers, ended, crashed>> /\ stuck' = stuck - 1 /\ stuck > 0
      BY <1>14, Frames DEF Reap
    <2> QED
      BY <1>4, <1>6, <2>1 DEF workers
  <1>15. CASE UNCHANGED dbVars
    BY <1>6, <1>7, <1>15 DEF dbVars, database
  <1> QED
    BY <1>8, <1>9, <1>10, <1>11, <1>12, <1>13, <1>14, <1>15 DEF DBNext, Work

LEMMA NobodyStep == Before /\ [DBNext]_dbVars => NobodyAtWork'
  <1> SUFFICES ASSUME Before, [DBNext]_dbVars PROVE NobodyAtWork'
    OBVIOUS
  <1> DEFINE quiet == phase \in {"new", "pool", "stopped"}
  <1>1. /\ quiet => \A w \in Workers : at[w] \in {"absent", "exited"}
        /\ WorkersAgree /\ DBTypeOK
    BY DEF Before, ManagerInv, DBInv, NobodyAtWork
  <1>2. ASSUME UNCHANGED <<phase, at>> PROVE NobodyAtWork'
    BY <1>1, <1>2 DEF NobodyAtWork
  <1>3. CASE Main
    BY <1>1, <1>3 DEF Main, InitPool, CreateThreads, LoadTable, InitReturns, Return, StopScheduler,
                      JoinReturns, ClosePool, NobodyAtWork, workers
  <1>4. CASE PostUnit \/ Reap \/ \E task \in Tasks : PostDBTask(task)
    BY <1>2, <1>4, Frames DEF manager, workers
  <1>5. ASSUME NEW w \in Workers, Work(w) PROVE NobodyAtWork'
    <2>1. UNCHANGED phase
      BY <1>5, Frames DEF manager, Work
    <2>2. CASE at[w] \in {"absent", "exited"}
      <3>1. pc[w] = "idle" /\ body[w] = "none"
        BY <1>1, <2>2, DatabaseAssumption DEF WorkersAgree, Unit
      <3> QED
        BY <1>5, <2>2, <3>1, DatabaseAssumption
           DEF Work, TakeUnit, TakeTask, FindNothing, WakeUp, EndTask, RunUnit, CallPool, GetConnection,
               Exec, ExecFunc, ExecPrepared, SwapRead, SwapWrite, StartFunc, EndFunc, Leave
    <2>3. CASE at[w] \notin {"absent", "exited"}
      BY <1>1, <2>1, <2>3 DEF NobodyAtWork
    <2> QED
      BY <2>2, <2>3
  <1>6. CASE UNCHANGED dbVars
    BY <1>2, <1>6 DEF dbVars, manager, workers
  <1> QED
    BY <1>3, <1>4, <1>5, <1>6 DEF DBNext


Holders == {w \in Workers : body[w] = "holding"}

\* The connections taken are counted, whatever one step does.
LEMMA CountStep ==
    Before /\ [DBNext]_dbVars =>
        active' \in Nat /\ active' = Cardinality(Holders') /\ active' + stuck' <= connMax'
  <1> SUFFICES ASSUME Before, [DBNext]_dbVars
               PROVE  active' \in Nat /\ active' = Cardinality(Holders') /\ active' + stuck' <= connMax'
    OBVIOUS
  <1>1. /\ body \in [Workers -> Bodies] /\ active \in Nat /\ stuck \in Nat /\ connMax \in Nat
        /\ setup \in DOMAIN Setups
    BY DEF Before, ManagerInv, DBInv, DBTypeOK
  <1>2. active = Cardinality(Holders) /\ active + stuck <= connMax
    BY DEF Before, ManagerInv, DBInv, ConnectionsAreHeld, Holders
  <1>3. IsFiniteSet(Holders) /\ Holders \subseteq Workers
    BY DatabaseAssumption, FS_Subset DEF Holders
  <1>4. phase = "new" => connMax = 0
    BY DEF Before, ManagerInv, InitKeeps
  <1>5. ASSUME \A v \in Workers : body'[v] = "holding" <=> body[v] = "holding",
               UNCHANGED <<database, connMax>>
        PROVE  active' \in Nat /\ active' = Cardinality(Holders') /\ active' + stuck' <= connMax'
    <2>1. Holders' = Holders
      BY <1>5 DEF Holders
    <2> QED
      BY <1>1, <1>2, <1>5, <2>1 DEF database
  <1>6. CASE Main
    <2>1. UNCHANGED <<body, database>>
      BY <1>6, Frames
    <2>2. Holders' = Holders
      BY <2>1 DEF Holders
    <2>3. connMax' = connMax \/ (connMax = 0 /\ connMax' \in Nat)
      <3>1. CASE InitPool
        <4>1. Clamped(Args.connMaxCount, MinConnections) \in Nat
          BY <1>1, SetupTypes, DatabaseAssumption DEF Clamped
        <4> QED
          BY <1>4, <3>1, <4>1 DEF InitPool
      <3>2. CASE ~InitPool
        BY <1>6, <3>2 DEF Main, CreateThreads, LoadTable, InitReturns, StopScheduler, JoinReturns,
                          ClosePool
      <3> QED
        BY <3>1, <3>2
    <2> QED
      BY <1>1, <1>2, <2>1, <2>2, <2>3 DEF database
  <1>7. CASE PostUnit \/ \E task \in Tasks : PostDBTask(task)
    BY <1>5, <1>7, Frames DEF manager, workers
  <1>8. ASSUME NEW w \in Workers,
               TakeUnit(w) \/ TakeTask(w) \/ FindNothing(w) \/ WakeUp(w) \/ EndTask(w) \/ RunUnit(w)
        PROVE  active' \in Nat /\ active' = Cardinality(Holders') /\ active' + stuck' <= connMax'
    <2>1. UNCHANGED <<manager, database>>
      BY <1>8, Frames
    <2>2. \/ body' = body
          \/ body[w] # "holding" /\ \E b \in {"none", "call", "done"} : body' = [body EXCEPT ![w] = b]
      <3>1. WorkersAgree /\ Unit \notin Tasks /\ "get" \notin Tasks /\ "get" # Unit
        BY DatabaseAssumption DEF Before, ManagerInv, Unit
      <3>2. CASE TakeUnit(w) \/ FindNothing(w) \/ WakeUp(w)
        BY <3>2 DEF TakeUnit, FindNothing, WakeUp
      <3>3. CASE TakeTask(w)
        <4>1. body[w] = "none"
          BY <3>1, <3>3 DEF TakeTask, WorkersAgree
        <4> QED
          BY <3>3, <4>1 DEF TakeTask
      <3>4. CASE EndTask(w)
        BY <3>4 DEF EndTask
      <3>5. CASE RunUnit(w)
        <4>1. StartFunc(w) => body[w] = "none"
          BY <3>1 DEF StartFunc, WorkersAgree
        <4> QED
          BY <3>5, <4>1 DEF RunUnit
      <3> QED
        BY <1>8, <3>2, <3>3, <3>4, <3>5
    <2>3. \A v \in Workers : body'[v] = "holding" <=> body[v] = "holding"
      BY <1>1, <2>2
    <2> QED
      BY <1>5, <2>1, <2>3 DEF manager
  <1>9. ASSUME NEW w \in Workers, body[w] = "holding", GiveBack(w), stuck' \in {stuck, stuck + 1},
               UNCHANGED connMax
        PROVE  active' \in Nat /\ active' = Cardinality(Holders') /\ active' + stuck' <= connMax'
    <2>1. Holders' = Holders \ {w} /\ w \in Holders
      BY <1>1, <1>9 DEF GiveBack, Holders
    <2>2. Cardinality(Holders \ {w}) = Cardinality(Holders) - 1 /\ Cardinality(Holders \ {w}) \in Nat
      BY <1>3, <2>1, FS_RemoveElement, FS_CardinalityType
    <2>3. active' = active - 1
      BY <1>9 DEF GiveBack
    <2> QED
      BY <1>1, <1>2, <1>9, <2>1, <2>2, <2>3
  <1>10. ASSUME NEW w \in Workers, CallPool(w)
         PROVE  active' \in Nat /\ active' = Cardinality(Holders') /\ active' + stuck' <= connMax'
    <2>1. UNCHANGED connMax
      BY <1>10, Frames DEF manager
    <2>2. CASE GetConnection(w)
      <3>1. body[w] = "call" /\ UNCHANGED stuck
        BY <2>2 DEF GetConnection
      <3>2. CASE /\ active' = active + 1 /\ body' = [body EXCEPT ![w] = "holding"]
                 /\ active + stuck < connMax
        <4>1. Holders' = Holders \cup {w} /\ w \notin Holders
          BY <1>1, <3>1, <3>2 DEF Holders
        <4>2. Cardinality(Holders \cup {w}) = Cardinality(Holders) + 1
          BY <1>3, <4>1, FS_AddElement
        <4> QED
          BY <1>1, <1>2, <2>1, <3>1, <3>2, <4>1, <4>2
      <3>3. CASE UNCHANGED active /\ (body' = body \/ body' = [body EXCEPT ![w] = "done"])
        BY <1>1, <1>5, <2>1, <3>1, <3>3 DEF database
      <3> QED
        BY <2>2, <3>2, <3>3 DEF GetConnection
    <2>3. CASE Exec(w) \/ ExecFunc(w)
      <3>1. body[w] = "holding" /\ GiveBack(w) /\ stuck' \in {stuck, stuck + 1}
        BY <2>3 DEF Exec, ExecFunc
      <3> QED
        BY <1>9, <2>1, <3>1
    <2>4. CASE ExecPrepared(w)
      <3>1. body[w] = "holding" /\ UNCHANGED stuck /\ (GiveBack(w) \/ UNCHANGED <<body, active>>)
        BY <2>4 DEF ExecPrepared
      <3>2. CASE GiveBack(w)
        BY <1>9, <2>1, <3>1, <3>2
      <3>3. CASE UNCHANGED <<body, active>>
        BY <1>5, <2>1, <3>1, <3>3 DEF database
      <3> QED
        BY <3>1, <3>2, <3>3
    <2> QED
      BY <1>10, <2>2, <2>3, <2>4 DEF CallPool
  <1>11. CASE Reap
    <2>1. UNCHANGED <<body, active, connMax>> /\ stuck' = stuck - 1
      BY <1>11, Frames DEF manager, workers, Reap
    <2>2. Holders' = Holders
      BY <2>1 DEF Holders
    <2> QED
      BY <1>1, <1>2, <2>1, <2>2
  <1>12. CASE UNCHANGED dbVars
    BY <1>5, <1>12 DEF dbVars, manager, workers
  <1> QED
    BY <1>6, <1>7, <1>8, <1>10, <1>11, <1>12 DEF DBNext, Work

\* What the parts say of the counts in one state.
LEMMA CountsAgree ==
    ASSUME WorkersAgree, NobodyAtWork, UnitListed, scheduled \in Nat, scheduled <= 1,
           active = Cardinality(Holders), active + stuck <= connMax
    PROVE  ConnectionsAreHeld
  <1> DEFINE listed == {i \in 1 .. Len(workList) : workList[i] = Unit}
  <1>1. phase = "stopped" => active = 0
    <2> SUFFICES ASSUME phase = "stopped" PROVE Holders = {}
      BY FS_EmptySet
    <2>1. ASSUME NEW w \in Workers PROVE body[w] = "none"
      <3>1. at[w] \in {"absent", "exited"}
        BY DEF NobodyAtWork
      <3>2. at[w] # Unit /\ at[w] \notin Tasks
        BY <3>1, DatabaseAssumption DEF Unit
      <3> QED
        BY <3>2 DEF WorkersAgree
    <2> QED
      BY <2>1 DEF Holders
  <1>2. scheduled = Cardinality(listed)
    <2>1. CASE scheduled = 0
      <3>1. listed = {}
        BY <2>1 DEF UnitListed
      <3> QED
        BY <2>1, <3>1, FS_EmptySet
    <2>2. CASE scheduled = 1
      <3>1. PICK i \in 1 .. Len(workList) : workList[i] = Unit
        BY <2>2 DEF UnitListed
      <3>2. listed = {i}
        BY <3>1 DEF UnitListed
      <3> QED
        BY <2>2, <3>2, FS_Singleton
    <2> QED
      BY <2>1, <2>2
  <1> QED
    BY <1>1, <1>2 DEF ConnectionsAreHeld, Holders


\* The table that comes next is not in the cache yet.
LEMMA NextTable ==
    ASSUME setup \in DOMAIN Setups, CachedInOrder,
           Cardinality(DOMAIN cache) + 1 <= Len(Args.tables)
    PROVE  LET n == Cardinality(DOMAIN cache) + 1 IN
           /\ n \in 1 .. Len(Args.tables) /\ n - 1 \in Nat /\ 1 .. n = (1 .. n - 1) \cup {n}
           /\ Args.tables[n].table \notin DOMAIN cache
           /\ \A i \in 1 .. n - 1 : /\ Args.tables[i].table # Args.tables[n].table
                                    /\ Args.tables[i].table \in DOMAIN cache
  <1> DEFINE k == Cardinality(DOMAIN cache)
             name(i) == Args.tables[i].table
  <1>1. k \in Nat /\ DOMAIN cache = {name(i) : i \in 1 .. k} /\ Len(Args.tables) \in Nat
    BY SetupTypes, FS_CardinalityType, LenProperties DEF CachedInOrder
  <1>2. \A i, j \in 1 .. Len(Args.tables) : name(i) = name(j) => i = j
    BY SetupTypes
  <1>3. k + 1 <= Len(Args.tables)
    OBVIOUS
  <1> HIDE DEF k, name
  <1>4. k + 1 \in 1 .. Len(Args.tables) /\ (k + 1) - 1 = k /\ 1 .. k + 1 = (1 .. k) \cup {k + 1}
    BY <1>1, <1>3
  <1>5. \A i \in 1 .. k : name(i) # name(k + 1) /\ name(i) \in DOMAIN cache
    BY <1>1, <1>2, <1>4
  <1>6. name(k + 1) \notin DOMAIN cache
    BY <1>1, <1>5
  <1> QED
    BY <1>1, <1>4, <1>5, <1>6 DEF k, name

LEMMA CacheStep == Before /\ [DBNext]_dbVars => CachedInOrder'
  <1> SUFFICES ASSUME Before, [DBNext]_dbVars PROVE CachedInOrder'
    OBVIOUS
  <1>1. setup \in DOMAIN Setups /\ CachedInOrder
    BY DEF Before, ManagerInv, DBInv, DBTypeOK
  <1>2. ASSUME UNCHANGED <<setup, cache>> PROVE CachedInOrder'
    BY <1>1, <1>2 DEF CachedInOrder, Args
  <1>3. CASE Main
    <2>1. CASE ~LoadTable
      BY <1>2, <1>3, <2>1 DEF Main, InitPool, CreateThreads, InitReturns, StopScheduler, JoinReturns,
                              ClosePool
    <2>2. CASE LoadTable
      <3> DEFINE n == Cardinality(DOMAIN cache) + 1
                 table == Args.tables[n].table
                 where == Args.tables[n].where
                 columns == Args.columns[table]
                 entry == Entry(table, where, columns)
      <3>1. /\ n <= Len(Args.tables) /\ UNCHANGED setup
            /\ UNCHANGED cache \/ Cache(table, where, columns)
        BY <2>2, Zenon DEF LoadTable
      <3>2. CASE UNCHANGED cache
        BY <1>2, <3>1, <3>2
      <3>3. CASE Known(columns) /\ Cache(table, where, columns)
        <4>1. /\ n \in 1 .. Len(Args.tables) /\ n - 1 \in Nat /\ 1 .. n = (1 .. n - 1) \cup {n}
              /\ table \notin DOMAIN cache
              /\ \A i \in 1 .. n - 1 : Args.tables[i].table # table /\ Args.tables[i].table \in DOMAIN cache
          BY <1>1, <3>1, NextTable
        <4>2. /\ IsFiniteSet(DOMAIN cache) /\ n - 1 = Cardinality(DOMAIN cache)
              /\ DOMAIN cache = {Args.tables[i].table : i \in 1 .. n - 1}
          <5>1. IsFiniteSet(DOMAIN cache)
            BY <1>1 DEF CachedInOrder
          <5>2. n - 1 = Cardinality(DOMAIN cache)
            BY <5>1, FS_CardinalityType
          <5>3. DOMAIN cache = {Args.tables[i].table : i \in 1 .. Cardinality(DOMAIN cache)}
            BY <1>1 DEF CachedInOrder
          <5> HIDE DEF n
          <5> QED
            BY <5>1, <5>2, <5>3
        <4>3. \A i \in 1 .. n - 1 :
                 /\ cache[Args.tables[i].table] =
                       Entry(Args.tables[i].table, Args.tables[i].where, Args.columns[Args.tables[i].table])
                 /\ Known(Args.columns[Args.tables[i].table])
          BY <1>1, <4>2 DEF CachedInOrder
        <4>4. /\ DOMAIN cache' = DOMAIN cache \cup {table}
              /\ cache'[table] = entry
              /\ \A t \in DOMAIN cache : t # table => cache'[t] = cache[t]
          BY <3>3 DEF Cache
        <4>5. Cardinality(DOMAIN cache') = n /\ IsFiniteSet(DOMAIN cache')
          BY <4>1, <4>2, <4>4, FS_AddElement
        <4>6. Args' = Args
          BY <3>1 DEF Args
        <4>7. n <= Len(Args.tables) /\ Known(columns)
          BY <3>1, <3>3
        <4> HIDE DEF n
        <4>8. DOMAIN cache' = {Args.tables[i].table : i \in 1 .. n}
          BY <4>1, <4>2, <4>4
        <4>9. \A i \in 1 .. n :
                 /\ cache'[Args.tables[i].table] =
                       Entry(Args.tables[i].table, Args.tables[i].where, Args.columns[Args.tables[i].table])
                 /\ Known(Args.columns[Args.tables[i].table])
          <5> TAKE i \in 1 .. n
          <5>1. CASE i = n
            BY <4>4, <4>7, <5>1
          <5>2. CASE i \in 1 .. n - 1
            BY <4>1, <4>3, <4>4, <5>2
          <5> QED
            BY <4>1, <5>1, <5>2
        <4> QED
          BY <4>5, <4>6, <4>7, <4>8, <4>9 DEF CachedInOrder
      <3>4. CASE ~Known(columns) /\ Cache(table, where, columns)
        BY <3>2, <3>4 DEF Cache
      <3> QED
        BY <3>1, <3>2, <3>3, <3>4
    <2> QED
      BY <2>1, <2>2
  <1>4. CASE ~Main
    BY <1>2, <1>4, Frames DEF DBNext, Work, dbVars, manager
  <1> QED
    BY <1>3, <1>4

\* A parameter that fits every type is thrown out by none.
LEMMA ParamsBind ==
    ASSUME setup \in DOMAIN Setups, ParamsFit, NEW v \in Args.params, NEW kind
    PROVE  Bind(kind, v) # Thrown
  <1>1. /\ IntWord \in Nat \ {0} /\ LongWord \in Nat /\ IntWord <= LongWord
        /\ NotANumber \notin Int /\ Thrown \notin Int /\ NotANumber # Thrown /\ v # Thrown
    BY DatabaseAssumption, SetupTypes
  <1>2. v = NotANumber \/ v \in -(IntWord \div 2) .. IntWord \div 2 - 1
    BY DEF ParamsFit, stringToInt32, Parse
  <1>3. /\ IntWord \div 2 \in Nat /\ IntWord \div 2 <= IntWord - 1
        /\ LongWord \div 2 \in Nat /\ IntWord \div 2 <= LongWord \div 2
    BY <1>1
  <1>4. stringToInt32(v) \in Int
    BY <1>1, <1>2, <1>3 DEF stringToInt32, Parse
  <1>5. stringToInt64(v) \in Int
    BY <1>1, <1>2, <1>3 DEF stringToInt64, Parse
  <1>6. StringToUlong(v) \in Int
    <2>1. Parse(v, -(LongWord - 1), LongWord - 1) \in Int
      BY <1>1, <1>2, <1>3 DEF Parse
    <2> QED
      BY <1>1, <2>1 DEF StringToUlong
  <1>7. stringToUint64(v) \in Int /\ stringToUint32(v) \in Int
    BY <1>1, <1>6 DEF stringToUint64, stringToUint32
  <1>8. \A n \in Int, word \in Nat : Signed(n, word) \in Int
    BY DEF Signed
  <1>9. Signed(stringToUint32(v), IntWord) \in Int /\ Signed(stringToUint64(v), LongWord) \in Int
    BY <1>1, <1>7, <1>8
  <1> QED
    BY <1>1, <1>4, <1>5, <1>7, <1>9 DEF Bind

LEMMA InitStep == Before /\ [DBNext]_dbVars => InitKeeps'
  <1> SUFFICES ASSUME Before, [DBNext]_dbVars PROVE InitKeeps'
    OBVIOUS
  <1> DEFINE n == Cardinality(DOMAIN cache)
  <1>1. /\ setup \in DOMAIN Setups /\ phase \in Phases /\ ret \in BOOLEAN /\ pool \in {"null", "up"}
        /\ WorkersAgree /\ NobodyAtWork
    BY DEF Before, ManagerInv, DBInv, DBTypeOK
  <1>2. /\ phase = "new" => connMax = 0
        /\ DOMAIN cache # {} /\ phase # "stopped" => pool = "up"
        /\ ret => phase \in {"ready", "joining", "stopped"} /\ n = Len(Args.tables)
        /\ ret /\ Args.tables # <<>> /\ ParamsFit => ~crashed
    BY DEF Before, ManagerInv, InitKeeps
  <1>3. ASSUME UNCHANGED <<manager, crashed>> PROVE InitKeeps'
    BY <1>2, <1>3 DEF InitKeeps, Args, ParamsFit, manager
  <1>4. CASE UNCHANGED dbVars
    BY <1>3, <1>4 DEF dbVars
  <1>5. ASSUME ~crashed, UNCHANGED setup,
               /\ crashed' => ret' = FALSE
               /\ phase' = "new" => connMax' = 0
               /\ DOMAIN cache' # {} /\ phase' # "stopped" => pool' = "up"
               /\ ret' => /\ phase' \in {"ready", "joining", "stopped"}
                          /\ Cardinality(DOMAIN cache') = Len(Args.tables)
        PROVE  InitKeeps'
    BY <1>5 DEF InitKeeps, Args, ParamsFit
  <1>6. CASE Main /\ ~crashed
    <2>1. UNCHANGED setup
      BY <1>6, Frames
    <2>2. CASE InitPool
      <3>1. phase = "new" /\ phase' = "pool" /\ UNCHANGED <<ret, cache, crashed>> /\ (pool' = "up" \/ UNCHANGED pool)
        BY <2>2 DEF InitPool
      <3> QED
        BY <1>2, <1>5, <1>6, <2>1, <3>1
    <2>3. CASE CreateThreads
      <3>1. phase = "pool" /\ phase' = "loading" /\ UNCHANGED <<ret, cache, crashed, pool>>
        BY <2>3 DEF CreateThreads
      <3> QED
        BY <1>2, <1>5, <1>6, <2>1, <3>1
    <2>4. CASE LoadTable
      <3>1. /\ phase = "loading" /\ UNCHANGED <<pool, connMax>>
            /\ \/ UNCHANGED <<phase, ret, cache>>
               \/ /\ pool # "null" /\ UNCHANGED crashed
                  /\ UNCHANGED <<phase, ret>> \/ (phase' = "ready" /\ ret' = FALSE)
        BY <2>4, Zenon DEF LoadTable, Return
      <3>2. ret = FALSE
        BY <1>1, <1>2, <3>1
      <3> QED
        BY <1>1, <1>2, <1>5, <1>6, <2>1, <3>1, <3>2
    <2>5. CASE InitReturns
      <3>1. /\ phase = "loading" /\ phase' = "ready" /\ n = Len(Args.tables)
            /\ UNCHANGED <<cache, crashed, pool>>
        BY <2>5 DEF InitReturns, Return
      <3> QED
        BY <1>2, <1>5, <1>6, <2>1, <3>1
    <2>6. CASE StopScheduler \/ JoinReturns
      <3>1. /\ \/ phase = "ready" /\ phase' = "joining"
               \/ phase = "joining" /\ phase' = "stopped"
            /\ UNCHANGED <<ret, cache, crashed, pool>>
        BY <2>6 DEF StopScheduler, JoinReturns
      <3> QED
        BY <1>2, <1>5, <1>6, <2>1, <3>1
    <2>7. CASE ClosePool
      <3>1. phase = "stopped" /\ UNCHANGED <<phase, ret, cache, crashed>>
        BY <2>7 DEF ClosePool
      <3> QED
        BY <1>2, <1>5, <1>6, <2>1, <3>1
    <2> QED
      BY <1>6, <2>2, <2>3, <2>4, <2>5, <2>6, <2>7 DEF Main
  <1>7. CASE PostUnit \/ Reap \/ \E task \in Tasks : PostDBTask(task)
    BY <1>3, <1>7, Frames
  <1>8. ASSUME NEW w \in Workers,
               TakeUnit(w) \/ TakeTask(w) \/ FindNothing(w) \/ WakeUp(w) \/ EndTask(w) \/ RunUnit(w)
        PROVE  InitKeeps'
    BY <1>3, <1>8, Frames
  <1>9. ASSUME NEW w \in Workers, CallPool(w), ~crashed PROVE InitKeeps'
    <2>1. UNCHANGED manager
      BY <1>9, Frames
    <2>2. ASSUME ret, Args.tables # <<>>, ParamsFit PROVE UNCHANGED crashed
      <3>1. phase # "stopped"
        <4>1. body[w] # "none"
          BY <1>9 DEF CallPool, GetConnection, Exec, ExecFunc, ExecPrepared
        <4>2. at[w] \notin {"absent", "exited"}
          BY <1>1, <4>1, DatabaseAssumption DEF WorkersAgree, Unit
        <4> QED
          BY <1>1, <4>2 DEF NobodyAtWork
      <3>2. pool = "up"
        <4>1. Args.tables \in Seq([table : DOMAIN Args.columns, where : STRING])
          BY <1>1, SetupTypes
        <4>2. n # 0
          BY <1>2, <2>2, <4>1, EmptySeq
        <4>3. DOMAIN cache # {}
          BY <4>2, FS_EmptySet
        <4> QED
          BY <1>2, <3>1, <4>3
      <3>3. CASE GetConnection(w)
        BY <3>2, <3>3 DEF GetConnection
      <3>4. CASE Exec(w) \/ ExecFunc(w)
        BY <3>4 DEF Exec, ExecFunc
      <3>5. CASE ExecPrepared(w)
        <4>1. \E v \in Args.params : \E kind : IF Bind(kind, v) = Thrown THEN TRUE ELSE UNCHANGED crashed
          BY <3>5, Zenon DEF ExecPrepared
        <4> QED
          BY <1>1, <2>2, <4>1, ParamsBind
      <3> QED
        BY <1>9, <3>3, <3>4, <3>5 DEF CallPool
    <2>3. manager' = manager /\ Args' = Args /\ ParamsFit' = ParamsFit
      BY <2>1 DEF manager, Args, ParamsFit
    <2> QED
      BY <1>2, <2>1, <2>2, <2>3 DEF InitKeeps, manager
  <1> QED
    BY <1>4, <1>6, <1>7, <1>8, <1>9 DEF DBNext, Work


\* Every statement names all the fields, in order, and the table.
LEMMA StatementsName ==
    ASSUME NEW sql
    PROVE  \A s \in DOMAIN Statements(sql) :
              /\ Statements(sql)[s].cols =
                    IF s = "selectCount" THEN <<>>
                    ELSE [i \in 1 .. Len(sql.fieldVec) |-> sql.fieldVec[i].name]
              /\ Statements(sql)[s].from = sql.table
  <1> DEFINE names == [i \in 1 .. Len(sql.fieldVec) |-> sql.fieldVec[i].name]
             table == sql.table
             where == sql.where
             all == [selectCount |-> [cols |-> <<>>, from |-> table],
                     selectAll   |-> [cols |-> names, from |-> table],
                     selectLimit |-> [cols |-> names, from |-> table],
                     selectWhere |-> [cols |-> names, from |-> table, where |-> where],
                     update      |-> [cols |-> names, from |-> table, where |-> where],
                     insert      |-> [cols |-> names, from |-> table]]
  <1>1. Statements(sql) = all
    BY DEF Statements
  <1> HIDE DEF names, table, where
  <1>2. \A s \in DOMAIN all :
           /\ all[s].cols = IF s = "selectCount" THEN <<>> ELSE names
           /\ all[s].from = table
    OBVIOUS
  <1> HIDE DEF all
  <1> QED
    BY <1>1, <1>2 DEF names, table

LEMMA InitialManager == DBInit => ManagerInv
  <1> SUFFICES ASSUME DBInit PROVE ManagerInv
    OBVIOUS
  <1>1. /\ setup \in DOMAIN Setups /\ phase = "new" /\ ret = FALSE /\ pool = "null" /\ connMax = 0
        /\ cache = <<>> /\ work \in BOOLEAN /\ workList = <<>> /\ active = 0 /\ stuck = 0
        /\ ended = {} /\ crashed = FALSE
        /\ at = [w \in Workers |-> "absent"] /\ body = [w \in Workers |-> "none"]
    BY DEF DBInit
  <1>2. /\ scheduled = 0 /\ pc = [w \in Workers |-> "idle"]
    BY DEF DBInit, Init
  <1>3. DOMAIN cache = {} /\ Len(workList) = 0
    BY <1>1
  <1>4. DBTypeOK
    <2>1. /\ at \in [Workers -> {"absent", "get", "asleep", "exited", Unit} \cup Tasks]
          /\ body \in [Workers -> Bodies] /\ workList \in Seq(Tasks \cup {Unit})
      BY <1>1, EmptySeq DEF Bodies
    <2>2. {ret, work, crashed} \subseteq BOOLEAN
      BY <1>1
    <2> QED
      BY <1>1, <1>3, <2>1, <2>2 DEF DBTypeOK, Phases
  <1>5. UnitListed
    BY <1>2, <1>3 DEF UnitListed
  <1>6. WorkersAgree
    BY <1>1, <1>2, DatabaseAssumption DEF WorkersAgree, Unit
  <1>7. NobodyAtWork
    BY <1>1 DEF NobodyAtWork
  <1>8. CachedInOrder
    <2>1. IsFiniteSet(DOMAIN cache) /\ Cardinality(DOMAIN cache) = 0
      BY <1>3, FS_EmptySet
    <2>2. Len(Args.tables) \in Nat
      BY <1>1, SetupTypes, LenProperties
    <2> QED
      BY <1>3, <2>1, <2>2 DEF CachedInOrder
  <1>9. InitKeeps
    BY <1>1, <1>3 DEF InitKeeps
  <1>10. ConnectionsAreHeld
    <2>1. Holders = {}
      BY <1>1 DEF Holders
    <2>2. active = Cardinality(Holders) /\ active + stuck <= connMax
      BY <1>1, <2>1, FS_EmptySet
    <2> QED
      BY <1>2, <1>5, <1>6, <1>7, <2>2, CountsAgree
  <1> QED
    BY <1>4, <1>5, <1>6, <1>7, <1>8, <1>9, <1>10 DEF ManagerInv, DBInv

\* ManagerInv without what the counts of one state imply.
Parts ==
    /\ DBTypeOK /\ UnitListed /\ WorkersAgree /\ NobodyAtWork /\ CachedInOrder /\ InitKeeps
    /\ active = Cardinality(Holders) /\ active + stuck <= connMax

\* The inductive invariant of the manager: who works where, the connections
\* that are held, the tables cached so far, and what init's answer means.
THEOREM ManagerInvariant == DBSpec => []ManagerInv
  <1>1. DBInit => Parts
    BY InitialManager DEF Parts, ManagerInv, DBInv, ConnectionsAreHeld, Holders
  <1>2. Parts /\ Inv => ManagerInv
    <2> SUFFICES ASSUME Parts, Inv PROVE ManagerInv
      OBVIOUS
    <2>1. scheduled \in Nat /\ scheduled <= 1
      BY DEF Inv, UnitInv, AccessMeansOwned, TypeOK
    <2>2. ConnectionsAreHeld
      BY <2>1, CountsAgree DEF Parts
    <2> QED
      BY <2>2 DEF Parts, ManagerInv, DBInv
  <1>3. Parts /\ Inv /\ Inv' /\ [DBNext]_dbVars => Parts'
    <2> SUFFICES ASSUME Parts, Inv, Inv', [DBNext]_dbVars PROVE Parts'
      OBVIOUS
    <2>1. Before /\ After
      BY <1>2 DEF Before, After
    <2>2. UnitListed' /\ WorkersAgree' /\ NobodyAtWork' /\ CachedInOrder' /\ InitKeeps'
      BY <2>1, ListedStep, AgreeStep, NobodyStep, CacheStep, InitStep
    <2>3. active' \in Nat /\ active' = Cardinality(Holders') /\ active' + stuck' <= connMax'
      BY <2>1, CountStep
    <2>4. DBTypeOK'
      BY <2>1, <2>3, ManagerTypeStep
    <2> QED
      BY <2>2, <2>3, <2>4 DEF Parts
  <1> QED
    BY <1>1, <1>2, <1>3, UnitInvInManager, PTL DEF DBSpec

\* No connection is lost on any path of a call, none is open in a pool that
\* close frees, and the list holds the unit as often as it was scheduled.
THEOREM ManagerCorrect == DBSpec => []DBInv
  <1>1. ManagerInv => DBInv
    BY DEF ManagerInv
  <1> QED
    BY <1>1, ManagerInvariant, PTL

\* What init answers is true: all tables are cached with all their columns, in
\* every statement, and no task aborts the process for want of a pool.
THEOREM AnswerIsTrue == DBSpec => []InitIsHonest
  <1>1. ASSUME ManagerInv PROVE InitIsHonest
    <2> DEFINE n == Cardinality(DOMAIN cache)
               name(i) == Args.tables[i].table
               columns(i) == Args.columns[name(i)]
    <2>1. /\ ret => n = Len(Args.tables)
          /\ ret /\ Args.tables # <<>> /\ ParamsFit => ~crashed
          /\ setup \in DOMAIN Setups
      BY <1>1 DEF ManagerInv, InitKeeps, DBInv, DBTypeOK
    <2>2. /\ n <= Len(Args.tables) /\ n \in Nat /\ Len(Args.tables) \in Nat
          /\ DOMAIN cache = {name(i) : i \in 1 .. n}
          /\ \A i \in 1 .. n : cache[name(i)] = Entry(name(i), Args.tables[i].where, columns(i)) /\ Known(columns(i))
      BY <1>1, <2>1, SetupTypes, LenProperties, FS_CardinalityType DEF ManagerInv, CachedInOrder
    <2>3. \A i, j \in 1 .. Len(Args.tables) : name(i) = name(j) => i = j
      BY <2>1, SetupTypes
    <2>4. ASSUME NEW i \in 1 .. Len(Args.tables), name(i) \in DOMAIN cache
          PROVE  /\ i \in 1 .. n
                 /\ \A j \in 1 .. i - 1 : name(j) \in DOMAIN cache
      <3> HIDE DEF n, name
      <3>1. i \in 1 .. n
        <4>1. PICK j \in 1 .. n : name(i) = name(j)
          BY <2>2, <2>4
        <4> QED
          BY <2>2, <2>3, <4>1
      <3> QED
        BY <2>2, <3>1
    <2>5. ASSUME NEW i \in 1 .. Len(Args.tables), name(i) \in DOMAIN cache
          PROVE  /\ cache[name(i)].where = Args.tables[i].where
                 /\ Known(columns(i))
                 /\ \A s \in DOMAIN Statements(cache[name(i)].sql) :
                       LET statement == Statements(cache[name(i)].sql)[s] IN
                       /\ statement.cols = IF s = "selectCount" THEN <<>>
                                           ELSE [k \in 1 .. Len(columns(i)) |-> k]
                       /\ statement.from = name(i)
      <3> DEFINE cs == columns(i)
                 t == name(i)
                 v == FieldVec(cs)
                 sql == SQLTable(t, "", v)
      <3>1. cache[t] = Entry(t, Args.tables[i].where, cs) /\ Known(cs)
        BY <2>2, <2>4, <2>5
      <3> HIDE DEF cs, t
      <3>2. cache[t].where = Args.tables[i].where /\ cache[t].sql = sql
        <4>1. /\ Entry(t, Args.tables[i].where, cs).where = Args.tables[i].where
              /\ Entry(t, Args.tables[i].where, cs).sql = SQLTable(t, "", FieldVec(cs))
          BY DEF Entry
        <4> QED
          BY <3>1, <4>1, Zenon
      <3>3. Len(cs) \in Nat
        <4>1. t \in DOMAIN Args.columns
          BY <1>1, <2>5 DEF ManagerInv, DBInv, DBTypeOK, t
        <4>2. cs \in Seq(SUBSET STRING)
          BY <2>1, <4>1, SetupTypes DEF cs, t
        <4> QED
          BY <4>2, LenProperties
      <3>4. /\ Len(v) = Len(cs)
            /\ \A k \in 1 .. Len(cs) : v[k].name = k
        BY <3>3 DEF FieldVec
      <3> HIDE DEF v
      <3>5. [k \in 1 .. Len(sql.fieldVec) |-> sql.fieldVec[k].name] = [k \in 1 .. Len(cs) |-> k]
        BY <3>4 DEF SQLTable
      <3>6. sql.table = t
        BY DEF SQLTable
      <3> HIDE DEF sql
      <3>7. \A s \in DOMAIN Statements(sql) :
               /\ Statements(sql)[s].cols = IF s = "selectCount" THEN <<>> ELSE [k \in 1 .. Len(cs) |-> k]
               /\ Statements(sql)[s].from = t
        <4> TAKE s \in DOMAIN Statements(sql)
        <4>1. /\ Statements(sql)[s].cols =
                    IF s = "selectCount" THEN <<>>
                    ELSE [k \in 1 .. Len(sql.fieldVec) |-> sql.fieldVec[k].name]
              /\ Statements(sql)[s].from = sql.table
          BY StatementsName, Zenon
        <4> HIDE DEF sql
        <4> QED
          BY <3>5, <3>6, <4>1
      <3>8. columns(i) = cs /\ name(i) = t
        BY DEF cs, t
      <3> HIDE DEF columns, name
      <3> QED
        BY <3>1, <3>2, <3>7, <3>8
    <2>6. ASSUME NEW i \in 1 .. Len(Args.tables), ret PROVE name(i) \in DOMAIN cache
      <3> HIDE DEF n, name
      <3> QED
        BY <2>1, <2>2, <2>6
    <2> QED
      BY <2>1, <2>4, <2>5, <2>6 DEF InitIsHonest
  <1> QED
    BY <1>1, ManagerInvariant, PTL


\* A number of a column arrives as itself, or less a word if it is large.
Arrives(column, v) ==
    LET word == IF "bigint" \in column THEN LongWord ELSE IntWord IN
    /\ Bind(FieldType(column), v) \in {v, v - word}
    /\ v < word \div 2 => Bind(FieldType(column), v) = v

LEMMA NumberArrives ==
    ASSUME NEW column, NEW v \in RangeOf(column)
    PROVE  Arrives(column, v)
  <1>1. /\ IntWord \in Nat \ {0} /\ LongWord \in Nat /\ IntWord <= LongWord
        /\ NotANumber \notin Int /\ Thrown \notin Int
    BY DatabaseAssumption
  <1>2. "int" \in column
    BY DEF RangeOf
  <1>3. /\ IntWord \div 2 \in Nat /\ IntWord \div 2 <= IntWord - 1
        /\ LongWord \div 2 \in Nat /\ LongWord \div 2 <= LongWord - 1
    BY <1>1
  <1>4. ASSUME NEW low \in Int, NEW high \in Int, v \in low .. high PROVE Parse(v, low, high) = v
    BY <1>1, <1>4 DEF Parse
  <1>5. ASSUME v \in 0 .. LongWord - 1 PROVE StringToUlong(v) = v
    <2>1. Parse(v, -(LongWord - 1), LongWord - 1) = v
      BY <1>1, <1>4, <1>5
    <2>2. v % LongWord = v
      BY <1>1, <1>5, Z3
    <2> QED
      BY <2>1, <2>2, <1>1, <1>5 DEF StringToUlong
  <1>6. CASE "bigint" \in column /\ "unsigned" \in column
    <2>1. FieldType(column) = "ULLONG"
      BY <1>2, <1>6 DEF FieldType
    <2>2. v \in 0 .. LongWord - 1
      BY <1>2, <1>6 DEF RangeOf
    <2>3. Bind("ULLONG", v) = Signed(v, LongWord)
      BY <1>5, <2>2 DEF Bind, stringToUint64
    <2>4. Signed(v, LongWord) = IF v >= LongWord \div 2 THEN v - LongWord ELSE v
      BY <1>1, <2>2 DEF Signed
    <2> QED
      BY <1>1, <1>3, <1>6, <2>1, <2>2, <2>3, <2>4 DEF Arrives
  <1>7. CASE "bigint" \in column /\ "unsigned" \notin column
    <2>1. FieldType(column) = "LLONG"
      BY <1>2, <1>7 DEF FieldType
    <2>2. v \in -(LongWord \div 2) .. LongWord \div 2 - 1
      BY <1>2, <1>7 DEF RangeOf
    <2>3. Bind("LLONG", v) = v
      BY <1>3, <1>4, <2>2 DEF Bind, stringToInt64
    <2> QED
      BY <2>1, <2>3 DEF Arrives
  <1>8. CASE "bigint" \notin column /\ "unsigned" \in column
    <2>1. FieldType(column) = "UINT"
      BY <1>2, <1>8 DEF FieldType
    <2>2. v \in 0 .. IntWord - 1 /\ v \in 0 .. LongWord - 1
      BY <1>1, <1>2, <1>8 DEF RangeOf
    <2>3. v % IntWord = v
      BY <1>1, <2>2, Z3
    <2>4. stringToUint32(v) = v
      BY <1>1, <1>5, <2>2, <2>3 DEF stringToUint32
    <2>5. Bind("UINT", v) = Signed(v, IntWord)
      BY <2>4 DEF Bind
    <2>6. Signed(v, IntWord) = IF v >= IntWord \div 2 THEN v - IntWord ELSE v
      BY <1>1, <2>2 DEF Signed
    <2> QED
      BY <1>1, <1>3, <1>8, <2>1, <2>2, <2>5, <2>6 DEF Arrives
  <1>9. CASE "bigint" \notin column /\ "unsigned" \notin column
    <2>1. FieldType(column) = "INT"
      BY <1>2, <1>9 DEF FieldType
    <2>2. v \in -(IntWord \div 2) .. IntWord \div 2 - 1
      BY <1>2, <1>9 DEF RangeOf
    <2>3. Bind("INT", v) = v
      BY <1>3, <1>4, <2>2 DEF Bind, stringToInt32
    <2> QED
      BY <2>1, <2>3 DEF Arrives
  <1> QED
    BY <1>6, <1>7, <1>8, <1>9

\* Every number a column may hold arrives with its bits as a parameter of the
\* column's cached type.
THEOREM NumbersAreKept == DBSpec => []NumbersArrive
  <1>1. ASSUME ManagerInv PROVE NumbersArrive
    <2> SUFFICES ASSUME NEW t \in DOMAIN cache, NEW i \in 1 .. Len(Args.columns[t]),
                        NEW v \in RangeOf(Args.columns[t][i])
                 PROVE  /\ cache[t].sql.fieldVec[i].type = FieldType(Args.columns[t][i])
                        /\ Arrives(Args.columns[t][i], v)
      BY DEF NumbersArrive, Arrives
    <2>1. Arrives(Args.columns[t][i], v)
      BY NumberArrives
    <2>2. PICK k \in 1 .. Cardinality(DOMAIN cache) : t = Args.tables[k].table
      BY <1>1 DEF ManagerInv, CachedInOrder
    <2>5. cache[t] = Entry(t, Args.tables[k].where, Args.columns[t])
      BY <1>1, <2>2 DEF ManagerInv, CachedInOrder
    <2>3. cache[t].sql.fieldVec = FieldVec(Args.columns[t])
      <3> DEFINE sql == SQLTable(t, "", FieldVec(Args.columns[t]))
      <3>1. cache[t] = [where |-> Args.tables[k].where, sql |-> sql]
        BY <2>5 DEF Entry
      <3>2. sql.fieldVec = FieldVec(Args.columns[t])
        BY DEF SQLTable
      <3> HIDE DEF sql
      <3> QED
        BY <3>1, <3>2
    <2>4. FieldVec(Args.columns[t])[i].type = FieldType(Args.columns[t][i])
      BY DEF FieldVec
    <2> QED
      BY <2>1, <2>3, <2>4
  <1> QED
    BY <1>1, ManagerInvariant, PTL

\* With a connection for each thread no call is refused, unless unread results
\* hold connections or the server cannot be reached.
THEOREM NobodyIsRefused == DBSpec => NoneDenied
  <1> DEFINE present == {v \in Workers : at[v] # "absent"}

             Excuse == ~Args.reachable \/ stuck > 0 \/ Cardinality(present) > connMax
  <1>1. ManagerInv /\ [DBNext]_dbVars =>
          [\A w \in Workers : body[w] = "call" /\ body'[w] = "done" =>
              \/ ~Args.reachable
              \/ stuck > 0
              \/ Cardinality({v \in Workers : at[v] # "absent"}) > connMax]_dbVars
    <2> SUFFICES ASSUME ManagerInv, DBNext, NEW w \in Workers, body[w] = "call", body'[w] = "done"
                 PROVE  Excuse
      OBVIOUS
    <2>1. /\ body \in [Workers -> Bodies] /\ connMax \in Nat /\ active \in Nat /\ stuck \in Nat
          /\ WorkersAgree /\ active = Cardinality(Holders)
      BY DEF ManagerInv, DBInv, DBTypeOK, ConnectionsAreHeld, Holders
    <2>2. GetConnection(w)
      <3>1. PICK v \in Workers : Work(v)
        <4>1. body' # body
          OBVIOUS
        <4> QED
          BY <4>1, Frames DEF DBNext, workers
      <3>2. body' # body
        OBVIOUS
      <3>3. v = w
        BY <2>1, <3>1, <3>2 DEF Work, TakeUnit, TakeTask, FindNothing, WakeUp, EndTask, RunUnit, CallPool,
                                GetConnection, Exec, ExecFunc, ExecPrepared, GiveBack
      <3>4. ~RunUnit(w) /\ ~TakeTask(w) /\ ~EndTask(w)
        <4>1. at[w] = "get" => body[w] = "none"
          BY <2>1, DatabaseAssumption DEF WorkersAgree, Unit
        <4>2. pc[w] = "running" => body[w] = "none"
          BY <2>1, DatabaseAssumption DEF WorkersAgree, Unit
        <4> QED
          BY <4>1, <4>2 DEF RunUnit, TakeTask, EndTask, StartFunc
      <3> QED
        BY <3>1, <3>2, <3>3, <3>4 DEF Work, TakeUnit, FindNothing, WakeUp, CallPool, Exec, ExecFunc, ExecPrepared
    <2>3. ~(active + stuck < connMax /\ Args.reachable)
      BY <2>1, <2>2 DEF GetConnection
    <2>4. active < Cardinality(present)
      <3>1. IsFiniteSet(present) /\ Cardinality(present) \in Nat
        BY DatabaseAssumption, FS_Subset, FS_CardinalityType
      <3>2. \A v \in Workers : body[v] # "none" => at[v] # "absent"
        BY <2>1, DatabaseAssumption DEF WorkersAgree, Unit
      <3>3. Holders \subseteq present /\ w \in present /\ w \notin Holders
        BY <3>2 DEF Holders
      <3>4. Cardinality(Holders) <= Cardinality(present) /\ Cardinality(Holders) # Cardinality(present)
        BY <3>1, <3>3, FS_Subset
      <3> QED
        BY <2>1, <3>1, <3>4
    <2>5. Cardinality(present) \in Nat
      BY DatabaseAssumption, FS_Subset, FS_CardinalityType
    <2> HIDE DEF present
    <2> QED
      BY <2>1, <2>3, <2>4, <2>5
  <1> QED
    BY <1>1, ManagerInvariant, PTL DEF DBSpec, NoneDenied

\* On the manager's threads, whatever the calls of the pool do, the safe unit
\* keeps all that it promises.
THEOREM UnitOnManager ==
    DBSpec => /\ []AccessMeansOwned
              /\ UnlockedSwapIsPrivate
              /\ CancelIsLast
              /\ ImplementsStrand
  BY UnitInManager, OwnedOnce, SwapIsSafe, CallbackIsLast, UnitIsStrand, PTL
=============================================================================
