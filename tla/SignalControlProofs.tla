------------------------ MODULE SignalControlProofs ------------------------
(***************************************************************************)
(* Proofs about Scheduler and about SignalControl, which runs on it, for   *)
(* any number of workers, tasks and signals.                               *)
(***************************************************************************)
EXTENDS SignalControl, SequenceTheorems, TLAPS

-----------------------------------------------------------------------------
(* The list.                                                               *)

\* What is posted is the last of what was posted.
LEMMA ElementsAppend ==
    ASSUME NEW S, NEW q \in Seq(S), NEW e \in S
    PROVE  /\ Append(q, e) \in Seq(S)
           /\ Elements(Append(q, e)) = Elements(q) \cup {e}
  <1>1. /\ Append(q, e) \in Seq(S)
        /\ Len(q) \in Nat
        /\ Len(Append(q, e)) = Len(q) + 1
        /\ \A i \in 1 .. Len(q) : Append(q, e)[i] = q[i]
        /\ Append(q, e)[Len(q) + 1] = e
    BY AppendProperties, LenProperties
  <1>2. 1 .. Len(q) + 1 = 1 .. Len(q) \cup {Len(q) + 1}
    BY <1>1
  <1> QED
    BY <1>1, <1>2 DEF Elements

LEMMA AppendOnce ==
    ASSUME NEW S, NEW q \in Seq(S), NEW e \in S, e \notin Elements(q),
           \A i, j \in 1 .. Len(q) : q[i] = q[j] => i = j
    PROVE  \A i, j \in 1 .. Len(Append(q, e)) : Append(q, e)[i] = Append(q, e)[j] => i = j
  <1>1. /\ Len(q) \in Nat
        /\ Len(Append(q, e)) = Len(q) + 1
        /\ \A i \in 1 .. Len(q) : Append(q, e)[i] = q[i]
        /\ Append(q, e)[Len(q) + 1] = e
    BY AppendProperties, LenProperties
  <1>2. \A i \in 1 .. Len(q) : q[i] # e
    BY DEF Elements
  <1>3. \A i \in 1 .. Len(q) + 1 : i \in 1 .. Len(q) \/ i = Len(q) + 1
    BY <1>1
  <1> QED
    BY <1>1, <1>2, <1>3

\* A task posted goes behind what was taken and what is in the list.
LEMMA PostBehind ==
    ASSUME NEW a \in Seq(Tasks), NEW b \in Seq(Tasks), NEW e \in Tasks
    PROVE  Append(a \o b, e) = a \o Append(b, e)
  OBVIOUS

\* The task that is taken comes behind those taken before it, and is none of
\* them if none is doubled.
LEMMA TakeHead ==
    ASSUME NEW a \in Seq(Tasks), NEW b \in Seq(Tasks), b # <<>>
    PROVE  /\ Head(b) \in Tasks /\ Tail(b) \in Seq(Tasks)
           /\ a \o b = Append(a, Head(b)) \o Tail(b)
           /\ (\A i, j \in 1 .. Len(a \o b) : (a \o b)[i] = (a \o b)[j] => i = j)
                => Head(b) \notin Elements(a)
  <1>1. /\ Tail(b) \in Seq(Tasks) /\ Head(b) \in Tasks /\ Head(b) = b[1]
        /\ Len(b) \in Nat \ {0} /\ Len(a) \in Nat
    BY HeadTailProperties, EmptySeq, LenProperties
  <1>2. b = <<Head(b)>> \o Tail(b)
    BY <1>1
  <1> DEFINE h == Head(b)
             t == Tail(b)
  <1>3. h \in Tasks /\ t \in Seq(Tasks) /\ b = <<h>> \o t
    BY <1>1, <1>2
  <1>4. a \o b = Append(a, h) \o t
    <2> HIDE DEF h, t
    <2>1. a \o (<<h>> \o t) = Append(a, h) \o t
      BY <1>3
    <2> QED
      BY <1>3, <2>1
  <1>5. /\ Len(a \o b) = Len(a) + Len(b)
        /\ (a \o b)[Len(a) + 1] = Head(b)
        /\ \A i \in 1 .. Len(a) : (a \o b)[i] = a[i]
    BY <1>1, ConcatProperties
  <1>6. ASSUME \A i, j \in 1 .. Len(a \o b) : (a \o b)[i] = (a \o b)[j] => i = j,
               NEW i \in 1 .. Len(a), a[i] = Head(b)
        PROVE  FALSE
    <2>1. /\ Len(a) + 1 \in 1 .. Len(a \o b) /\ i \in 1 .. Len(a \o b)
          /\ i # Len(a) + 1
      BY <1>1, <1>5
    <2> QED
      BY <1>5, <1>6, <2>1
  <1> QED
    BY <1>1, <1>4, <1>6 DEF Elements

-----------------------------------------------------------------------------
(* The scheduler.                                                          *)

TaskInv == SchedulerInv /\ OnceInv

LEMMA TaskInit == Init => TaskInv
  <1> SUFFICES ASSUME Init PROVE TaskInv
    OBVIOUS
  <1> USE DEF Init
  <1>1. TypeOK /\ OnceInv
    <2>1. <<>> \in Seq(Tasks) /\ Len(<<>>) = 0
      OBVIOUS
    <2>2. TypeOK
      BY <2>1 DEF TypeOK, Places, StartPlaces
    <2>3. OnceInv
      BY <2>1 DEF OnceInv
    <2> QED
      BY <2>2, <2>3
  <1>2. TakenOnceInOrder
    <2>1. Elements(<<>>) = {}
      BY DEF Elements
    <2>2. <<>> = <<>> \o taskList
      OBVIOUS
    <2> QED
      BY <2>1, <2>2 DEF TakenOnceInOrder
  <1>3. NoLostSignal
    BY DEF NoLostSignal
  <1> QED
    BY <1>1, <1>2, <1>3 DEF TaskInv, SchedulerInv

LEMMA TaskTypeStep == TaskInv /\ [Next]_vars => TypeOK'
  <1> SUFFICES ASSUME TypeOK, OnceInv, [Next]_vars PROVE TypeOK'
    BY DEF TaskInv, SchedulerInv
  <1> USE DEF TypeOK, control, worker, history
  <1>1. ASSUME NEW w \in Workers, NEW place \in Places, Goto(w, place)
        PROVE  pc' \in [Workers -> Places]
    BY <1>1 DEF Goto
  <1>2. CASE StartSet \/ StopSet
    BY <1>2 DEF StartSet, StopSet
  <1>3. CASE StartNotify \/ StopNotify
    BY <1>3 DEF StartNotify, StopNotify, Places, StartPlaces
  <1>4. ASSUME NEW task \in Tasks, Post(task) PROVE TypeOK'
    BY <1>4, AppendProperties DEF Post
  <1>5. CASE Notify
    <2>1. pc' \in [Workers -> Places]
      BY <1>1, <1>5 DEF Notify, Places
    <2> QED
      BY <1>5, <2>1 DEF Notify
  <1>6. ASSUME NEW w \in Workers, GetTast(w) PROVE TypeOK'
    <2>1. pc' \in [Workers -> Places]
      BY <1>1, <1>6 DEF GetTast, Places
    <2>2. CASE taskList = <<>>
      BY <1>6, <2>1, <2>2 DEF GetTast
    <2>3. CASE taskList # <<>>
      <3>1. /\ Head(taskList) \in Tasks /\ Tail(taskList) \in Seq(Tasks)
            /\ Append(taken, Head(taskList)) \in Seq(Tasks)
        BY <2>3, HeadTailProperties, AppendProperties
      <3> QED
        BY <1>6, <2>1, <2>3, <3>1 DEF GetTast
    <2> QED
      BY <2>2, <2>3
  <1>7. ASSUME NEW w \in Workers, Complete(w) PROVE TypeOK'
    <2>2. unit[w] \in Tasks
      BY <1>7 DEF Complete, OnceInv
    <2>1. pc' \in [Workers -> Places]
      BY <1>1, <1>7 DEF Complete, Places
    <2> QED
      BY <1>7, <2>1, <2>2 DEF Complete
  <1>8. ASSUME NEW w \in Workers,
               StartTest(w) \/ StartSleep(w) \/ Empty(w) \/ Wait(w) \/ Loop(w) \/ SpuriousWakeup(w)
        PROVE  TypeOK'
    <2>1. pc' \in [Workers -> Places]
      BY <1>1, <1>8 DEF StartTest, StartSleep, Empty, Wait, Loop, SpuriousWakeup, Places, StartPlaces
    <2> QED
      BY <1>8, <2>1 DEF StartTest, StartSleep, Empty, Wait, Loop, SpuriousWakeup
  <1>9. CASE UNCHANGED vars
    BY <1>9 DEF vars
  <1> QED
    BY <1>2, <1>3, <1>4, <1>5, <1>6, <1>7, <1>8, <1>9 DEF Next, Work


\* A step that posts, takes and completes nothing keeps what was.
LEMMA TasksStay ==
    ASSUME TaskInv, UNCHANGED <<taskList, unit, history>>,
           \A w \in Workers : pc'[w] = "complete" <=> pc[w] = "complete"
    PROVE  TakenOnceInOrder' /\ OnceInv'
  <1>1. /\ taskList' = taskList /\ unit' = unit
        /\ pushed' = pushed /\ taken' = taken /\ completed' = completed
    BY DEF history
  <1>2. TakenOnceInOrder /\ OnceInv
    BY DEF TaskInv, SchedulerInv
  <1>3. TakenOnceInOrder'
    <2>1. pushed' = taken' \o taskList'
      BY <1>1, <1>2 DEF TakenOnceInOrder
    <2>2. \A v, w \in Workers : v # w /\ unit'[v] # NULL => unit'[v] # unit'[w]
      BY <1>1, <1>2 DEF TakenOnceInOrder
    <2>3. Elements(taken)' = Elements(taken)
      BY <1>1 DEF Elements
    <2>4. (Elements(taken) = completed' \cup ({unit'[w] : w \in Workers} \ {NULL}))
      BY <1>1, <1>2 DEF TakenOnceInOrder
    <2> QED
      BY <2>1, <2>2, <2>3, <2>4 DEF TakenOnceInOrder
  <1>4. OnceInv'
    BY <1>1, <1>2 DEF OnceInv
  <1> QED
    BY <1>3, <1>4

\* Each task posted is taken once, in order, by one worker.
LEMMA TakenStep == TaskInv /\ [Next]_vars => TakenOnceInOrder' /\ OnceInv'
  <1> SUFFICES ASSUME TaskInv, [Next]_vars PROVE TakenOnceInOrder' /\ OnceInv'
    OBVIOUS
  <1>1. /\ TypeOK /\ TakenOnceInOrder /\ OnceInv
        /\ taskList \in Seq(Tasks) /\ pushed \in Seq(Tasks) /\ taken \in Seq(Tasks)
        /\ pc \in [Workers -> Places] /\ unit \in [Workers -> Tasks \cup {NULL}]
    BY DEF TaskInv, SchedulerInv, TypeOK
  <1>2. ASSUME NEW w \in Workers, NEW place, Goto(w, place), place # "complete", pc[w] # "complete"
        PROVE  \A v \in Workers : pc'[v] = "complete" <=> pc[v] = "complete"
    BY <1>1, <1>2 DEF Goto
  <1>3. CASE StartSet \/ StopSet
    BY <1>3, TasksStay DEF StartSet, StopSet, worker
  <1>4. CASE StartNotify \/ StopNotify
    <2>1. \A v \in Workers : pc'[v] = "complete" <=> pc[v] = "complete"
      BY <1>1, <1>4 DEF StartNotify, StopNotify
    <2> QED
      BY <1>4, <2>1, TasksStay DEF StartNotify, StopNotify
  <1>5. CASE Notify
    <2>1. \A v \in Workers : pc'[v] = "complete" <=> pc[v] = "complete"
      BY <1>2, <1>5 DEF Notify
    <2> QED
      BY <1>5, <2>1, TasksStay DEF Notify
  <1>6. ASSUME NEW w \in Workers,
               StartTest(w) \/ StartSleep(w) \/ Empty(w) \/ Wait(w) \/ Loop(w) \/ SpuriousWakeup(w)
        PROVE  TakenOnceInOrder' /\ OnceInv'
    <2>1. \A v \in Workers : pc'[v] = "complete" <=> pc[v] = "complete"
      BY <1>2, <1>6 DEF StartTest, StartSleep, Empty, Wait, Loop, SpuriousWakeup
    <2> QED
      BY <1>6, <2>1, TasksStay DEF StartTest, StartSleep, Empty, Wait, Loop, SpuriousWakeup
  <1>7. ASSUME NEW task \in Tasks, Post(task) PROVE TakenOnceInOrder' /\ OnceInv'
    <2>1. /\ task \notin Elements(pushed)
          /\ taskList' = Append(taskList, task) /\ pushed' = Append(pushed, task)
          /\ UNCHANGED <<pc, unit, taken, completed>>
      BY <1>7 DEF Post, worker
    <2>2. pushed' = taken' \o taskList'
      <3>1. pushed = taken \o taskList
        BY <1>1 DEF TakenOnceInOrder
      <3>2. Append(taken \o taskList, task) = taken \o Append(taskList, task)
        BY <1>1, PostBehind
      <3> QED
        BY <2>1, <3>1, <3>2
    <2>3. \A i, j \in 1 .. Len(pushed') : pushed'[i] = pushed'[j] => i = j
      <3>1. \A i, j \in 1 .. Len(pushed) : pushed[i] = pushed[j] => i = j
        BY <1>1 DEF OnceInv
      <3>2. pushed \in Seq(Tasks) /\ task \notin Elements(pushed)
        BY <1>1, <2>1
      <3>3. \A i, j \in 1 .. Len(Append(pushed, task)) :
              Append(pushed, task)[i] = Append(pushed, task)[j] => i = j
        BY <3>1, <3>2, AppendOnce
      <3> QED
        BY <2>1, <3>3
    <2>4. OnceInv'
      BY <1>1, <2>1, <2>3 DEF OnceInv
    <2>5. TakenOnceInOrder'
      <3>1. Elements(taken)' = Elements(taken)
        BY <2>1 DEF Elements
      <3> QED
        BY <1>1, <2>1, <2>2, <3>1 DEF TakenOnceInOrder
    <2> QED
      BY <2>4, <2>5
  <1>8. ASSUME NEW w \in Workers, GetTast(w) PROVE TakenOnceInOrder' /\ OnceInv'
    <2>1. CASE taskList = <<>>
      <3>1. \A v \in Workers : pc'[v] = "complete" <=> pc[v] = "complete"
        BY <1>2, <1>8, <2>1 DEF GetTast
      <3> QED
        BY <1>8, <2>1, <3>1, TasksStay DEF GetTast, history
    <2>2. CASE taskList # <<>>
      <3> DEFINE h == Head(taskList)
      <3>1. /\ unit' = [unit EXCEPT ![w] = h] /\ taken' = Append(taken, h)
            /\ taskList' = Tail(taskList) /\ pc' = [pc EXCEPT ![w] = "complete"]
            /\ UNCHANGED <<pushed, completed>> /\ pc[w] = "get"
        BY <1>8, <2>2 DEF GetTast, Goto
      <3>2. pushed = taken \o taskList
        BY <1>1 DEF TakenOnceInOrder
      <3>3. /\ h \in Tasks /\ pushed = Append(taken, h) \o Tail(taskList)
            /\ h \notin Elements(taken)
        <4>1. \A i, j \in 1 .. Len(taken \o taskList) :
                (taken \o taskList)[i] = (taken \o taskList)[j] => i = j
          BY <1>1, <3>2 DEF OnceInv
        <4> QED
          BY <1>1, <2>2, <3>2, <4>1, TakeHead
      <3>4. Elements(taken)' = Elements(taken) \cup {h}
        <4>1. Elements(Append(taken, h)) = Elements(taken) \cup {h}
          BY <1>1, <3>3, ElementsAppend
        <4>2. Elements(taken)' = Elements(Append(taken, h))
          BY <3>1 DEF Elements
        <4> QED
          BY <4>1, <4>2
      <3> HIDE DEF h
      <3>5. unit[w] = NULL /\ h # NULL
        BY <1>1, <3>1, <3>3, UnitAssumption DEF OnceInv
      <3>6. \A v \in Workers : unit'[v] = IF v = w THEN h ELSE unit[v]
        BY <1>1, <3>1
      <3>7. \A v \in Workers : unit[v] # NULL => unit[v] \in Elements(taken)
        BY <1>1 DEF TakenOnceInOrder
      <3>8. \A u, v \in Workers : u # v /\ unit'[u] # NULL => unit'[u] # unit'[v]
        <4> SUFFICES ASSUME NEW u \in Workers, NEW v \in Workers, u # v, unit'[u] # NULL
                     PROVE  unit'[u] # unit'[v]
          OBVIOUS
        <4>1. CASE u = w
          BY <3>3, <3>5, <3>6, <3>7, <4>1
        <4>2. CASE u # w
          <5>1. unit[u] # NULL /\ unit'[u] = unit[u] /\ unit[u] # h
            BY <3>3, <3>6, <3>7, <4>2
          <5> QED
            BY <1>1, <3>6, <5>1 DEF TakenOnceInOrder
        <4> QED
          BY <4>1, <4>2
      <3>9. {unit'[v] : v \in Workers} \ {NULL} = ({unit[v] : v \in Workers} \ {NULL}) \cup {h}
        BY <3>5, <3>6
      <3>10. Elements(taken)' = completed' \cup ({unit'[v] : v \in Workers} \ {NULL})
        BY <1>1, <3>1, <3>4, <3>9 DEF TakenOnceInOrder
      <3>11. TakenOnceInOrder'
        BY <3>1, <3>3, <3>8, <3>10 DEF TakenOnceInOrder
      <3>12. OnceInv'
        BY <1>1, <3>1, <3>5, <3>6 DEF OnceInv
      <3> QED
        BY <3>11, <3>12
    <2> QED
      BY <2>1, <2>2
  <1>9. ASSUME NEW w \in Workers, Complete(w) PROVE TakenOnceInOrder' /\ OnceInv'
    <2>1. /\ completed' = completed \cup {unit[w]} /\ unit' = [unit EXCEPT ![w] = NULL]
          /\ pc' = [pc EXCEPT ![w] = "loop"] /\ pc[w] = "complete"
          /\ UNCHANGED <<taskList, pushed, taken>>
      BY <1>9 DEF Complete, Goto
    <2>2. unit[w] # NULL
      BY <1>1, <2>1 DEF OnceInv
    <2>3. \A v \in Workers : unit'[v] = IF v = w THEN NULL ELSE unit[v]
      BY <1>1, <2>1
    <2>4. OnceInv'
      BY <1>1, <2>1, <2>3 DEF OnceInv
    <2>5. \A v \in Workers : v # w => unit[v] # unit[w]
      BY <1>1, <2>2 DEF TakenOnceInOrder
    <2>6. completed' \cup ({unit'[v] : v \in Workers} \ {NULL})
            = completed \cup ({unit[v] : v \in Workers} \ {NULL})
      BY <2>1, <2>2, <2>3
    <2>7. Elements(taken)' = Elements(taken)
      BY <2>1 DEF Elements
    <2>8. \A u, v \in Workers : u # v /\ unit'[u] # NULL => unit'[u] # unit'[v]
      BY <1>1, <2>3 DEF TakenOnceInOrder
    <2>9. TakenOnceInOrder'
      BY <1>1, <2>1, <2>6, <2>7, <2>8 DEF TakenOnceInOrder
    <2> QED
      BY <2>4, <2>9
  <1>10. CASE UNCHANGED vars
    BY <1>10, TasksStay DEF vars, worker
  <1> QED
    BY <1>3, <1>4, <1>5, <1>6, <1>7, <1>8, <1>9, <1>10 DEF Next, Work

\* While there is a task, a worker that has started is awake or about to be
\* woken.
LEMMA SignalStep == TaskInv /\ [Next]_vars => NoLostSignal'
  <1> SUFFICES ASSUME TaskInv, [Next]_vars PROVE NoLostSignal'
    OBVIOUS
  <1> DEFINE Awake(w) == Started(w) /\ pc[w] # "waiting"
  <1>1. /\ TypeOK /\ NoLostSignal /\ notices \in Nat /\ pc \in [Workers -> Places]
    BY DEF TaskInv, SchedulerInv, TypeOK
  <1>2. ASSUME NEW w \in Workers, pc'[w] \notin StartPlaces, pc'[w] # "waiting" PROVE NoLostSignal'
    BY <1>2 DEF NoLostSignal, Started
  <1>3. ASSUME NEW w \in Workers, NEW place, Goto(w, place)
        PROVE  \A v \in Workers : pc'[v] = IF v = w THEN place ELSE pc[v]
    BY <1>1, <1>3 DEF Goto
  <1>4. CASE StartSet \/ StopSet
    <2>1. UNCHANGED <<taskList, pc, notices>> /\ (workStart' => workStart)
      BY <1>4 DEF StartSet, StopSet, worker
    <2> QED
      BY <1>1, <2>1 DEF NoLostSignal, Started
  <1>5. CASE StartNotify \/ StopNotify
    <2>1. UNCHANGED <<taskList, workStart, notices>>
      BY <1>5 DEF StartNotify, StopNotify
    <2>2. \A w \in Workers : Started(w)' <=> Started(w)
      BY <1>1, <1>5 DEF StartNotify, StopNotify, Started, StartPlaces
    <2>3. \A w \in Workers : pc[w] # "waiting" => pc'[w] # "waiting"
      BY <1>1, <1>5 DEF StartNotify, StopNotify
    <2> QED
      BY <1>1, <2>1, <2>2, <2>3 DEF NoLostSignal
  <1>6. ASSUME NEW task \in Tasks, Post(task) PROVE NoLostSignal'
    <2>1. notices' > 0
      BY <1>1, <1>6 DEF Post
    <2> QED
      BY <2>1 DEF NoLostSignal
  <1>7. CASE Notify
    <2>1. ASSUME NEW w \in Workers, Goto(w, "wait") PROVE NoLostSignal'
      <3>1. pc'[w] = "wait"
        BY <1>3, <2>1
      <3> QED
        BY <1>2, <3>1 DEF StartPlaces
    <2>2. CASE (\A w \in Workers : pc[w] # "waiting") /\ UNCHANGED pc
      BY <2>2 DEF NoLostSignal, Started
    <2> QED
      BY <1>7, <2>1, <2>2 DEF Notify
  <1>8. ASSUME NEW w \in Workers, StartTest(w) \/ StartSleep(w) \/ (pc[w] = "startWaiting" /\ SpuriousWakeup(w))
        PROVE  NoLostSignal'
    <2>1. /\ UNCHANGED <<taskList, workStart, notices>>
          /\ \E place \in {"get", "startSleep", "startWaiting", "startTest"} : Goto(w, place)
      BY <1>8 DEF StartTest, StartSleep, SpuriousWakeup, control
    <2>2. PICK place \in {"get", "startSleep", "startWaiting", "startTest"} : Goto(w, place)
      BY <2>1
    <2>3. \A v \in Workers : pc'[v] = IF v = w THEN place ELSE pc[v]
      BY <1>3, <2>2
    <2>4. CASE place = "get"
      BY <1>2, <2>3, <2>4 DEF StartPlaces
    <2>5. CASE place # "get"
      <3>1. pc[w] \in StartPlaces
        BY <1>8 DEF StartTest, StartSleep, StartPlaces
      <3>2. \A v \in Workers : (Started(v)' <=> Started(v)) /\ (Started(v) => pc'[v] = pc[v])
        BY <2>2, <2>3, <2>5, <3>1 DEF Started, StartPlaces
      <3> QED
        BY <1>1, <2>1, <3>2 DEF NoLostSignal
    <2> QED
      BY <2>4, <2>5
  <1>9. ASSUME NEW w \in Workers,
               GetTast(w) \/ Complete(w) \/ Empty(w) \/ Loop(w) \/ (pc[w] = "waiting" /\ SpuriousWakeup(w))
        PROVE  NoLostSignal'
    <2>1. \E place \in {"complete", "empty", "loop", "wait", "get", "exited"} : Goto(w, place)
      BY <1>9 DEF GetTast, Complete, Empty, Loop, SpuriousWakeup
    <2>2. pc'[w] \in {"complete", "empty", "loop", "wait", "get", "exited"}
      BY <1>3, <2>1
    <2> QED
      BY <1>2, <2>2 DEF StartPlaces
  <1>10. ASSUME NEW w \in Workers, Wait(w) PROVE NoLostSignal'
    <2>1. CASE taskList = <<>>
      BY <1>10, <2>1 DEF Wait, NoLostSignal
    <2>2. CASE taskList # <<>>
      <3>1. pc'[w] = "loop"
        BY <1>3, <1>10, <2>2 DEF Wait
      <3> QED
        BY <1>2, <3>1 DEF StartPlaces
    <2> QED
      BY <2>1, <2>2
  <1>11. CASE UNCHANGED vars
    BY <1>1, <1>11 DEF vars, control, worker, NoLostSignal, Started
  <1>12. ASSUME NEW w \in Workers, SpuriousWakeup(w) PROVE NoLostSignal'
    BY <1>8, <1>9, <1>12 DEF SpuriousWakeup
  <1> QED
    BY <1>4, <1>5, <1>6, <1>7, <1>8, <1>9, <1>10, <1>11, <1>12 DEF Next, Work

LEMMA TaskStep == TaskInv /\ [Next]_vars => TaskInv'
  BY TaskTypeStep, TakenStep, SignalStep DEF TaskInv, SchedulerInv

\* Nothing posted is lost, doubled or overtaken, and no notification is lost.
THEOREM SchedulerInvariant == Spec => []TaskInv
  BY TaskInit, TaskStep, PTL DEF Spec

\* Every task is in the list or was taken by one worker, in order, and while one
\* is there a worker is awake or about to be woken.
THEOREM SchedulerCorrect == Spec => []SchedulerInv
  <1>1. TaskInv => SchedulerInv
    BY DEF TaskInv
  <1> QED
    BY <1>1, SchedulerInvariant, PTL

-----------------------------------------------------------------------------
(* The signals.                                                            *)

\* Whatever a signal interrupts, the scheduler takes its own steps.
LEMMA StillNext == SigNext => [Next]_vars
  <1> SUFFICES ASSUME SigNext PROVE [Next]_vars
    OBVIOUS
  <1>1. ASSUME Locks PROVE Next
    BY <1>1 DEF Locks, Next, Work
  <1>2. ASSUME LockFree PROVE Next
    BY <1>2 DEF LockFree, LockFreeWork, Next, Work
  <1>3. ASSUME NEW s \in Signals, CatchSignal(s) PROVE [Next]_vars
    <2>1. s \in Tasks
      BY SignalAssumption
    <2>2. Post(s) \/ UNCHANGED vars
      BY <1>3 DEF CatchSignal
    <2> QED
      BY <2>1, <2>2 DEF Next
  <1>4. ASSUME NEW w \in Workers, SignalFunc(w) PROVE [Next]_vars
    <2>1. StopSet \/ UNCHANGED vars
      BY <1>4 DEF SignalFunc
    <2> QED
      BY <2>1 DEF Next
  <1>5. ASSUME NEW s \in Signals, AddIgnoreSignal(s) \/ AddSignal(s) \/ Uncaught(s) PROVE UNCHANGED vars
    BY <1>5 DEF AddIgnoreSignal, AddSignal, Uncaught
  <1>6. ASSUME NEW s \in Signals, NEW w \in Workers, CatchInLock(s, w) PROVE UNCHANGED vars
    BY <1>6 DEF CatchInLock
  <1>7. CASE InitControl \/ AsyncWait
    BY <1>7 DEF InitControl, AsyncWait
  <1> QED
    BY <1>1, <1>2, <1>3, <1>4, <1>5, <1>6, <1>7 DEF SigNext

\* Under signals the scheduler is still one.
THEOREM SchedulerUnderSignals == SigSpec => Spec
  <1>1. SigInit => Init
    BY DEF SigInit
  <1>2. [SigNext]_sigVars => [Next]_vars
    <2>1. UNCHANGED sigVars => UNCHANGED vars
      BY DEF sigVars
    <2> QED
      BY <2>1, StillNext
  <1> QED
    BY <1>1, <1>2, PTL DEF SigSpec, Spec

\* The signals' part of the invariant.
Handled == SigTypeOK /\ OnlyALaterSignalCrashes /\ HandlersInv

LEMMA SignalInit == SigInit => Handled
  <1> SUFFICES ASSUME SigInit PROVE Handled
    OBVIOUS
  <1>1. Elements(pushed) = {}
    BY DEF SigInit, Init, Elements
  <1> QED
    BY <1>1 DEF SigInit, Handled, SigTypeOK, OnlyALaterSignalCrashes, HandlersInv

\* A signal that has run or runs stays one.
LEMMA BeforeStays ==
    ASSUME TaskInv, [Next]_vars, delivered \subseteq delivered', delivered \subseteq Signals, SignalBefore
    PROVE  SignalBefore'
  <1>1. PICK s \in delivered : s \in completed \/ \E w \in Workers : unit[w] = s
    BY DEF SignalBefore
  <1>2. s # NULL
    BY SignalAssumption, UnitAssumption
  <1>3. completed \subseteq completed'
    BY DEF Next, Work, StartSet, StartNotify, StopSet, StopNotify, Post, Notify, StartTest, StartSleep,
           GetTast, Complete, Empty, Wait, Loop, SpuriousWakeup, vars, history
  <1>4. ASSUME NEW w \in Workers, unit[w] = s, unit[w] # NULL PROVE unit'[w] = s \/ s \in completed'
    <2>1. unit \in [Workers -> Tasks \cup {NULL}] /\ pc[w] = "complete"
      BY <1>4 DEF TaskInv, SchedulerInv, TypeOK, OnceInv
    <2>2. ASSUME NEW v \in Workers, GetTast(v) PROVE unit'[w] = s
      <3>1. pc[v] = "get" /\ v # w
        BY <2>1, <2>2 DEF GetTast
      <3> QED
        BY <1>4, <2>1, <2>2, <3>1 DEF GetTast
    <2>3. ASSUME NEW v \in Workers, Complete(v) PROVE unit'[w] = s \/ s \in completed'
      BY <1>4, <2>1, <2>3 DEF Complete
    <2>4. (\E v \in Workers : GetTast(v) \/ Complete(v)) \/ UNCHANGED unit
      BY DEF Next, Work, StartSet, StartNotify, StopSet, StopNotify, Post, Notify, StartTest, StartSleep,
             Empty, Wait, Loop, SpuriousWakeup, vars, worker
    <2> QED
      BY <1>4, <2>2, <2>3, <2>4
  <1> QED
    BY <1>1, <1>2, <1>3, <1>4 DEF SignalBefore


LEMMA SignalsStep == TaskInv /\ Handled /\ [SigNext]_sigVars => Handled'
  <1> SUFFICES ASSUME TaskInv, Handled, [SigNext]_sigVars PROVE Handled'
    OBVIOUS
  <1> USE DEF signal
  <1>1. /\ SigTypeOK /\ OnlyALaterSignalCrashes /\ HandlersInv
        /\ unit \in [Workers -> Tasks \cup {NULL}] /\ pushed \in Seq(Tasks)
        /\ delivered \subseteq Signals /\ sSignalSet \subseteq Signals
    BY DEF Handled, TaskInv, SchedulerInv, TypeOK, SigTypeOK
  <1>2. [Next]_vars
    BY StillNext DEF sigVars
  <1>3. delivered \subseteq delivered' /\ SignalBefore => SignalBefore'
    BY <1>1, <1>2, BeforeStays
  <1>4. ASSUME UNCHANGED vars PROVE Elements(pushed)' = Elements(pushed)
    BY <1>4 DEF vars, history, Elements
  <1>5. ASSUME UNCHANGED signal, Elements(pushed)' \cap Signals \subseteq Elements(pushed) PROVE Handled'
    <2>1. SigTypeOK'
      BY <1>1, <1>5 DEF SigTypeOK
    <2>2. SignalBefore => SignalBefore'
      BY <1>3, <1>5
    <2>3. OnlyALaterSignalCrashes' /\ HandlersInv'
      BY <1>1, <1>5, <2>2 DEF OnlyALaterSignalCrashes, HandlersInv
    <2> QED
      BY <2>1, <2>3 DEF Handled
  <1>6. ASSUME Locks, UNCHANGED signal PROVE Handled'
    <2>1. ASSUME NEW task \in Tasks \ Signals, Post(task)
          PROVE  Elements(pushed)' \cap Signals \subseteq Elements(pushed)
      <3>1. Elements(Append(pushed, task)) = Elements(pushed) \cup {task}
        BY <1>1, ElementsAppend
      <3>2. Elements(pushed)' = Elements(Append(pushed, task))
        BY <2>1 DEF Post, Elements
      <3> QED
        BY <3>1, <3>2
    <2>2. ASSUME NEW w \in Workers, GetTast(w) \/ Wait(w)
          PROVE  Elements(pushed)' \cap Signals \subseteq Elements(pushed)
      BY <2>2 DEF GetTast, Wait, history, Elements
    <2> QED
      BY <1>5, <1>6, <2>1, <2>2 DEF Locks
  <1>7. ASSUME LockFree, UNCHANGED signal PROVE Handled'
    <2>1. UNCHANGED pushed
      BY <1>7 DEF LockFree, LockFreeWork, StartSet, StartNotify, StopSet, StopNotify, Notify, StartTest,
                  StartSleep, Empty, Loop, Complete, SpuriousWakeup, history
    <2>2. Elements(pushed)' \cap Signals \subseteq Elements(pushed)
      BY <2>1 DEF Elements
    <2> QED
      BY <1>5, <1>7, <2>2
  <1>8. CASE InitControl
    <2>1. UNCHANGED <<vars, sSignalSet, waits, disposition, delivered, stuck, process>> /\ ~waits
          /\ sScheduler' = TRUE
      BY <1>8 DEF InitControl
    <2>2. SigTypeOK'
      BY <1>1, <2>1 DEF SigTypeOK
    <2>3. SignalBefore => SignalBefore'
      BY <1>3, <2>1
    <2>4. OnlyALaterSignalCrashes' /\ HandlersInv'
      BY <1>1, <1>4, <2>1, <2>3 DEF OnlyALaterSignalCrashes, HandlersInv
    <2> QED
      BY <2>2, <2>4 DEF Handled
  <1>9. CASE AsyncWait
    <2>1. /\ UNCHANGED <<vars, sScheduler, sSignalSet, delivered, stuck, process>> /\ sScheduler
          /\ waits' = TRUE
          /\ disposition' = [s \in Signals |-> IF s \in sSignalSet THEN "handler" ELSE disposition[s]]
      BY <1>9 DEF AsyncWait
    <2>2. SigTypeOK'
      BY <1>1, <2>1 DEF SigTypeOK
    <2>3. SignalBefore => SignalBefore'
      BY <1>3, <2>1
    <2>4. OnlyALaterSignalCrashes' /\ HandlersInv'
      BY <1>1, <1>4, <2>1, <2>3 DEF OnlyALaterSignalCrashes, HandlersInv
    <2> QED
      BY <2>2, <2>4 DEF Handled
  <1>10. ASSUME NEW s \in Signals, AddIgnoreSignal(s) \/ AddSignal(s) PROVE Handled'
    <2>1. /\ UNCHANGED <<vars, sScheduler, waits, delivered, stuck, process>>
          /\ disposition' \in {disposition, [disposition EXCEPT ![s] = "ignore"]}
          /\ sSignalSet' \subseteq Signals
      BY <1>1, <1>10 DEF AddIgnoreSignal, AddSignal
    <2>2. SigTypeOK' /\ \A r \in Signals : disposition'[r] = "handler" => disposition[r] = "handler"
      BY <1>1, <2>1 DEF SigTypeOK
    <2>3. SignalBefore => SignalBefore'
      BY <1>3, <2>1
    <2>4. OnlyALaterSignalCrashes' /\ HandlersInv'
      BY <1>1, <1>4, <2>1, <2>2, <2>3 DEF OnlyALaterSignalCrashes, HandlersInv
    <2> QED
      BY <2>2, <2>4 DEF Handled
  <1>11. ASSUME NEW s \in Signals, Uncaught(s), process = "runs" PROVE Handled'
    <2>1. /\ UNCHANGED <<vars, sScheduler, sSignalSet, waits, disposition, stuck>>
          /\ delivered' = delivered \cup {s} /\ process' \in {"killed", "runs"}
      BY <1>11 DEF Uncaught, Comes
    <2>2. SigTypeOK'
      BY <1>1, <2>1 DEF SigTypeOK
    <2>3. SignalBefore => SignalBefore'
      BY <1>3, <2>1
    <2>4. OnlyALaterSignalCrashes' /\ HandlersInv'
      BY <1>1, <1>4, <2>1, <2>3 DEF OnlyALaterSignalCrashes, HandlersInv
    <2> QED
      BY <2>2, <2>4 DEF Handled
  <1>12. ASSUME NEW s \in Signals, CatchSignal(s), process = "runs" PROVE Handled'
    <2>1. /\ delivered' = delivered \cup {s} /\ disposition[s] = "handler"
          /\ UNCHANGED <<sScheduler, sSignalSet, waits, disposition, stuck>>
      BY <1>12 DEF CatchSignal, Comes
    <2>2. SignalBefore => SignalBefore'
      BY <1>3, <2>1
    <2>3. Elements(pushed)' \subseteq Elements(pushed) \cup {s}
      <3>1. CASE Post(s)
        <4>1. Elements(Append(pushed, s)) = Elements(pushed) \cup {s}
          BY <1>1, ElementsAppend, SignalAssumption
        <4>2. Elements(pushed)' = Elements(Append(pushed, s))
          BY <3>1 DEF Post, Elements
        <4> QED
          BY <4>1, <4>2
      <3> QED
        BY <1>4, <1>12, <3>1 DEF CatchSignal
    <2>4. process' = "runs" \/ (process' = "crashed" /\ ~sScheduler)
      BY <1>12 DEF CatchSignal
    <2>5. SigTypeOK'
      BY <1>1, <2>1, <2>4 DEF SigTypeOK
    <2>6. HandlersInv'
      BY <1>1, <2>1, <2>2, <2>3 DEF HandlersInv
    <2>7. OnlyALaterSignalCrashes'
      BY <1>1, <2>1, <2>2, <2>4 DEF OnlyALaterSignalCrashes, HandlersInv
    <2> QED
      BY <2>5, <2>6, <2>7 DEF Handled
  <1>13. ASSUME NEW s \in Signals, NEW w \in Workers, CatchInLock(s, w) PROVE Handled'
    <2>1. /\ UNCHANGED <<vars, sScheduler, sSignalSet, waits, disposition, process>>
          /\ delivered' = delivered \cup {s} /\ stuck' = w
      BY <1>13 DEF CatchInLock, Comes
    <2>2. SigTypeOK'
      BY <1>1, <2>1 DEF SigTypeOK
    <2>3. SignalBefore => SignalBefore'
      BY <1>3, <2>1
    <2>4. OnlyALaterSignalCrashes' /\ HandlersInv'
      BY <1>1, <1>4, <2>1, <2>3 DEF OnlyALaterSignalCrashes, HandlersInv
    <2> QED
      BY <2>2, <2>4 DEF Handled
  <1>14. ASSUME NEW w \in Workers, SignalFunc(w) PROVE Handled'
    <2>1. /\ unit[w] \in Signals /\ sScheduler' = FALSE
          /\ UNCHANGED <<sSignalSet, waits, disposition, delivered, stuck, process>>
          /\ UNCHANGED <<unit, pushed, completed>>
      BY <1>14 DEF SignalFunc, StopSet, vars, worker, history
    <2>2. unit[w] \in Elements(pushed)
      <3>1. unit[w] \in Elements(taken)
        BY <1>1, <2>1, SignalAssumption, UnitAssumption DEF TaskInv, SchedulerInv, TakenOnceInOrder
      <3>2. Elements(taken) \subseteq Elements(taken \o taskList)
        <4>1. taken \in Seq(Tasks) /\ taskList \in Seq(Tasks)
          BY DEF TaskInv, SchedulerInv, TypeOK
        <4>2. /\ Len(taken) \in Nat /\ Len(taskList) \in Nat
              /\ Len(taken \o taskList) = Len(taken) + Len(taskList)
              /\ \A i \in 1 .. Len(taken) : (taken \o taskList)[i] = taken[i]
          BY <4>1, ConcatProperties, LenProperties
        <4> QED
          BY <4>2 DEF Elements
      <3> QED
        BY <3>1, <3>2 DEF TaskInv, SchedulerInv, TakenOnceInOrder
    <2>3. unit[w] \in delivered
      BY <1>1, <2>1, <2>2 DEF HandlersInv
    <2>4. SignalBefore'
      BY <2>1, <2>3 DEF SignalBefore
    <2>5. SigTypeOK'
      BY <1>1, <2>1 DEF SigTypeOK
    <2>6. Elements(pushed)' = Elements(pushed)
      BY <2>1 DEF Elements
    <2>7. OnlyALaterSignalCrashes' /\ HandlersInv'
      BY <1>1, <2>1, <2>4, <2>6 DEF OnlyALaterSignalCrashes, HandlersInv
    <2> QED
      BY <2>5, <2>7 DEF Handled
  <1>15. CASE UNCHANGED sigVars
    BY <1>4, <1>5, <1>15 DEF sigVars
  <1> QED
    BY <1>6, <1>7, <1>8, <1>9, <1>10, <1>11, <1>12, <1>13, <1>14, <1>15 DEF SigNext

\* The first signal is safe: a handler follows a NULL pointer only behind
\* another signal.
THEOREM SignalInvariant == SigSpec => []ControlInv
  <1>1. SigInit => TaskInv /\ Handled
    BY TaskInit, SignalInit DEF SigInit
  <1>2. TaskInv /\ Handled /\ [SigNext]_sigVars => TaskInv' /\ Handled'
    <2>1. [SigNext]_sigVars => [Next]_vars
      BY StillNext DEF sigVars
    <2> QED
      BY <2>1, TaskStep, SignalsStep
  <1>3. TaskInv /\ Handled => ControlInv
    BY DEF TaskInv, Handled, ControlInv, SignalInv
  <1> QED
    BY <1>1, <1>2, <1>3, PTL DEF SigSpec

\* The scheduler keeps its tasks and its notifications whatever its handlers
\* interrupt, and the first signal is safe.
THEOREM SignalCorrect == SigSpec => []SignalInv
  <1>1. ControlInv => SignalInv
    BY DEF ControlInv
  <1> QED
    BY <1>1, SignalInvariant, PTL
=============================================================================
