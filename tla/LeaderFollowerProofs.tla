------------------------- MODULE LeaderFollowerProofs -------------------------
(***************************************************************************)
(* Proofs about LeaderFollower, for any number of workers, tasks, events   *)
(* and timers, any delays and any length of a second.                      *)
(***************************************************************************)
EXTENDS LeaderFollower, SequenceTheorems, FiniteSetTheorems, TLAPS

-----------------------------------------------------------------------------
(* Counting in sequences.                                                  *)

Where(q, x) == {i \in 1 .. Len(q) : q[i] = x}
Count(q, x) == Cardinality(Where(q, x))

LEMMA WhereIsFinite ==
    ASSUME NEW S, NEW q \in Seq(S), NEW x
    PROVE  IsFiniteSet(Where(q, x)) /\ Count(q, x) \in Nat
  <1>1. Len(q) \in Nat
    BY LenProperties
  <1>2. IsFiniteSet(1 .. Len(q))
    BY <1>1, FS_Interval
  <1>3. Where(q, x) \in SUBSET (1 .. Len(q))
    BY DEF Where
  <1>4. IsFiniteSet(Where(q, x))
    BY <1>2, <1>3, FS_Subset
  <1> QED
    BY <1>4, FS_CardinalityType DEF Count

\* Moving a finite set of places does not change how many they are.
LEMMA ShiftedPlaces ==
    ASSUME NEW S \in SUBSET Int, NEW n \in Int, IsFiniteSet(S)
    PROVE  /\ IsFiniteSet({i + n : i \in S})
           /\ Cardinality({i + n : i \in S}) = Cardinality(S)
  <1> DEFINE T == {i + n : i \in S}
             f == [i \in S |-> i + n]
  <1>0. f \in [S -> T] /\ \A i \in S : f[i] = i + n
    OBVIOUS
  <1>a. \A t \in T : \E i \in S : f[i] = t
    <2> TAKE t \in T
    <2>1. PICK i \in S : t = i + n
      OBVIOUS
    <2> QED
      BY <1>0, <2>1
  <1> HIDE DEF f, T
  <1>1. f \in Injection(S, T)
    BY <1>0 DEF Injection, IsInjective
  <1>2. f \in Surjection(S, T)
    BY <1>0, <1>a DEF Surjection
  <1>3. ExistsBijection(S, T)
    BY <1>1, <1>2 DEF ExistsBijection, Bijection
  <1> QED
    BY <1>3, FS_Bijection DEF T

LEMMA CountAppend ==
    ASSUME NEW S, NEW q \in Seq(S), NEW y \in S, NEW x
    PROVE  Count(Append(q, y), x) = Count(q, x) + (IF y = x THEN 1 ELSE 0)
  <1>1. /\ Len(q) \in Nat
        /\ Len(Append(q, y)) = Len(q) + 1
        /\ \A i \in 1 .. Len(q) : Append(q, y)[i] = q[i]
        /\ Append(q, y)[Len(q) + 1] = y
    BY AppendProperties, LenProperties
  <1>2. Where(Append(q, y), x) = IF y = x THEN Where(q, x) \cup {Len(q) + 1} ELSE Where(q, x)
    BY <1>1 DEF Where
  <1>3. Len(q) + 1 \notin Where(q, x)
    BY <1>1 DEF Where
  <1>4. IsFiniteSet(Where(q, x)) /\ Count(q, x) \in Nat
    BY WhereIsFinite
  <1>5. Cardinality(Where(q, x) \cup {Len(q) + 1}) = Cardinality(Where(q, x)) + 1
    BY <1>3, <1>4, FS_AddElement
  <1> QED
    BY <1>2, <1>4, <1>5 DEF Count

LEMMA CountEmpty ==
    ASSUME NEW x
    PROVE  Count(<<>>, x) = 0
  <1>1. Where(<<>>, x) = {}
    BY DEF Where
  <1> QED
    BY <1>1, FS_EmptySet DEF Count

LEMMA CountConcat ==
    ASSUME NEW S, NEW q \in Seq(S), NEW r \in Seq(S), NEW x
    PROVE  Count(q \o r, x) = Count(q, x) + Count(r, x)
  <1> DEFINE A == Where(q, x)
             B == Where(r, x)
             C == {i + Len(q) : i \in B}
  <1>1. /\ Len(q) \in Nat /\ Len(r) \in Nat
        /\ Len(q \o r) = Len(q) + Len(r)
        /\ \A i \in 1 .. Len(q) + Len(r) : (q \o r)[i] = IF i <= Len(q) THEN q[i] ELSE r[i - Len(q)]
    BY ConcatProperties, LenProperties
  <1>2. Where(q \o r, x) = A \cup C
    <2>1. ASSUME NEW i \in Where(q \o r, x) PROVE i \in A \cup C
      <3>1. i \in 1 .. Len(q) + Len(r) /\ (q \o r)[i] = x
        BY <1>1 DEF Where
      <3>2. CASE i <= Len(q)
        BY <1>1, <3>1, <3>2 DEF Where
      <3>3. CASE i > Len(q)
        <4>1. i - Len(q) \in B /\ (i - Len(q)) + Len(q) = i
          BY <1>1, <3>1, <3>3 DEF Where
        <4> QED
          BY <4>1
      <3> QED
        BY <1>1, <3>1, <3>2, <3>3
    <2>2. A \subseteq Where(q \o r, x)
      BY <1>1 DEF Where
    <2>3. ASSUME NEW i \in B PROVE i + Len(q) \in Where(q \o r, x)
      BY <1>1 DEF Where
    <2> QED
      BY <2>1, <2>2, <2>3
  <1>3. A \cap C = {}
    BY <1>1 DEF Where
  <1>4. IsFiniteSet(A) /\ IsFiniteSet(B) /\ Cardinality(A) \in Nat /\ Cardinality(B) \in Nat
    BY WhereIsFinite DEF Count
  <1>5. B \in SUBSET Int /\ Len(q) \in Int
    BY <1>1 DEF Where
  <1> HIDE DEF A, B
  <1>6. IsFiniteSet(C) /\ Cardinality(C) = Cardinality(B)
    BY <1>4, <1>5, ShiftedPlaces
  <1> HIDE DEF C
  <1>7. Cardinality(A \cup C) = Cardinality(A) + Cardinality(C) - Cardinality(A \cap C)
    BY <1>4, <1>6, FS_Union
  <1>8. Cardinality(A \cap C) = 0
    BY <1>3, FS_EmptySet
  <1>9. Cardinality(A \cup C) = Cardinality(A) + Cardinality(B)
    BY <1>4, <1>6, <1>7, <1>8
  <1> QED
    BY <1>2, <1>9 DEF Count, A, B

LEMMA CountTail ==
    ASSUME NEW S, NEW q \in Seq(S), q # <<>>, NEW x
    PROVE  Count(q, x) = Count(Tail(q), x) + (IF Head(q) = x THEN 1 ELSE 0)
  <1> DEFINE B == Where(Tail(q), x)
             C == {i + 1 : i \in B}
  <1>1. /\ Tail(q) \in Seq(S)
        /\ Head(q) = q[1]
        /\ Len(q) \in Nat \ {0}
        /\ Len(Tail(q)) = Len(q) - 1
        /\ \A i \in 1 .. Len(q) - 1 : Tail(q)[i] = q[i + 1]
    BY HeadTailProperties, EmptySeq, LenProperties
  <1>2. Where(q, x) = IF Head(q) = x THEN C \cup {1} ELSE C
    <2>1. ASSUME NEW i \in Where(q, x) PROVE i = 1 \/ i \in C
      <3>1. i \in 1 .. Len(q) /\ q[i] = x
        BY DEF Where
      <3>2. CASE i = 1
        BY <1>1, <3>1, <3>2
      <3>3. CASE i # 1
        <4>1. i - 1 \in B /\ (i - 1) + 1 = i
          BY <1>1, <3>1, <3>3 DEF Where
        <4> QED
          BY <4>1
      <3> QED
        BY <3>2, <3>3
    <2>2. \A i \in B : i + 1 \in Where(q, x)
      BY <1>1 DEF Where
    <2>3. Head(q) = x <=> 1 \in Where(q, x)
      BY <1>1 DEF Where
    <2>4. C \subseteq Where(q, x)
      BY <2>2
    <2> HIDE DEF B, C
    <2>5. CASE Head(q) = x
      <3>1. Where(q, x) = C \cup {1}
        BY <2>1, <2>3, <2>4, <2>5
      <3> QED
        BY <2>5, <3>1
    <2>6. CASE Head(q) # x
      <3>1. Where(q, x) = C
        BY <2>1, <2>3, <2>4, <2>6
      <3> QED
        BY <2>6, <3>1
    <2> QED
      BY <2>5, <2>6
  <1>3. 1 \notin C
    BY <1>1 DEF Where
  <1>4. IsFiniteSet(B) /\ Cardinality(B) \in Nat
    BY <1>1, WhereIsFinite DEF Count
  <1>5. B \in SUBSET Int
    BY <1>1 DEF Where
  <1> HIDE DEF B
  <1>6. IsFiniteSet(C) /\ Cardinality(C) = Cardinality(B)
    <2>1. \A n \in Int : /\ IsFiniteSet({i + n : i \in B})
                         /\ Cardinality({i + n : i \in B}) = Cardinality(B)
      BY <1>4, <1>5, ShiftedPlaces
    <2>2. 1 \in Int
      OBVIOUS
    <2> QED
      BY ONLY <2>1, <2>2, Zenon
  <1> HIDE DEF C
  <1>7. Cardinality(C \cup {1}) = Cardinality(C) + 1
    BY <1>3, <1>6, FS_AddElement
  <1> QED
    BY <1>2, <1>4, <1>6, <1>7 DEF Count, B

\* A sequence without repetitions.
LEMMA CountDistinct ==
    ASSUME NEW S, NEW q \in Seq(S), NEW x,
           \A i, j \in 1 .. Len(q) : i < j => q[i] # q[j]
    PROVE  Count(q, x) = IF x \in Elements(q) THEN 1 ELSE 0
  <1>1. Len(q) \in Nat
    BY LenProperties
  <1>2. CASE x \in Elements(q)
    <2>1. PICK i \in 1 .. Len(q) : q[i] = x
      BY <1>2 DEF Elements
    <2>2. \A j \in 1 .. Len(q) : q[j] = x => j = i
      BY <1>1, <2>1
    <2>3. Where(q, x) = {i}
      BY <2>1, <2>2 DEF Where
    <2> QED
      BY <1>2, <2>3, FS_Singleton DEF Count
  <1>3. CASE x \notin Elements(q)
    <2>1. Where(q, x) = {}
      BY <1>3 DEF Where, Elements
    <2> QED
      BY <1>3, <2>1, FS_EmptySet DEF Count
  <1> QED
    BY <1>2, <1>3


-----------------------------------------------------------------------------
(* The invariants in terms of counts.                                      *)

LEMMA CountsMean ==
    /\ OneLeader <=>
          /\ Count(workList, Baton) + Cardinality(Leaders)
                 = IF startCall = "done" /\ reactorMode THEN 1 ELSE 0
          /\ taskList # <<>> => \E w \in Workers : pc[w] = "reactorPush"
    /\ HandedOverOnce <=>
          /\ \A u \in Units :
                 Count(workList, u) + Count(taskList, u) + taken[u] = IF u \in posted THEN 1 ELSE 0
          /\ \A t \in posted \cap Timers : due[t] = -1
  BY DEF OneLeader, HandedOverOnce, Count, Where, BatonsIn, Leaders

\* What is handed over is handed over in units: neither the baton nor NULL.
LEMMA UnitsDiffer ==
    /\ \A u \in Units : u # Baton /\ u # NULL
    /\ \A t \in Timers : t \in Units /\ t \notin Tasks /\ t \notin Events
    /\ Tasks \subseteq Units /\ Events \subseteq Units
    /\ Tasks \cap Events = {} /\ SecTimers \cap MsTimers = {}
  BY UnitAssumption DEF Units, Timers

LEMMA LeadersAreFinite ==
    IsFiniteSet(Leaders) /\ Cardinality(Leaders) \in Nat
  <1>1. Leaders \in SUBSET Workers
    BY DEF Leaders
  <1>2. IsFiniteSet(Leaders)
    BY <1>1, FiniteAssumption, FS_Subset
  <1> QED
    BY <1>2, FS_CardinalityType

AtReactor == {"reactorWait", "reactorPush"}

\* How many are in the reactor after one worker has gone somewhere.
LEMMA LeadersGoto ==
    ASSUME TypeOK, NEW w \in Workers, NEW place, Goto(w, place)
    PROVE  Cardinality(Leaders') =
               IF pc[w] \in AtReactor
               THEN IF place \in AtReactor THEN Cardinality(Leaders) ELSE Cardinality(Leaders) - 1
               ELSE IF place \in AtReactor THEN Cardinality(Leaders) + 1 ELSE Cardinality(Leaders)
  <1>1. pc'[w] = place /\ \A v \in Workers : v # w => pc'[v] = pc[v]
    BY DEF Goto, TypeOK
  <1>2. w \in Leaders <=> pc[w] \in AtReactor
    BY DEF Leaders, AtReactor
  <1>3. IsFiniteSet(Leaders) /\ Cardinality(Leaders) \in Nat
    BY LeadersAreFinite
  <1>4. CASE place \in AtReactor
    <2>1. Leaders' = Leaders \cup {w}
      BY <1>1, <1>4 DEF Leaders, AtReactor
    <2>2. Cardinality(Leaders \cup {w}) = IF w \in Leaders THEN Cardinality(Leaders) ELSE Cardinality(Leaders) + 1
      BY <1>3, FS_AddElement
    <2> QED
      BY <1>2, <1>4, <2>1, <2>2
  <1>5. CASE place \notin AtReactor
    <2>1. Leaders' = Leaders \ {w}
      BY <1>1, <1>5 DEF Leaders, AtReactor
    <2>2. Cardinality(Leaders \ {w}) = IF w \in Leaders THEN Cardinality(Leaders) - 1 ELSE Cardinality(Leaders)
      BY <1>3, FS_RemoveElement
    <2> QED
      BY <1>2, <1>5, <2>1, <2>2
  <1> QED
    BY <1>4, <1>5

\* One worker in the reactor is the only one.
LEMMA OnlyLeader ==
    ASSUME TypeOK, OneLeader, NEW w \in Leaders
    PROVE  /\ Leaders = {w}
           /\ Cardinality(Leaders) = 1 /\ Count(workList, Baton) = 0
           /\ startCall = "done" /\ reactorMode
  <1>1. Count(workList, Baton) \in Nat
    BY WhereIsFinite DEF TypeOK
  <1>2. IsFiniteSet(Leaders) /\ Cardinality(Leaders) \in Nat
    BY LeadersAreFinite
  <1>3. Cardinality(Leaders) # 0
    BY <1>2, FS_EmptySet
  <1>4. Count(workList, Baton) + Cardinality(Leaders) = IF startCall = "done" /\ reactorMode THEN 1 ELSE 0
    BY CountsMean
  <1>5. Cardinality(Leaders) = 1 /\ Count(workList, Baton) = 0 /\ startCall = "done" /\ reactorMode
    BY <1>1, <1>2, <1>3, <1>4
  <1>6. \E x : Leaders = {x}
    BY <1>2, <1>5, FS_Singleton
  <1> QED
    BY <1>5, <1>6

\* All but NotEarly, which follows, and what AwakeInv says.
Core ==
    TypeOK /\ OneLeader /\ HandedOverOnce /\ UnitInv /\ TimerInv /\ (startCall = "notified" => reactorMode)

\* Somebody sees to the list.
AwakeInv == NoLostSignal /\ NobodyLeft

LEMMA CoreIsEnough == Core /\ AwakeInv <=> SchedulerInv
  <1>1. \A t \in Timers : t # NULL
    BY UnitsDiffer
  <1>2. UnitInv /\ TimerInv => NotEarly
    BY <1>1 DEF NotEarly, UnitInv, TimerInv
  <1> QED
    BY <1>2 DEF Core, AwakeInv, SchedulerInv, LeaderInv

-----------------------------------------------------------------------------
(* Steps that touch neither the lists nor the timers.                      *)

Held == {"reactorWait", "reactorPush", "complete", "func"}

LEMMA QuietStep ==
    ASSUME Core,
           UNCHANGED <<reactorMode, workList, taskList, unit, due, armedAt, history>>,
           pc' \in [Workers -> Places],
           \A w \in Workers : pc'[w] = pc[w] \/ (pc'[w] \notin Held /\ pc[w] \notin Held),
           {start, work, cancelled}' \subseteq BOOLEAN,
           notices' \in Nat, stopCall' \in {"none", "set", "done"},
           startCall' \in {"none", "set", "notified", "done"},
           reactorMode => (startCall' = "done" <=> startCall = "done"),
           startCall' = "notified" => reactorMode,
           clock' \in Nat, clock' >= clock
    PROVE  Core'
  <1> USE DEF history
  <1>1. TypeOK /\ OneLeader /\ HandedOverOnce /\ UnitInv /\ TimerInv
    BY DEF Core
  <1>2. TypeOK'
    BY <1>1 DEF TypeOK
  <1>3. Leaders' = Leaders
    BY DEF Leaders, Held
  <1>4. OneLeader'
    <2>1. taskList # <<>> => \E w \in Workers : pc'[w] = "reactorPush"
      BY <1>1 DEF OneLeader, Leaders, Held
    <2>2. taskList' # <<>> => \E w \in Leaders' : pc'[w] = "reactorPush"
      BY <2>1 DEF Leaders
    <2> QED
      BY <1>1, <1>3, <2>2 DEF OneLeader
  <1>5. HandedOverOnce'
    BY <1>1 DEF HandedOverOnce
  <1>6. UnitInv'
    BY <1>1 DEF UnitInv, Held
  <1>7. TimerInv'
    <2>1. \A t \in Timers : LateEnough(t, clock) => LateEnough(t, clock)'
      BY <1>1, TimeAssumption DEF LateEnough, TypeOK, Timers
    <2>2. \A t \in Timers : LateEnough(t, due[t]) => LateEnough(t, due[t])'
      BY DEF LateEnough
    <2> QED
      BY <1>1, <2>1, <2>2 DEF TimerInv
  <1> QED
    BY <1>2, <1>4, <1>5, <1>6, <1>7 DEF Core


LEMMA QuietActions ==
    ASSUME Core,
           \/ StartSet \/ StartNotify \/ StopSet \/ StopNotify \/ Notify \/ CancelFunc \/ Tick
           \/ \E w \in Workers :
                 \/ StartTest(w) \/ StartSleep(w) \/ ReactorNotify(w) \/ Empty(w) \/ Wait(w)
                 \/ Loop(w) \/ SpuriousWakeup(w)
    PROVE  Core'
  <1> USE DEF control, timing, worker
  <1>0. TypeOK /\ (startCall = "notified" => reactorMode)
    BY DEF Core
  <1>1. ASSUME StartSet \/ StopSet \/ CancelFunc \/ Tick PROVE Core'
    <2>1. UNCHANGED pc /\ clock' \in Nat /\ clock' >= clock
      BY <1>0, <1>1 DEF TypeOK, StartSet, StopSet, CancelFunc, Tick
    <2> QED
      BY <1>0, <1>1, <2>1, QuietStep DEF TypeOK, StartSet, StopSet, CancelFunc, Tick
  <1>2. ASSUME StartNotify \/ StopNotify PROVE Core'
    <2>1. /\ pc' \in [Workers -> Places]
          /\ \A w \in Workers : pc'[w] = pc[w] \/ (pc'[w] \notin Held /\ pc[w] \notin Held)
      BY <1>0, <1>2 DEF TypeOK, StartNotify, StopNotify, Places, StartPlaces, Held
    <2> QED
      BY <1>0, <1>2, <2>1, QuietStep DEF TypeOK, StartNotify, StopNotify
  <1>3. ASSUME NEW w \in Workers, NEW place \in Places \ Held, Goto(w, place), pc[w] \notin Held,
               notices' \in Nat,
               UNCHANGED <<control, workList, taskList, unit, timing, history>>
        PROVE  Core'
    <2>1. /\ pc' \in [Workers -> Places]
          /\ \A v \in Workers : pc'[v] = pc[v] \/ (pc'[v] \notin Held /\ pc[v] \notin Held)
      BY <1>0, <1>3 DEF TypeOK, Goto
    <2> QED
      BY <1>0, <1>3, <2>1, QuietStep DEF TypeOK
  <1>4. ASSUME UNCHANGED <<control, workList, taskList, worker, timing, history>>, notices' \in Nat
        PROVE  Core'
    BY <1>0, <1>4, QuietStep DEF TypeOK
  <1>5. ASSUME Notify PROVE Core'
    <2>1. notices' \in Nat
      BY <1>0, <1>5 DEF TypeOK, Notify
    <2> QED
      BY <1>3, <1>4, <1>5, <2>1 DEF Notify, Places, Held
  <1>6. ASSUME NEW w \in Workers, ReactorNotify(w) PROVE Core'
    <2>1. /\ pc' \in [Workers -> Places]
          /\ \A v \in Workers : pc'[v] = pc[v] \/ (pc'[v] \notin Held /\ pc[v] \notin Held)
      BY <1>0, <1>6 DEF TypeOK, ReactorNotify, Goto, Places, Held
    <2> QED
      BY <1>0, <1>6, <2>1, QuietStep DEF TypeOK, ReactorNotify
  <1>7. ASSUME NEW w \in Workers,
               StartTest(w) \/ StartSleep(w) \/ Empty(w) \/ Wait(w) \/ Loop(w) \/ SpuriousWakeup(w)
        PROVE  Core'
    <2>1. /\ pc[w] \notin Held
          /\ \E place \in Places \ Held : Goto(w, place)
          /\ UNCHANGED <<control, workList, taskList, unit, notices, timing, history>>
      BY <1>7 DEF StartTest, StartSleep, Empty, Wait, Loop, SpuriousWakeup, Places, StartPlaces, Held
    <2>2. notices' \in Nat
      BY <1>0, <2>1 DEF TypeOK
    <2> QED
      BY <1>3, <2>1, <2>2
  <1> QED
    BY <1>1, <1>2, <1>5, <1>6, <1>7

-----------------------------------------------------------------------------
(* Steps that arm timers.                                                  *)

LEMMA DivFloor ==
    ASSUME NEW a \in Nat, NEW b \in Nat \ {0}
    PROVE  /\ a \div b \in Nat
           /\ (a \div b) * b \in Nat
           /\ a <= (a \div b) * b + (b - 1)
  OBVIOUS

\* A timer that was not armed may be armed for any time that is late enough.
LEMMA ArmStep ==
    ASSUME Core, NEW t \in Timers, armedAt[t] = -1, NEW time \in Nat, NEW delay \in Delays,
           time >= clock + delay - (IF t \in SecTimers THEN Second - 1 ELSE 0),
           due' = [due EXCEPT ![t] = time],
           armedAt' = [armedAt EXCEPT ![t] = clock],
           UNCHANGED <<control, workList, taskList, worker, notices, clock, cancelled, history>>
    PROVE  Core'
  <1> USE DEF control, worker, history
  <1>1. TypeOK /\ OneLeader /\ HandedOverOnce /\ UnitInv /\ TimerInv
    BY DEF Core
  <1>2. /\ due'[t] = time /\ armedAt'[t] = clock
        /\ \A u \in Timers : u # t => due'[u] = due[u] /\ armedAt'[u] = armedAt[u]
    BY <1>1 DEF TypeOK
  <1>3. TypeOK'
    BY <1>1 DEF TypeOK
  <1>4. OneLeader' /\ UnitInv'
    BY <1>1 DEF OneLeader, Leaders, UnitInv
  <1>5. t \notin posted
    BY <1>1 DEF TimerInv
  <1>6. HandedOverOnce'
    BY <1>1, <1>2, <1>5 DEF HandedOverOnce
  <1>7. LateEnough(t, due[t])'
    BY <1>2 DEF LateEnough
  <1>8. ASSUME NEW u \in Timers, u # t
        PROVE  /\ due'[u] # -1 \/ u \in posted' => armedAt'[u] # -1
               /\ due'[u] # -1 => LateEnough(u, due[u])'
               /\ u \in posted' => LateEnough(u, clock)'
    BY <1>1, <1>2, <1>8 DEF TimerInv, LateEnough
  <1>9. TimerInv'
    BY <1>1, <1>2, <1>5, <1>7, <1>8 DEF TimerInv, TypeOK
  <1> QED
    BY <1>3, <1>4, <1>6, <1>9 DEF Core

LEMMA ArmActions ==
    ASSUME Core, NEW delay \in Delays,
           (\E t \in SecTimers : ExpiresFunc(t, delay)) \/ (\E t \in MsTimers : ExpiresFuncByMs(t, delay))
    PROVE  Core'
  <1>1. clock \in Nat /\ delay \in Nat /\ Second \in Nat \ {0}
    BY TimeAssumption DEF Core, TypeOK
  <1>2. ASSUME NEW t \in SecTimers, ExpiresFunc(t, delay) PROVE Core'
    <2> DEFINE time == Now * Second + delay
    <2>1. time \in Nat /\ time >= clock + delay - (Second - 1)
      <3> DEFINE begun == Now * Second
      <3>1. begun \in Nat /\ clock <= begun + (Second - 1)
        BY <1>1, DivFloor DEF Now
      <3> HIDE DEF begun
      <3>2. begun + delay \in Nat /\ begun + delay >= clock + delay - (Second - 1)
        BY <1>1, <3>1
      <3> QED
        BY <3>2 DEF begun
    <2>2. t \in Timers
      BY DEF Timers
    <2>3. /\ armedAt[t] = -1 /\ due' = [due EXCEPT ![t] = time]
          /\ armedAt' = [armedAt EXCEPT ![t] = clock]
          /\ UNCHANGED <<control, workList, taskList, worker, notices, clock, cancelled, history>>
      BY <1>2 DEF ExpiresFunc
    <2> HIDE DEF time
    <2> QED
      BY <2>1, <2>2, <2>3, ArmStep
  <1>3. ASSUME NEW t \in MsTimers, ExpiresFuncByMs(t, delay) PROVE Core'
    <2> DEFINE time == clock + delay
    <2>1. time \in Nat /\ time >= clock + delay - 0
      BY <1>1
    <2>2. t \in Timers /\ t \notin SecTimers
      BY UnitsDiffer DEF Timers
    <2>3. /\ armedAt[t] = -1 /\ due' = [due EXCEPT ![t] = time]
          /\ armedAt' = [armedAt EXCEPT ![t] = clock]
          /\ UNCHANGED <<control, workList, taskList, worker, notices, clock, cancelled, history>>
      BY <1>3 DEF ExpiresFuncByMs
    <2> HIDE DEF time
    <2> QED
      BY <2>1, <2>2, <2>3, ArmStep
  <1> QED
    BY <1>2, <1>3


-----------------------------------------------------------------------------
(* Steps that move units.                                                  *)

\* Two that add to the list, without a worker.
LEMMA PushActions ==
    ASSUME Core, StartPush \/ \E task \in Tasks : Post(task)
    PROVE  Core'
  <1> USE DEF control, worker, timing, history
  <1>1. TypeOK /\ OneLeader /\ HandedOverOnce /\ UnitInv /\ TimerInv /\ (startCall = "notified" => reactorMode)
    BY DEF Core
  <1>2. workList \in Seq(Units \cup {Baton}) /\ Baton \in Units \cup {Baton}
    BY <1>1 DEF TypeOK
  <1>3. ASSUME StartPush PROVE Core'
    <2>1. /\ startCall = "notified" /\ startCall' = "done" /\ reactorMode
          /\ workList' = Append(workList, Baton)
          /\ notices' = notices + 1
          /\ UNCHANGED <<reactorMode, start, work, stopCall, taskList, worker, timing, history>>
      BY <1>1, <1>3 DEF StartPush
    <2>2. TypeOK'
      <3>1. workList' \in Seq(Units \cup {Baton})
        BY <1>2, <2>1, AppendProperties
      <3> QED
        BY <1>1, <2>1, <3>1 DEF TypeOK
    <2>3. \A x : Count(workList', x) = Count(workList, x) + (IF Baton = x THEN 1 ELSE 0)
      BY <1>2, <2>1, CountAppend
    <2>4. Count(workList, Baton) \in Nat /\ Cardinality(Leaders) \in Nat
      BY <1>2, WhereIsFinite, LeadersAreFinite
    <2>5. Count(workList, Baton) + Cardinality(Leaders) = 0
      BY <1>1, <2>1, CountsMean
    <2>6. Leaders' = Leaders
      BY <2>1 DEF Leaders
    <2>7. OneLeader'
      <3>1. Count(workList', Baton) + Cardinality(Leaders') = 1
        BY <2>3, <2>4, <2>5, <2>6
      <3>2. taskList' # <<>> => \E w \in Leaders' : pc'[w] = "reactorPush"
        BY <1>1, <2>1, <2>6 DEF OneLeader
      <3> QED
        BY <2>1, <3>1, <3>2 DEF OneLeader, Count, Where, BatonsIn
    <2>8. HandedOverOnce'
      <3>1. \A u \in Units : Count(workList', u) = Count(workList, u)
        <4>1. \A u \in Units : Count(workList, u) \in Nat /\ u # Baton
          BY <1>2, WhereIsFinite, UnitsDiffer
        <4> QED
          BY <2>3, <4>1
      <3>2. \A u \in Units : Count(workList', u) + Count(taskList', u) + taken'[u] = IF u \in posted' THEN 1 ELSE 0
        BY <1>1, <2>1, <3>1, CountsMean
      <3>3. \A t \in (posted \cap Timers)' : due'[t] = -1
        BY <1>1, <2>1 DEF HandedOverOnce
      <3> QED
        BY <3>2, <3>3 DEF HandedOverOnce, Count, Where
    <2>9. UnitInv' /\ TimerInv'
      BY <1>1, <2>1 DEF UnitInv, TimerInv, LateEnough
    <2> QED
      BY <2>1, <2>2, <2>7, <2>8, <2>9 DEF Core
  <1>4. ASSUME NEW task \in Tasks, Post(task) PROVE Core'
    <2>1. /\ task \notin posted /\ posted' = posted \cup {task}
          /\ workList' = Append(workList, task)
          /\ notices' = notices + 1
          /\ UNCHANGED <<control, taskList, worker, timing, taken, ran>>
          /\ task \in Units /\ task # Baton /\ task \notin Timers
      BY <1>4, UnitsDiffer DEF Post
    <2>2. TypeOK'
      <3>1. workList' \in Seq(Units \cup {Baton})
        BY <1>2, <2>1, AppendProperties
      <3> QED
        BY <1>1, <2>1, <3>1 DEF TypeOK
    <2>3. \A x : Count(workList', x) = Count(workList, x) + (IF task = x THEN 1 ELSE 0)
      BY <1>2, <2>1, CountAppend
    <2>4. Leaders' = Leaders
      BY <2>1 DEF Leaders
    <2>5. OneLeader'
      <3>1. Count(workList, Baton) \in Nat
        BY <1>2, WhereIsFinite
      <3>2. Count(workList', Baton) = Count(workList, Baton)
        BY <2>1, <2>3, <3>1
      <3>3. Count(workList', Baton) + Cardinality(Leaders') = IF startCall' = "done" /\ reactorMode' THEN 1 ELSE 0
        BY <1>1, <2>1, <2>4, <3>2, CountsMean
      <3>4. taskList' # <<>> => \E w \in Leaders' : pc'[w] = "reactorPush"
        BY <1>1, <2>1, <2>4 DEF OneLeader
      <3> QED
        BY <3>3, <3>4 DEF OneLeader, Count, Where, BatonsIn
    <2>6. HandedOverOnce'
      <3>1. \A u \in Units : Count(workList', u) + Count(taskList', u) + taken'[u] = IF u \in posted' THEN 1 ELSE 0
        <4> TAKE u \in Units
        <4>1. Count(workList, u) \in Nat /\ Count(taskList, u) \in Nat /\ taken[u] \in Nat
          BY <1>1, WhereIsFinite DEF TypeOK
        <4>2. Count(workList, u) + Count(taskList, u) + taken[u] = IF u \in posted THEN 1 ELSE 0
          BY <1>1, CountsMean
        <4> QED
          BY <2>1, <2>3, <4>1, <4>2
      <3>2. \A t \in (posted \cap Timers)' : due'[t] = -1
        BY <1>1, <2>1 DEF HandedOverOnce
      <3> QED
        BY <3>1, <3>2 DEF HandedOverOnce, Count, Where
    <2>7. UnitInv'
      BY <1>1, <2>1 DEF UnitInv
    <2>8. TimerInv'
      BY <1>1, <2>1 DEF TimerInv, LateEnough
    <2> QED
      BY <1>1, <2>1, <2>2, <2>5, <2>6, <2>7, <2>8 DEF Core
  <1> QED
    BY <1>3, <1>4


\* The invariant in the form in which the steps of a worker keep it.
LEMMA CoreFrom ==
    ASSUME TypeOK',
           (Count(workList, Baton) + Cardinality(Leaders))' = (IF startCall = "done" /\ reactorMode THEN 1 ELSE 0)',
           (taskList # <<>> => \E w \in Workers : pc[w] = "reactorPush")',
           \A u \in Units : (Count(workList, u) + Count(taskList, u) + taken[u])' = (IF u \in posted THEN 1 ELSE 0)',
           \A t \in posted' \cap Timers : due'[t] = -1,
           UnitInv', TimerInv', (startCall = "notified" => reactorMode)'
    PROVE  Core'
  <1>1. OneLeader'
    BY DEF OneLeader, Count, Where, BatonsIn, Leaders
  <1>2. HandedOverOnce'
    BY DEF HandedOverOnce, Count, Where
  <1> QED
    BY <1>1, <1>2 DEF Core

LEMMA GetStep ==
    ASSUME Core, NEW w \in Workers, GetTast(w)
    PROVE  Core'
  <1> USE DEF control, timing
  <1>1. TypeOK /\ OneLeader /\ HandedOverOnce /\ UnitInv /\ TimerInv /\ (startCall = "notified" => reactorMode)
    BY DEF Core
  <1>2. workList \in Seq(Units \cup {Baton}) /\ taskList \in Seq(Units)
    BY <1>1 DEF TypeOK
  <1>3. /\ pc[w] = "get" /\ pc[w] \notin AtReactor
        /\ UNCHANGED <<control, taskList, notices, timing, posted, ran>>
    BY DEF GetTast, AtReactor
  <1>4. /\ taskList' # <<>> => \E v \in Workers : pc[v] = "reactorPush"
        /\ \A v \in Workers : v # w => pc'[v] = pc[v]
    BY <1>1, <1>3, CountsMean DEF GetTast, Goto, TypeOK
  <1>5. taskList' # <<>> => \E v \in Workers : pc'[v] = "reactorPush"
    BY <1>3, <1>4
  <1>6. \A t \in posted' \cap Timers : due'[t] = -1
    BY <1>1, <1>3 DEF HandedOverOnce
  <1>7. TimerInv'
    BY <1>1, <1>3 DEF TimerInv, LateEnough
  <1>8. /\ Count(workList, Baton) + Cardinality(Leaders) = IF startCall = "done" /\ reactorMode THEN 1 ELSE 0
        /\ \A u \in Units : Count(workList, u) + Count(taskList, u) + taken[u] = IF u \in posted THEN 1 ELSE 0
    BY <1>1, CountsMean
  <1>9. /\ Cardinality(Leaders) \in Nat /\ Count(workList, Baton) \in Nat
        /\ \A u \in Units : Count(workList, u) \in Nat /\ Count(taskList, u) \in Nat /\ taken[u] \in Nat
                            /\ u # Baton /\ u # NULL
    BY <1>1, <1>2, LeadersAreFinite, WhereIsFinite, UnitsDiffer DEF TypeOK
  <1>10. CASE workList = <<>>
    <2>1. UNCHANGED <<workList, unit, taken>> /\ Goto(w, "empty")
      BY <1>10 DEF GetTast
    <2>2. Cardinality(Leaders') = Cardinality(Leaders)
      BY <1>1, <1>3, <2>1, LeadersGoto DEF AtReactor
    <2>3. TypeOK'
      BY <1>1, <1>3, <2>1 DEF TypeOK, Goto, Places
    <2>4. UnitInv'
      BY <1>1, <1>3, <2>1 DEF UnitInv, Goto, TypeOK
    <2> QED
      BY <1>1, <1>3, <1>5, <1>6, <1>7, <1>8, <2>1, <2>2, <2>3, <2>4, CoreFrom
  <1>11. CASE workList # <<>>
    <2>1. /\ workList' = Tail(workList) /\ workList' \in Seq(Units \cup {Baton})
          /\ Head(workList) \in Units \cup {Baton}
      BY <1>2, <1>11, HeadTailProperties, EmptySeq DEF GetTast
    <2>2. \A x : Count(workList, x) = Count(workList', x) + (IF Head(workList) = x THEN 1 ELSE 0)
      BY <1>2, <1>11, <2>1, CountTail
    <2>3. Count(workList', Baton) \in Nat /\ \A u \in Units : Count(workList', u) \in Nat
      BY <2>1, WhereIsFinite
    <2>4. CASE Head(workList) = Baton
      <3>1. UNCHANGED <<unit, taken>> /\ Goto(w, "reactorWait")
        BY <1>11, <2>4 DEF GetTast
      <3>2. Cardinality(Leaders') = Cardinality(Leaders) + 1
        BY <1>1, <1>3, <3>1, LeadersGoto DEF AtReactor
      <3>3. TypeOK'
        BY <1>1, <1>3, <2>1, <3>1 DEF TypeOK, Goto, Places
      <3>4. UnitInv'
        BY <1>1, <1>3, <3>1 DEF UnitInv, Goto, TypeOK
      <3>5. Count(workList', Baton) + Cardinality(Leaders') = IF startCall' = "done" /\ reactorMode' THEN 1 ELSE 0
        <4>1. Count(workList, Baton) = Count(workList', Baton) + 1
          BY <2>2, <2>4
        <4>2. startCall' = startCall /\ reactorMode' = reactorMode
          BY <1>3
        <4> QED
          BY <1>8, <1>9, <2>3, <3>2, <4>1, <4>2
      <3>6. \A u \in Units : Count(workList', u) + Count(taskList', u) + taken'[u] = IF u \in posted' THEN 1 ELSE 0
        BY <1>3, <1>8, <1>9, <2>2, <2>3, <2>4, <3>1
      <3> QED
        BY <1>1, <1>3, <1>5, <1>6, <1>7, <3>3, <3>4, <3>5, <3>6, CoreFrom
    <2>5. CASE Head(workList) # Baton
      <3> DEFINE h == Head(workList)
      <3>1. /\ h \in Units /\ Goto(w, "complete")
            /\ unit' = [unit EXCEPT ![w] = h]
            /\ taken' = [taken EXCEPT ![h] = @ + 1]
        BY <1>11, <2>1, <2>5 DEF GetTast
      <3>2. Cardinality(Leaders') = Cardinality(Leaders)
        BY <1>1, <1>3, <3>1, LeadersGoto DEF AtReactor
      <3>3. TypeOK'
        BY <1>1, <1>3, <2>1, <3>1 DEF TypeOK, Goto, Places
      <3>4. h \in posted
        <4>1. Count(workList, h) = Count(workList', h) + 1
          BY <2>2
        <4>2. Count(workList, h) + Count(taskList, h) + taken[h] = IF h \in posted THEN 1 ELSE 0
          BY <1>8, <3>1
        <4>3. Count(workList', h) \in Nat /\ Count(taskList, h) \in Nat /\ taken[h] \in Nat
          BY <1>9, <2>3, <3>1
        <4> HIDE DEF h
        <4> QED
          BY <4>1, <4>2, <4>3
      <3> HIDE DEF h
      <3>5. UnitInv'
        BY <1>1, <1>3, <1>9, <3>1, <3>4 DEF UnitInv, Goto, TypeOK
      <3>6. Count(workList', Baton) + Cardinality(Leaders') = IF startCall' = "done" /\ reactorMode' THEN 1 ELSE 0
        BY <1>3, <1>8, <1>9, <2>2, <2>3, <2>5, <3>2
      <3>7. ASSUME NEW u \in Units
            PROVE  Count(workList', u) + Count(taskList', u) + taken'[u] = IF u \in posted' THEN 1 ELSE 0
        <4>1. taken'[u] = IF h = u THEN taken[u] + 1 ELSE taken[u]
          BY <1>1, <3>1 DEF TypeOK
        <4>2. Count(workList, u) = Count(workList', u) + (IF h = u THEN 1 ELSE 0)
          BY <2>2 DEF h
        <4> QED
          BY <1>3, <1>8, <1>9, <2>3, <4>1, <4>2
      <3> QED
        BY <1>1, <1>3, <1>5, <1>6, <1>7, <3>3, <3>5, <3>6, <3>7, CoreFrom
    <2> QED
      BY <2>4, <2>5
  <1> QED
    BY <1>10, <1>11

\* A worker with a unit.
LEMMA CompleteStep ==
    ASSUME Core, NEW w \in Workers, Complete(w) \/ RunFunc(w)
    PROVE  Core'
  <1> USE DEF control, timing
  <1>1. TypeOK /\ OneLeader /\ HandedOverOnce /\ UnitInv /\ TimerInv /\ (startCall = "notified" => reactorMode)
    BY DEF Core
  <1>2. /\ pc[w] \in {"complete", "func"}
        /\ UNCHANGED <<control, workList, taskList, notices, timing, posted, taken>>
        /\ \/ Goto(w, "func") /\ UNCHANGED <<unit, ran>>
           \/ /\ Goto(w, "loop") /\ unit' = [unit EXCEPT ![w] = NULL]
              /\ ran' \subseteq ran \cup {unit[w]}
    BY DEF Complete, RunFunc
  <1>3. unit[w] \in Units
    BY <1>1, <1>2 DEF UnitInv, TypeOK
  <1>4. Cardinality(Leaders') = Cardinality(Leaders)
    BY <1>1, <1>2, LeadersGoto DEF AtReactor
  <1>5. TypeOK'
    BY <1>1, <1>2, <1>3 DEF TypeOK, Goto, Places
  <1>6. UnitInv'
    BY <1>1, <1>2 DEF UnitInv, Goto, TypeOK
  <1>7. taskList' # <<>> => \E v \in Workers : pc'[v] = "reactorPush"
    <2>1. taskList # <<>> => \E v \in Workers : pc[v] = "reactorPush" /\ v # w
      BY <1>1, <1>2, CountsMean
    <2> QED
      BY <1>1, <1>2, <2>1 DEF Goto, TypeOK
  <1>8. TimerInv'
    BY <1>1, <1>2 DEF TimerInv, LateEnough
  <1>9. \A t \in posted' \cap Timers : due'[t] = -1
    BY <1>1, <1>2 DEF HandedOverOnce
  <1>10. /\ Count(workList', Baton) + Cardinality(Leaders') = IF startCall' = "done" /\ reactorMode' THEN 1 ELSE 0
         /\ \A u \in Units : Count(workList', u) + Count(taskList', u) + taken'[u] = IF u \in posted' THEN 1 ELSE 0
    BY <1>1, <1>2, <1>4, CountsMean
  <1> QED
    BY <1>1, <1>2, <1>5, <1>6, <1>7, <1>8, <1>9, <1>10, CoreFrom


\* The leader gives what it found, and the baton behind it, to the list.
LEMMA ReactorPushStep ==
    ASSUME Core, NEW w \in Workers, ReactorPush(w)
    PROVE  Core'
  <1> USE DEF control, timing, history
  <1> DEFINE given == Append(taskList, Baton)
  <1>1. TypeOK /\ OneLeader /\ HandedOverOnce /\ UnitInv /\ TimerInv /\ (startCall = "notified" => reactorMode)
    BY DEF Core
  <1>2. /\ pc[w] = "reactorPush"
        /\ workList' = workList \o given
        /\ taskList' = <<>>
        /\ Goto(w, "reactorNotify")
        /\ UNCHANGED <<control, unit, notices, timing, history>>
    BY DEF ReactorPush
  <1>3. w \in Leaders
    BY <1>2 DEF Leaders
  <1>4. /\ Cardinality(Leaders) = 1 /\ Count(workList, Baton) = 0
        /\ startCall = "done" /\ reactorMode
    BY <1>1, <1>3, OnlyLeader
  <1>5. Cardinality(Leaders') = 0
    <2>1. Cardinality(Leaders') = Cardinality(Leaders) - 1
      BY <1>1, <1>2, LeadersGoto DEF AtReactor
    <2> QED
      BY <1>4, <2>1
  <1>6. /\ workList \in Seq(Units \cup {Baton})
        /\ taskList \in Seq(Units) /\ taskList \in Seq(Units \cup {Baton})
        /\ Baton \in Units \cup {Baton}
    BY <1>1 DEF TypeOK
  <1>7. given \in Seq(Units \cup {Baton})
    BY <1>6, AppendProperties
  <1>8. workList' \in Seq(Units \cup {Baton})
    <2> HIDE DEF given
    <2> QED
      BY <1>2, <1>6, <1>7, ConcatProperties
  <1>9. TypeOK'
    BY <1>1, <1>2, <1>8 DEF TypeOK, Goto, Places
  <1>10. \A x : Count(given, x) = Count(taskList, x) + (IF Baton = x THEN 1 ELSE 0)
    BY <1>6, CountAppend
  <1> HIDE DEF given
  <1>11. \A x : Count(workList', x) = Count(workList, x) + Count(given, x)
    BY <1>2, <1>6, <1>7, CountConcat
  <1>12. Count(taskList, Baton) = 0
    <2>1. Where(taskList, Baton) = {}
      <3>1. \A i \in 1 .. Len(taskList) : taskList[i] \in Units
        BY <1>6, ElementOfSeq
      <3> QED
        BY <3>1, UnitsDiffer DEF Where
    <2> QED
      BY <2>1, FS_EmptySet DEF Count
  <1>13. Count(workList', Baton) + Cardinality(Leaders') = IF startCall' = "done" /\ reactorMode' THEN 1 ELSE 0
    <2>1. Count(given, Baton) = 1
      BY <1>10, <1>12
    <2>2. Count(workList', Baton) = 1
      BY <1>4, <1>11, <2>1
    <2> QED
      BY <1>2, <1>4, <1>5, <2>2
  <1>14. ASSUME NEW u \in Units
         PROVE  Count(workList', u) + Count(taskList', u) + taken'[u] = IF u \in posted' THEN 1 ELSE 0
    <2>1. /\ Count(workList, u) \in Nat /\ Count(taskList, u) \in Nat /\ taken[u] \in Nat
          /\ u # Baton
      BY <1>1, <1>6, WhereIsFinite, UnitsDiffer DEF TypeOK
    <2>2. Count(workList, u) + Count(taskList, u) + taken[u] = IF u \in posted THEN 1 ELSE 0
      BY <1>1, CountsMean
    <2>3. Count(taskList', u) = 0
      BY <1>2, CountEmpty
    <2>4. Count(given, u) = Count(taskList, u)
      BY <1>10, <2>1
    <2>5. Count(workList', u) = Count(workList, u) + Count(taskList, u)
      BY <1>11, <2>4
    <2>6. taken' = taken /\ posted' = posted
      BY <1>2
    <2> QED
      BY <2>1, <2>2, <2>3, <2>5, <2>6
  <1>15. UnitInv'
    BY <1>1, <1>2 DEF UnitInv, Goto, TypeOK
  <1>16. TimerInv'
    BY <1>1, <1>2 DEF TimerInv, LateEnough
  <1>17. /\ \A t \in posted' \cap Timers : due'[t] = -1
         /\ taskList' # <<>> => \E v \in Workers : pc'[v] = "reactorPush"
         /\ startCall' = "notified" => reactorMode'
    BY <1>1, <1>2 DEF HandedOverOnce
  <1> QED
    BY <1>9, <1>13, <1>14, <1>15, <1>16, <1>17, CoreFrom


\* The timers that getTimerTask hands over, each once.
LEMMA DueSequence ==
    ASSUME NEW timers, timers \subseteq Timers, IsFiniteSet(timers), NEW s \in DueInOrder(timers)
    PROVE  /\ s \in Seq(Units)
           /\ Elements(s) \subseteq DueOf(timers)
           /\ \A i, j \in 1 .. Len(s) : i < j => s[i] # s[j]
  <1> DEFINE n == Cardinality(DueOf(timers))
  <1>1. DueOf(timers) \in SUBSET timers
    BY DEF DueOf
  <1>2. n \in Nat
    BY <1>1, FS_Subset, FS_CardinalityType
  <1>3. DueOf(timers) \subseteq Units
    BY <1>1, UnitsDiffer
  <1>4. /\ s \in [1 .. n -> DueOf(timers)]
        /\ \A i, j \in DOMAIN s : i < j => s[i] # s[j]
    BY DEF DueInOrder
  <1> HIDE DEF n
  <1>5. s \in Seq(DueOf(timers)) /\ Len(s) = n
    BY <1>2, <1>4, IsASeq, LenProperties
  <1>6. s \in Seq(Units)
    <2> HIDE <1>4
    <2> QED
      BY <1>3, <1>5, SeqMonotonic
  <1>7. Elements(s) \subseteq DueOf(timers)
    BY <1>4, <1>5 DEF Elements
  <1> QED
    BY <1>4, <1>5, <1>6, <1>7

\* The descriptor that became ready, or none.
LEMMA ReadySequence ==
    ASSUME NEW q \in {<<>>} \cup {<<e>> : e \in Events \ posted}
    PROVE  /\ q \in Seq(Units)
           /\ Elements(q) \subseteq Events \ posted
           /\ \A i, j \in 1 .. Len(q) : i < j => q[i] # q[j]
  <1>1. CASE q = <<>>
    BY <1>1 DEF Elements
  <1>2. ASSUME NEW e \in Events \ posted, q = <<e>>
        PROVE  /\ q \in Seq(Units)
               /\ Elements(q) \subseteq Events \ posted
               /\ \A i, j \in 1 .. Len(q) : i < j => q[i] # q[j]
    <2>1. e \in Units
      BY UnitsDiffer
    <2>2. q \in Seq(Units) /\ Len(q) = 1 /\ q[1] = e
      BY <1>2, <2>1
    <2> QED
      BY <2>2 DEF Elements
  <1> QED
    BY <1>1, <1>2

\* The leader takes what is ready and the timers that are due.
LEMMA ReactorWaitStep ==
    ASSUME Core, NEW w \in Workers, ReactorWait(w)
    PROVE  Core'
  <1> USE DEF control
  <1>1. TypeOK /\ OneLeader /\ HandedOverOnce /\ UnitInv /\ TimerInv /\ (startCall = "notified" => reactorMode)
    BY DEF Core
  <1>2. PICK events \in {<<>>} \cup {<<e>> : e \in Events \ posted},
             secs \in DueInOrder(SecTimers), mss \in DueInOrder(MsTimers) :
            /\ taskList' = taskList \o events \o secs \o mss
            /\ posted' = posted \cup Elements(events) \cup Elements(secs) \cup Elements(mss)
            /\ due' = [t \in Timers |-> IF t \in DueOf(Timers) THEN -1 ELSE due[t]]
    BY DEF ReactorWait
  <1>3. /\ pc[w] = "reactorWait"
        /\ Goto(w, "reactorPush")
        /\ UNCHANGED <<control, workList, unit, notices, clock, armedAt, cancelled, taken, ran>>
    BY DEF ReactorWait
  <1>4. /\ events \in Seq(Units)
        /\ Elements(events) \subseteq Events \ posted
        /\ \A i, j \in 1 .. Len(events) : i < j => events[i] # events[j]
    BY ReadySequence
  <1>5. /\ secs \in Seq(Units)
        /\ Elements(secs) \subseteq DueOf(SecTimers)
        /\ \A i, j \in 1 .. Len(secs) : i < j => secs[i] # secs[j]
    BY FiniteAssumption, DueSequence DEF Timers
  <1>6. /\ mss \in Seq(Units)
        /\ Elements(mss) \subseteq DueOf(MsTimers)
        /\ \A i, j \in 1 .. Len(mss) : i < j => mss[i] # mss[j]
    BY FiniteAssumption, DueSequence DEF Timers
  <1> DEFINE E == Elements(events)
             S == Elements(secs)
             M == Elements(mss)
  <1>7. \A t \in DueOf(Timers) : t \notin posted /\ due[t] \in Nat /\ due[t] <= clock
    BY <1>1 DEF DueOf, HandedOverOnce, TypeOK
  <1>8. DueOf(SecTimers) \subseteq DueOf(Timers) /\ DueOf(MsTimers) \subseteq DueOf(Timers)
    BY DEF DueOf, Timers
  <1>9. /\ S \subseteq DueOf(Timers) \cap SecTimers
        /\ M \subseteq DueOf(Timers) \cap MsTimers
        /\ DueOf(Timers) \subseteq Timers
    BY <1>5, <1>6, <1>8 DEF DueOf
  <1>10. /\ E \cap Timers = {} /\ S \cap M = {}
         /\ E \cap posted = {} /\ S \cap posted = {} /\ M \cap posted = {}
         /\ E \subseteq Units /\ S \subseteq Units /\ M \subseteq Units
    BY <1>4, <1>7, <1>9, UnitsDiffer
  <1> HIDE DEF E, S, M
  <1>11. \A x : /\ Count(events, x) = IF x \in E THEN 1 ELSE 0
                /\ Count(secs, x) = IF x \in S THEN 1 ELSE 0
                /\ Count(mss, x) = IF x \in M THEN 1 ELSE 0
    <2>1. \A x : Count(events, x) = IF x \in E THEN 1 ELSE 0
      BY <1>4, CountDistinct DEF E
    <2>2. \A x : Count(secs, x) = IF x \in S THEN 1 ELSE 0
      BY <1>5, CountDistinct DEF S
    <2>3. \A x : Count(mss, x) = IF x \in M THEN 1 ELSE 0
      BY <1>6, CountDistinct DEF M
    <2> QED
      BY <2>1, <2>2, <2>3
  <1>12. taskList \in Seq(Units)
    BY <1>1 DEF TypeOK
  <1>13. /\ taskList' \in Seq(Units)
         /\ \A x : Count(taskList', x)
                       = ((Count(taskList, x) + Count(events, x)) + Count(secs, x)) + Count(mss, x)
    <2> DEFINE q1 == taskList \o events
               q2 == q1 \o secs
    <2>1. q1 \in Seq(Units) /\ \A x : Count(q1, x) = Count(taskList, x) + Count(events, x)
      BY <1>4, <1>12, ConcatProperties, CountConcat
    <2> HIDE DEF q1
    <2>2. q2 \in Seq(Units) /\ \A x : Count(q2, x) = Count(q1, x) + Count(secs, x)
      BY <1>5, <2>1, ConcatProperties, CountConcat
    <2> HIDE DEF q2
    <2>3. q2 \o mss \in Seq(Units) /\ \A x : Count(q2 \o mss, x) = Count(q2, x) + Count(mss, x)
      BY <1>6, <2>2, ConcatProperties, CountConcat
    <2>4. taskList' = q2 \o mss
      BY <1>2 DEF q1, q2
    <2> QED
      BY <2>1, <2>2, <2>3, <2>4
  <1>14. posted' = posted \cup E \cup S \cup M
    BY <1>2 DEF E, S, M
  <1>15. /\ due' \in [Timers -> Nat \cup {-1}]
         /\ \A t \in Timers : due'[t] = IF t \in DueOf(Timers) THEN -1 ELSE due[t]
    BY <1>1, <1>2 DEF TypeOK
  <1>16. TypeOK'
    <2>1. pc' \in [Workers -> Places]
      BY <1>1, <1>3 DEF TypeOK, Goto, Places
    <2>2. posted' \subseteq Units
      BY <1>1, <1>10, <1>14 DEF TypeOK
    <2> QED
      BY <1>1, <1>3, <1>13, <1>15, <2>1, <2>2 DEF TypeOK
  <1>17. Cardinality(Leaders') = Cardinality(Leaders)
    BY <1>1, <1>3, LeadersGoto DEF AtReactor
  <1>18. Count(workList', Baton) + Cardinality(Leaders') = IF startCall' = "done" /\ reactorMode' THEN 1 ELSE 0
    BY <1>1, <1>3, <1>17, CountsMean
  <1>19. ASSUME NEW u \in Units
         PROVE  Count(workList', u) + Count(taskList', u) + taken'[u] = IF u \in posted' THEN 1 ELSE 0
    <2>1. Count(workList, u) \in Nat /\ Count(taskList, u) \in Nat /\ taken[u] \in Nat
      BY <1>1, <1>12, WhereIsFinite DEF TypeOK
    <2>2. Count(workList, u) + Count(taskList, u) + taken[u] = IF u \in posted THEN 1 ELSE 0
      BY <1>1, CountsMean
    <2>3. workList' = workList /\ taken' = taken
      BY <1>3
    <2>4. Count(taskList', u) = ((Count(taskList, u) + (IF u \in E THEN 1 ELSE 0))
                                    + (IF u \in S THEN 1 ELSE 0)) + (IF u \in M THEN 1 ELSE 0)
      BY <1>11, <1>13
    <2>5. E \cap S = {} /\ E \cap M = {}
      BY <1>9, <1>10
    <2> QED
      BY <1>10, <1>14, <2>1, <2>2, <2>3, <2>4, <2>5, SMTT(30)
  <1>20. taskList' # <<>> => \E v \in Workers : pc'[v] = "reactorPush"
    BY <1>1, <1>3 DEF TypeOK, Goto
  <1>21. \A t \in posted' \cap Timers : due'[t] = -1
    BY <1>1, <1>9, <1>10, <1>14, <1>15 DEF HandedOverOnce
  <1>22. UnitInv'
    BY <1>1, <1>3, <1>14 DEF UnitInv, Goto, TypeOK
  <1>23. TimerInv'
    <2>1. \A t \in DueOf(Timers) : LateEnough(t, due[t]) => LateEnough(t, clock)
      <3> TAKE t \in DueOf(Timers)
      <3> HAVE LateEnough(t, due[t])
      <3>1. PICK delay \in Delays :
                due[t] >= armedAt[t] + delay - (IF t \in SecTimers THEN Second - 1 ELSE 0)
        BY DEF LateEnough
      <3>2. /\ armedAt[t] \in Int /\ delay \in Int /\ Second \in Int /\ due[t] \in Int /\ clock \in Int
            /\ due[t] <= clock
        BY <1>1, <1>7, <1>9, TimeAssumption DEF TypeOK
      <3>3. clock >= armedAt[t] + delay - (IF t \in SecTimers THEN Second - 1 ELSE 0)
        BY <3>1, <3>2
      <3> QED
        BY <3>3 DEF LateEnough
    <2>2. \A t \in Timers : /\ LateEnough(t, clock)' <=> LateEnough(t, clock)
                            /\ armedAt'[t] = armedAt[t]
      BY <1>3 DEF LateEnough
    <2>3. ASSUME NEW t \in Timers, t \in posted'
          PROVE  armedAt'[t] # -1 /\ LateEnough(t, clock)'
      <3>1. CASE t \in posted
        BY <1>1, <2>2, <3>1 DEF TimerInv
      <3>2. CASE t \notin posted
        <4>1. t \in DueOf(Timers)
          BY <1>9, <1>10, <1>14, <2>3, <3>2
        <4>2. due[t] # -1
          BY <1>7, <4>1
        <4> QED
          BY <1>1, <2>1, <2>2, <4>1, <4>2 DEF TimerInv
      <3> QED
        BY <3>1, <3>2
    <2>4. ASSUME NEW t \in Timers, due'[t] # -1
          PROVE  armedAt'[t] # -1 /\ LateEnough(t, due[t])'
      <3>1. due'[t] = due[t] /\ due[t] # -1
        BY <1>15, <2>4
      <3>2. LateEnough(t, due[t])' <=> LateEnough(t, due[t])
        BY <1>3, <3>1 DEF LateEnough
      <3> QED
        BY <1>1, <2>2, <3>1, <3>2 DEF TimerInv
    <2> QED
      BY <2>3, <2>4 DEF TimerInv
  <1>24. (startCall = "notified" => reactorMode)'
    BY <1>1, <1>3
  <1> QED
    BY <1>16, <1>18, <1>19, <1>20, <1>21, <1>22, <1>23, <1>24, CoreFrom

-----------------------------------------------------------------------------
(* The theorems.                                                           *)

LEMMA InitialCore == Init => Core
  <1> SUFFICES ASSUME Init PROVE Core
    OBVIOUS
  <1>1. TypeOK
    <2>1. clock \in Nat
      BY TimeAssumption DEF Init
    <2>2. {reactorMode, start, work, cancelled} \subseteq BOOLEAN
      <3>1. reactorMode \in BOOLEAN /\ start \in BOOLEAN /\ work \in BOOLEAN /\ cancelled \in BOOLEAN
        BY DEF Init
      <3> QED
        BY <3>1
    <2>3. workList \in Seq(Units \cup {Baton}) /\ taskList \in Seq(Units)
      BY DEF Init
    <2>4. pc \in [Workers -> Places] /\ unit \in [Workers -> Units \cup {NULL}]
      BY DEF Init, Places, StartPlaces
    <2>5. notices \in Nat /\ startCall = "none" /\ stopCall = "none"
      BY DEF Init
    <2>6. /\ due \in [Timers -> Nat \cup {-1}] /\ armedAt \in [Timers -> Nat \cup {-1}]
          /\ posted \subseteq Units /\ taken \in [Units -> Nat] /\ ran \subseteq Units
      BY DEF Init
    <2> QED
      BY <2>1, <2>2, <2>3, <2>4, <2>5, <2>6 DEF TypeOK
  <1>2. Leaders = {}
    BY DEF Init, Leaders
  <1>3. \A x : Count(workList, x) = 0 /\ Count(taskList, x) = 0
    BY CountEmpty DEF Init
  <1>4. Cardinality(Leaders) = 0
    BY <1>2, FS_EmptySet
  <1>5. OneLeader
    BY <1>3, <1>4, CountsMean DEF Init
  <1>6. HandedOverOnce
    BY <1>3, CountsMean DEF Init
  <1>7. UnitInv /\ TimerInv
    BY DEF Init, UnitInv, TimerInv
  <1> QED
    BY <1>1, <1>5, <1>6, <1>7 DEF Core, Init

LEMMA NextKeepsCore == Core /\ [Next]_vars => Core'
  <1> SUFFICES ASSUME Core, [Next]_vars PROVE Core'
    OBVIOUS
  <1>1. ASSUME UNCHANGED vars PROVE Core'
    <2> USE DEF vars, control, worker, timing, history
    <2>1. Leaders' = Leaders
      BY <1>1 DEF Leaders
    <2>2. TypeOK' /\ OneLeader' /\ HandedOverOnce'
      BY <1>1, <2>1 DEF Core, TypeOK, OneLeader, HandedOverOnce
    <2>3. UnitInv' /\ TimerInv'
      BY <1>1 DEF Core, UnitInv, TimerInv, LateEnough
    <2> QED
      BY <1>1, <2>2, <2>3 DEF Core
  <1>2. ASSUME StartPush \/ \E task \in Tasks : Post(task) PROVE Core'
    BY <1>2, PushActions
  <1>3. ASSUME NEW delay \in Delays,
               (\E t \in SecTimers : ExpiresFunc(t, delay)) \/ (\E t \in MsTimers : ExpiresFuncByMs(t, delay))
        PROVE  Core'
    BY <1>3, ArmActions
  <1>4. ASSUME StartSet \/ StartNotify \/ StopSet \/ StopNotify \/ Notify \/ CancelFunc \/ Tick
        PROVE  Core'
    BY <1>4, QuietActions
  <1>5. ASSUME NEW w \in Workers, Work(w) \/ SpuriousWakeup(w) PROVE Core'
    <2>1. CASE \/ StartTest(w) \/ StartSleep(w) \/ ReactorNotify(w) \/ Empty(w) \/ Wait(w)
               \/ Loop(w) \/ SpuriousWakeup(w)
      BY <2>1, QuietActions
    <2>2. CASE GetTast(w)
      BY <2>2, GetStep
    <2>3. CASE Complete(w) \/ RunFunc(w)
      BY <2>3, CompleteStep
    <2>4. CASE ReactorWait(w)
      BY <2>4, ReactorWaitStep
    <2>5. CASE ReactorPush(w)
      BY <2>5, ReactorPushStep
    <2> QED
      BY <1>5, <2>1, <2>2, <2>3, <2>4, <2>5 DEF Work
  <1> QED
    BY <1>1, <1>2, <1>3, <1>4, <1>5 DEF Next

-----------------------------------------------------------------------------
(* Somebody is awake.                                                      *)

LEMMA InitialAwake == Init => AwakeInv
  BY DEF Init, AwakeInv, NoLostSignal, NobodyLeft

\* One worker that is awake after the step is enough.
LEMMA AwakeAfter ==
    ASSUME NobodyLeft', NEW w \in Workers, pc'[w] \notin StartPlaces \cup {"waiting", "exited"}
    PROVE  AwakeInv'
  BY DEF AwakeInv, NoLostSignal, Started

\* A step that wakes, starts and hands over nothing.
LEMMA AwakeStays ==
    ASSUME AwakeInv, UNCHANGED <<workList, notices>>, work' => work,
           \A w \in Workers :
               \/ pc'[w] = pc[w]
               \/ pc[w] \in StartPlaces /\ pc'[w] \in StartPlaces
               \/ pc[w] = "waiting" /\ pc'[w] = "wait"
    PROVE  AwakeInv'
  <1>1. NobodyLeft'
    BY DEF AwakeInv, NobodyLeft, StartPlaces
  <1>2. ASSUME NEW w \in Workers, pc[w] = "waiting", pc'[w] = "wait" PROVE AwakeInv'
    BY <1>1, <1>2, AwakeAfter DEF StartPlaces
  <1>3. CASE \A w \in Workers : pc'[w] = pc[w] \/ (pc[w] \in StartPlaces /\ pc'[w] \in StartPlaces)
    <2>1. \A w \in Workers : Started(w)' <=> Started(w)
      BY <1>3 DEF Started
    <2>2. \A w \in Workers : Started(w) => pc'[w] = pc[w]
      BY <1>3 DEF Started
    <2>3. NoLostSignal'
      BY <2>1, <2>2 DEF AwakeInv, NoLostSignal
    <2> QED
      BY <1>1, <2>3 DEF AwakeInv
  <1>4. CASE ~(\E w \in Workers : pc[w] = "waiting" /\ pc'[w] = "wait")
    <2>1. \A w \in Workers : pc'[w] = pc[w] \/ (pc[w] \in StartPlaces /\ pc'[w] \in StartPlaces)
      BY <1>4, Zenon
    <2> QED
      BY <1>3, <2>1
  <1> QED
    BY <1>2, <1>4

LEMMA NextKeepsAwake == TypeOK /\ AwakeInv /\ [Next]_vars => AwakeInv'
  <1> SUFFICES ASSUME TypeOK, AwakeInv, [Next]_vars PROVE AwakeInv'
    OBVIOUS
  <1>1. notices \in Nat /\ pc \in [Workers -> Places] /\ NobodyLeft
    BY DEF TypeOK, AwakeInv
  <1>2. ASSUME NEW w \in Workers, NEW place, Goto(w, place)
        PROVE  \A v \in Workers : pc'[v] = IF v = w THEN place ELSE pc[v]
    BY <1>1, <1>2 DEF Goto
  <1>3. ASSUME NEW w \in Workers, NEW place, Goto(w, place), work' => work,
               place \notin StartPlaces \cup {"waiting", "exited"}
        PROVE  AwakeInv'
    <2>1. NobodyLeft'
      BY <1>1, <1>2, <1>3 DEF NobodyLeft
    <2>2. pc'[w] = place
      BY <1>2, <1>3
    <2> QED
      BY <1>3, <2>1, <2>2, AwakeAfter
  <1>4. CASE StartSet \/ StopSet \/ CancelFunc \/ Tick \/ UNCHANGED vars
    <2>1. UNCHANGED <<workList, notices, pc>> /\ (work' => work)
      BY <1>4 DEF StartSet, StopSet, CancelFunc, Tick, vars, control, worker
    <2> QED
      BY <2>1, AwakeStays
  <1>5. CASE StartNotify \/ StopNotify
    <2>1. UNCHANGED <<workList, notices, work>>
      BY <1>5 DEF StartNotify, StopNotify
    <2>2. \A w \in Workers :
              \/ pc'[w] = pc[w]
              \/ pc[w] \in StartPlaces /\ pc'[w] \in StartPlaces
              \/ pc[w] = "waiting" /\ pc'[w] = "wait"
      BY <1>1, <1>5 DEF StartNotify, StopNotify, StartPlaces
    <2> QED
      BY <2>1, <2>2, AwakeStays
  <1>6. CASE StartPush \/ \E task \in Tasks : Post(task)
    <2>1. notices' > 0 /\ UNCHANGED <<pc, work>>
      BY <1>1, <1>6 DEF StartPush, Post, worker, control
    <2> QED
      BY <1>1, <2>1 DEF AwakeInv, NoLostSignal, NobodyLeft
  <1>7. CASE Notify
    <2>1. ASSUME NEW w \in Workers, Goto(w, "wait") PROVE AwakeInv'
      <3>1. UNCHANGED work
        BY <1>7 DEF Notify, control
      <3> QED
        BY <1>3, <2>1, <3>1 DEF StartPlaces
    <2>2. CASE (\A w \in Workers : pc[w] # "waiting") /\ UNCHANGED pc
      <3>1. UNCHANGED <<work, pc>>
        BY <1>7, <2>2 DEF Notify, control
      <3>2. NobodyLeft'
        BY <1>1, <3>1 DEF NobodyLeft
      <3>3. ASSUME work', NEW w \in Workers, Started(w)' PROVE AwakeInv'
        <4>1. pc'[w] \notin StartPlaces \cup {"waiting", "exited"}
          BY <1>1, <2>2, <3>1, <3>3 DEF Started, NobodyLeft
        <4> QED
          BY <3>2, <4>1, AwakeAfter
      <3> QED
        BY <3>2, <3>3 DEF AwakeInv, NoLostSignal
    <2> QED
      BY <1>7, <2>1, <2>2 DEF Notify
  <1>8. ASSUME NEW delay \in Delays,
               (\E t \in SecTimers : ExpiresFunc(t, delay)) \/ (\E t \in MsTimers : ExpiresFuncByMs(t, delay))
        PROVE  AwakeInv'
    <2>1. UNCHANGED <<workList, notices, pc, work>>
      BY <1>8 DEF ExpiresFunc, ExpiresFuncByMs, control, worker
    <2> QED
      BY <2>1, AwakeStays
  <1>9. ASSUME NEW w \in Workers, StartTest(w) \/ StartSleep(w) \/ SpuriousWakeup(w) PROVE AwakeInv'
    <2>1. UNCHANGED <<workList, notices, work>>
      BY <1>9 DEF StartTest, StartSleep, SpuriousWakeup, control
    <2>2. CASE Goto(w, "get")
      BY <1>3, <2>1, <2>2 DEF StartPlaces
    <2>3. CASE \/ pc[w] \in StartPlaces /\ \E place \in StartPlaces : Goto(w, place)
               \/ pc[w] = "waiting" /\ Goto(w, "wait")
      <3>1. \A v \in Workers :
                \/ pc'[v] = pc[v]
                \/ pc[v] \in StartPlaces /\ pc'[v] \in StartPlaces
                \/ pc[v] = "waiting" /\ pc'[v] = "wait"
        BY <1>2, <2>3
      <3> QED
        BY <2>1, <3>1, AwakeStays
    <2> QED
      BY <1>9, <2>2, <2>3 DEF StartTest, StartSleep, SpuriousWakeup, StartPlaces
  <1>10. ASSUME NEW w \in Workers,
                \/ GetTast(w) \/ Complete(w) \/ RunFunc(w) \/ ReactorWait(w) \/ ReactorPush(w)
                \/ Empty(w)
         PROVE  AwakeInv'
    <2>1. UNCHANGED work
      BY <1>10 DEF GetTast, Complete, RunFunc, ReactorWait, ReactorPush, Empty, control
    <2>2. \E place \in {"empty", "reactorWait", "complete", "func", "loop", "reactorPush",
                        "reactorNotify", "wait"} : Goto(w, place)
      BY <1>10 DEF GetTast, Complete, RunFunc, ReactorWait, ReactorPush, Empty
    <2> QED
      BY <1>3, <2>1, <2>2 DEF StartPlaces
  <1>11. ASSUME NEW w \in Workers, ReactorNotify(w) PROVE AwakeInv'
    <2>1. pc'[w] = "loop" /\ \A v \in Workers : pc'[v] = "exited" => pc[v] = "exited"
      BY <1>1, <1>11 DEF ReactorNotify, Goto
    <2>2. NobodyLeft'
      BY <1>1, <1>11, <2>1 DEF ReactorNotify, NobodyLeft, control
    <2> QED
      BY <2>1, <2>2, AwakeAfter DEF StartPlaces
  <1>12. ASSUME NEW w \in Workers, Wait(w) PROVE AwakeInv'
    <2>1. UNCHANGED <<work, workList>>
      BY <1>12 DEF Wait, control
    <2>2. CASE workList # <<>>
      BY <1>3, <1>12, <2>1, <2>2 DEF Wait, StartPlaces
    <2>3. CASE workList = <<>>
      <3>1. Goto(w, "waiting")
        BY <1>12, <2>3 DEF Wait
      <3>2. NobodyLeft'
        BY <1>1, <1>2, <2>1, <3>1 DEF NobodyLeft
      <3> QED
        BY <2>1, <2>3, <3>2 DEF AwakeInv, NoLostSignal
    <2> QED
      BY <2>2, <2>3
  <1>13. ASSUME NEW w \in Workers, Loop(w) PROVE AwakeInv'
    <2>1. UNCHANGED work
      BY <1>13 DEF Loop, control
    <2>2. CASE work
      BY <1>3, <1>13, <2>1, <2>2 DEF Loop, StartPlaces
    <2>3. CASE ~work
      BY <2>1, <2>3 DEF AwakeInv, NoLostSignal, NobodyLeft
    <2> QED
      BY <2>2, <2>3
  <1> QED
    BY <1>4, <1>5, <1>6, <1>7, <1>8, <1>9, <1>10, <1>11, <1>12, <1>13 DEF Next, Work

-----------------------------------------------------------------------------
(* What the proofs establish.                                              *)

\* The inductive invariant: besides what LeaderInv says, a unit that a worker
\* completes was handed over, a timer is armed or handed over no earlier than
\* its delay allows, and no worker leaves a scheduler that works.
THEOREM SchedulerInvariant == Spec => []SchedulerInv
  <1>1. Init => Core /\ AwakeInv
    BY InitialCore, InitialAwake
  <1>2. Core /\ AwakeInv /\ [Next]_vars => (Core /\ AwakeInv)'
    BY NextKeepsCore, NextKeepsAwake DEF Core
  <1>3. Core /\ AwakeInv => SchedulerInv
    BY CoreIsEnough
  <1> QED
    BY <1>1, <1>2, <1>3, PTL DEF Spec

\* The baton of the leader is never lost or doubled, every unit handed over is
\* in one place, once, no timer's function runs early, and no notification is
\* lost.
THEOREM LeaderCorrect == Spec => []LeaderInv
  <1>1. SchedulerInv => LeaderInv
    BY DEF SchedulerInv
  <1> QED
    BY <1>1, SchedulerInvariant, PTL
=============================================================================
