---------------------------- MODULE ReactorProofs ----------------------------
(***************************************************************************)
(* Proofs about module Reactor: a cancel leaves nothing behind, whatever   *)
(* the threads do, and with one thread no readiness is lost to a read.     *)
(***************************************************************************)
EXTENDS Reactor, FiniteSetTheorems, TLAPS

LEMMA OpsFinite == IsFiniteSet(Ops)
  <1>1. IsFiniteSet({}) /\ IsFiniteSet({} \cup {"in"}) /\ IsFiniteSet(({} \cup {"in"}) \cup {"out"})
    BY FS_EmptySet, FS_AddElement
  <1>2. Ops = ({} \cup {"in"}) \cup {"out"}
    BY DEF Ops
  <1> QED
    BY <1>1, <1>2

(* The only thread is free when it does none of the three things.          *)
LEMMA OneThreadFree ==
    ASSUME threads = 1, ThreadFree
    PROVE  /\ \A op \in Ops : pc[op] \notin Running
           /\ reactor # "run"
           /\ cancelCall # "del"
  <1> DEFINE S == {op \in Ops : pc[op] \in Running}
             r == IF reactor = "run" THEN 1 ELSE 0
             c == IF cancelCall = "del" THEN 1 ELSE 0
  <1>1. IsFiniteSet(S)
    BY OpsFinite, FS_Subset
  <1>2. Cardinality(S) \in Nat /\ (Cardinality(S) = 0 <=> S = {})
    BY <1>1, FS_CardinalityType, FS_EmptySet
  <1>3. Cardinality(S) + r + c < 1
    BY DEF ThreadFree
  <1>4. r \in {0, 1} /\ c \in {0, 1}
    OBVIOUS
  <1> HIDE DEF S, r, c
  <1>5. Cardinality(S) = 0 /\ r = 0 /\ c = 0
    BY <1>2, <1>3, <1>4
  <1> QED
    BY <1>2, <1>5 DEF S, r, c

-----------------------------------------------------------------------------
(* Types.                                                                  *)

LEMMA TypeStep == TypeOK /\ [Next]_vars => TypeOK'
  <1> SUFFICES ASSUME TypeOK, [Next]_vars PROVE TypeOK'
    OBVIOUS
  <1> USE DEF TypeOK, Places, Running, Goto
  <1>1. ASSUME NEW op \in Ops, SocketEvent(op) PROVE TypeOK'
    BY <1>1 DEF SocketEvent, mount, thread
  <1>2. ASSUME PeerGone PROVE TypeOK'
    BY <1>2 DEF PeerGone, mount, thread
  <1>3. ASSUME NEW op \in Ops, Call(op) \/ TestTrigger(op) PROVE TypeOK'
    BY <1>3 DEF Call, TestTrigger, kernel, entry, mount
  <1>4. ASSUME NEW op \in Ops, Ctl(op) PROVE TypeOK'
    <2>1. registered' \in BOOLEAN /\ ready' \in BOOLEAN
      BY <1>4 DEF Ctl
    <2>2. interest' \in SUBSET Ops
      BY <1>4 DEF Ctl
    <2>3. pc' \in [Ops -> Places]
      BY <1>4 DEF Ctl
    <2>4. ev' \in [Ops -> SUBSET Ops]
      BY <1>4 DEF Ctl
    <2> QED
      BY <1>4, <2>1, <2>2, <2>3, <2>4 DEF Ctl, kernel, mount
  <1>5. ASSUME NEW op \in Ops, AddMount(op) \/ StoreEvent(op) PROVE TypeOK'
    <2>1. CASE AddMount(op)
      BY <2>1 DEF AddMount, kernel, entry
    <2>2. CASE StoreEvent(op)
      <3>1. curEvent' \in SUBSET Ops
        BY <2>2 DEF StoreEvent
      <3> QED
        BY <2>2, <3>1 DEF StoreEvent, kernel, entry
    <2> QED
      BY <1>5, <2>1, <2>2
  <1>6. ASSUME NEW op \in Ops, AddUnit(op) PROVE TypeOK'
    BY <1>6 DEF AddUnit, kernel, entry
  <1>7. ASSUME NEW op \in Ops, TakePosted(op) \/ RunCancelled(op) PROVE TypeOK'
    BY <1>7 DEF TakePosted, RunCancelled, kernel, entry, mount
  <1>8. ASSUME NEW op \in Ops, RunIO(op) PROVE TypeOK'
    BY <1>8 DEF RunIO, entry, mount
  <1>9. ASSUME NEW op \in Ops, RunAgain(op) PROVE TypeOK'
    BY <1>9 DEF RunAgain, kernel, entry
  <1>10. ASSUME EpollWait PROVE TypeOK'
    BY <1>10 DEF EpollWait, kernel, mount, Reported, Now
  <1>11. ASSUME RunEventOp PROVE TypeOK'
    BY <1>11 DEF RunEventOp, Activated, kernel, entry, Ops
  <1>12. ASSUME CancelUnits PROVE TypeOK'
    BY <1>12 DEF CancelUnits, kernel, entry
  <1>13. ASSUME DelEvent PROVE TypeOK'
    BY <1>13 DEF DelEvent, kernel
  <1>14. CASE UNCHANGED vars
    BY <1>14 DEF vars, kernel, entry, mount, thread
  <1> QED
    BY <1>1, <1>2, <1>3, <1>4, <1>5, <1>6, <1>7, <1>8, <1>9, <1>10, <1>11, <1>12, <1>13, <1>14
    DEF Next, Step

-----------------------------------------------------------------------------
(* A cancel leaves nothing behind.                                         *)

LEMMA QuietStep == TypeOK /\ CancelledIsQuiet /\ [Next]_vars => CancelledIsQuiet'
  <1> SUFFICES ASSUME TypeOK, CancelledIsQuiet, [Next]_vars PROVE CancelledIsQuiet'
    OBVIOUS
  <1>0. pc \in [Ops -> Places]
    BY DEF TypeOK
  <1> USE DEF CancelledIsQuiet, Goto
  <1>1. ASSUME NEW op \in Ops, SocketEvent(op) \/ Call(op) PROVE CancelledIsQuiet'
    BY <1>0, <1>1 DEF SocketEvent, Call, mount, thread
  <1>2. ASSUME NEW op \in Ops, TestTrigger(op) PROVE CancelledIsQuiet'
    BY <1>0, <1>2 DEF TestTrigger, mount
  <1>3. ASSUME NEW op \in Ops, Ctl(op) PROVE CancelledIsQuiet'
    BY <1>0, <1>3 DEF Ctl, mount
  <1>4. ASSUME NEW op \in Ops, AddMount(op) \/ StoreEvent(op) PROVE CancelledIsQuiet'
    BY <1>0, <1>4 DEF AddMount, StoreEvent
  <1>5. ASSUME NEW op \in Ops, AddUnit(op) PROVE CancelledIsQuiet'
    BY <1>0, <1>5 DEF AddUnit
  <1>6. ASSUME NEW op \in Ops, TakePosted(op) \/ RunCancelled(op) \/ RunIO(op)
        PROVE  CancelledIsQuiet'
    BY <1>0, <1>6 DEF TakePosted, RunCancelled, RunIO, mount
  <1>7. ASSUME NEW op \in Ops, RunAgain(op) PROVE CancelledIsQuiet'
    BY <1>0, <1>7 DEF RunAgain
  <1>8. ASSUME RunEventOp PROVE CancelledIsQuiet'
    <2>1. CASE mounted /\ ~cancelFlag
      <3> DEFINE A == Activated(unitMap)
      <3>1. unitMap' = unitMap \ A /\ ~cancelFlag'
        BY <1>8, <2>1 DEF RunEventOp
      <3>2. pc' = [op \in Ops |-> IF op \in A THEN "posted" ELSE pc[op]]
        BY <1>8, <2>1 DEF RunEventOp
      <3> HIDE DEF A
      <3>3. unitMap' = {op \in Ops : pc'[op] = "wait"}
        BY <3>1, <3>2
      <3> QED
        BY <3>1, <3>3
    <2>2. CASE ~(mounted /\ ~cancelFlag)
      BY <1>8, <2>2 DEF RunEventOp
    <2> QED
      BY <2>1, <2>2
  <1>9. ASSUME CancelUnits PROVE CancelledIsQuiet'
    BY <1>0, <1>9 DEF CancelUnits
  <1>10. ASSUME PeerGone \/ UNCHANGED vars PROVE CancelledIsQuiet'
    BY <1>10 DEF PeerGone, vars, mount, thread
  <1>11. ASSUME EpollWait PROVE CancelledIsQuiet'
    BY <1>11 DEF EpollWait, mount
  <1>12. ASSUME DelEvent PROVE CancelledIsQuiet'
    BY <1>12 DEF DelEvent
  <1> QED
    BY <1>1, <1>2, <1>3, <1>4, <1>5, <1>6, <1>7, <1>8, <1>9, <1>10, <1>11, <1>12 DEF Next, Step

-----------------------------------------------------------------------------
(* With one thread.                                                        *)

LEMMA TurnsStep ==
    TypeOK /\ CancelledIsQuiet /\ threads = 1 /\ Turns /\ [Next]_vars => Turns'
  <1> SUFFICES ASSUME TypeOK, CancelledIsQuiet, threads = 1, Turns, [Next]_vars
               PROVE  Turns'
    OBVIOUS
  <1>0. pc \in [Ops -> Places] /\ reactor \in {"out", "run"} /\ cancelCall \in {"none", "del", "done"}
    BY DEF TypeOK
  <1> USE <1>0 DEF Turns, Goto, Ops, Running
  <1>1. ASSUME NEW op \in Ops, SocketEvent(op) PROVE Turns'
    BY <1>1 DEF SocketEvent, mount, thread
  <1>2. ASSUME NEW op \in Ops, Call(op) PROVE Turns'
    BY <1>2, OneThreadFree DEF Call, mount
  <1>3. ASSUME NEW op \in Ops, TestTrigger(op) PROVE Turns'
    BY <1>3 DEF TestTrigger, mount
  <1>4. ASSUME NEW op \in Ops, Ctl(op) PROVE Turns'
    BY <1>4 DEF Ctl, mount
  <1>5. ASSUME NEW op \in Ops, AddMount(op) \/ StoreEvent(op) PROVE Turns'
    BY <1>5 DEF AddMount, StoreEvent
  <1>6. ASSUME NEW op \in Ops, AddUnit(op) PROVE Turns'
    BY <1>6 DEF AddUnit
  <1>7. ASSUME NEW op \in Ops, TakePosted(op) PROVE Turns'
    BY <1>7, OneThreadFree DEF TakePosted, mount
  <1>8. ASSUME NEW op \in Ops, RunCancelled(op) \/ RunIO(op) PROVE Turns'
    BY <1>8 DEF RunCancelled, RunIO, mount
  <1>9. ASSUME NEW op \in Ops, RunAgain(op) PROVE Turns'
    BY <1>9 DEF RunAgain
  <1>10. ASSUME EpollWait PROVE Turns'
    BY <1>10, OneThreadFree DEF EpollWait, mount
  <1>11. ASSUME RunEventOp PROVE Turns'
    <2>1. \A op \in Ops : pc'[op] \in {pc[op], "posted"}
      BY <1>11 DEF RunEventOp
    <2>2. reactor' = "out" /\ cancelFlag' = cancelFlag /\ cancelCall' = cancelCall
      BY <1>11 DEF RunEventOp
    <2> QED
      BY <2>1, <2>2
  <1>12. ASSUME CancelUnits PROVE Turns'
    <2>1. \A op \in Ops : pc[op] \notin Running /\ reactor # "run"
      BY <1>12, OneThreadFree DEF CancelUnits
    <2>2. \A op \in Ops : pc'[op] = IF pc[op] = "wait" THEN "dropped" ELSE pc[op]
      BY <1>12 DEF CancelUnits, CancelledIsQuiet
    <2>3. reactor' = reactor /\ cancelFlag' /\ cancelCall' = "del"
      BY <1>12 DEF CancelUnits
    <2> QED
      BY <2>1, <2>2, <2>3 DEF Places
  <1>13. ASSUME DelEvent PROVE Turns'
    BY <1>13 DEF DelEvent
  <1>14. CASE PeerGone \/ UNCHANGED vars
    BY <1>14 DEF PeerGone, vars, mount, thread
  <1> QED
    BY <1>1, <1>2, <1>3, <1>4, <1>5, <1>6, <1>7, <1>8, <1>9, <1>10, <1>11, <1>12, <1>13, <1>14
    DEF Next, Step

(* In the midst of startEvent or not, an event of m_curEvent is in epoll's  *)
(* entry.                                                                   *)
LEMMA ReadIsInEntry ==
    ASSUME TypeOK, EventsKnown, ~cancelFlag,
           "in" \in curEvent \/ pc["in"] \in {"mount", "store"}
    PROVE  registered /\ "in" \in interest
  BY DEF TypeOK, EventsKnown, Ops

LEMMA EventsStep ==
    TypeOK /\ CancelledIsQuiet /\ threads = 1 /\ Turns /\ EventsKnown /\ [Next]_vars
        => EventsKnown'
  <1> SUFFICES ASSUME TypeOK, CancelledIsQuiet, threads = 1, Turns, EventsKnown, [Next]_vars
               PROVE  EventsKnown'
    OBVIOUS
  <1>0. /\ pc \in [Ops -> Places] /\ ev \in [Ops -> SUBSET Ops] /\ curEvent \in SUBSET Ops
        /\ registered \in BOOLEAN
    BY DEF TypeOK
  <1> USE <1>0 DEF EventsKnown, Goto, Ops, Running
  <1>1. ASSUME NEW op \in Ops, SocketEvent(op) PROVE EventsKnown'
    BY <1>1 DEF SocketEvent, mount, thread
  <1>2. ASSUME NEW op \in Ops, Call(op) PROVE EventsKnown'
    BY <1>2 DEF Call, entry, mount
  <1>3. ASSUME NEW op \in Ops, TestTrigger(op) PROVE EventsKnown'
    BY <1>3 DEF TestTrigger, entry, mount
  <1>4. ASSUME NEW op \in Ops, Ctl(op) PROVE EventsKnown'
    <2> DEFINE other == CHOOSE o \in Ops : o # op
    <2>1. other \in Ops /\ other # op /\ Ops = {op, other}
      OBVIOUS
    <2>2. pc[op] = "ctl" /\ pc[other] \notin Running
      BY <1>4, <2>1 DEF Ctl, Turns
    <2>3. /\ pc'[other] = pc[other] /\ ev'[op] = curEvent \cup {op}
          /\ curEvent' = curEvent /\ mounted' = mounted /\ cancelFlag' = cancelFlag
      BY <1>4, <2>1 DEF Ctl, mount
    <2> HIDE DEF other
    <2>4. CASE curEvent = {}
      <3>1. registered' /\ interest' = (IF registered THEN interest ELSE {op}) /\ pc'[op] = "mount"
        BY <1>4, <2>4 DEF Ctl
      <3> QED
        BY <2>1, <2>2, <2>3, <2>4, <3>1
    <2>5. CASE curEvent # {}
      <3>1. /\ registered' = registered /\ pc'[op] = "store"
            /\ interest' = (IF registered THEN ev'[op] ELSE interest)
        BY <1>4, <2>5 DEF Ctl
      <3> QED
        BY <2>1, <2>2, <2>3, <2>5, <3>1
    <2> QED
      BY <2>4, <2>5
  <1>5. ASSUME NEW op \in Ops, AddMount(op) PROVE EventsKnown'
    BY <1>5 DEF AddMount, entry, Turns
  <1>6. ASSUME NEW op \in Ops, StoreEvent(op) PROVE EventsKnown'
    BY <1>6 DEF StoreEvent, entry, Turns
  <1>7. ASSUME NEW op \in Ops, AddUnit(op) PROVE EventsKnown'
    BY <1>7 DEF AddUnit, entry
  <1>8. ASSUME NEW op \in Ops, TakePosted(op) PROVE EventsKnown'
    BY <1>8 DEF TakePosted, entry, mount
  <1>9. ASSUME NEW op \in Ops, RunCancelled(op) \/ RunIO(op) PROVE EventsKnown'
    BY <1>9 DEF RunCancelled, RunIO, entry, mount
  <1>10. ASSUME NEW op \in Ops, RunAgain(op) PROVE EventsKnown'
    BY <1>10 DEF RunAgain, entry
  <1>11. ASSUME RunEventOp PROVE EventsKnown'
    <2>1. \A op \in Ops : pc'[op] \in {pc[op], "posted"}
      BY <1>11 DEF RunEventOp
    <2>2. \A op \in Ops : pc[op] \notin {"mount", "store"}
      BY <1>11 DEF RunEventOp, Turns
    <2>3. UNCHANGED <<registered, interest, curEvent, mounted, cancelFlag, ev>>
      BY <1>11 DEF RunEventOp, entry
    <2> QED
      BY <2>1, <2>2, <2>3
  <1>12. ASSUME EpollWait PROVE EventsKnown'
    BY <1>12 DEF EpollWait, mount
  <1>13. ASSUME CancelUnits PROVE EventsKnown'
    BY <1>13 DEF CancelUnits
  <1>14. ASSUME DelEvent PROVE EventsKnown'
    BY <1>14 DEF DelEvent, Turns
  <1>15. CASE PeerGone \/ UNCHANGED vars
    BY <1>15 DEF PeerGone, vars, entry, mount, thread
  <1> QED
    BY <1>1, <1>2, <1>3, <1>4, <1>5, <1>6, <1>7, <1>8, <1>9, <1>10, <1>11, <1>12, <1>13, <1>14, <1>15
    DEF Next, Step

LEMMA EdgeStep ==
    TypeOK /\ CancelledIsQuiet /\ threads = 1 /\ Turns /\ EventsKnown /\ EdgeKept /\ [Next]_vars
        => EdgeKept'
  <1> SUFFICES ASSUME TypeOK, CancelledIsQuiet, threads = 1,
                      Turns, EventsKnown, EdgeKept, [Next]_vars
               PROVE  EdgeKept'
    OBVIOUS
  <1>0. pc \in [Ops -> Places] /\ ev \in [Ops -> SUBSET Ops]
    BY DEF TypeOK
  <1> USE <1>0 DEF EdgeKept, Served, Goto, Ops, Running
  <1>1. ASSUME NEW op \in Ops, SocketEvent(op) PROVE EdgeKept'
    BY <1>1, ReadIsInEntry DEF SocketEvent, mount, thread
  <1>2. ASSUME PeerGone PROVE EdgeKept'
    BY <1>2, ReadIsInEntry DEF PeerGone, mount, thread
  <1>3. ASSUME NEW op \in Ops, Call(op) PROVE EdgeKept'
    BY <1>3 DEF Call, kernel, entry, mount, Can
  <1>4. ASSUME NEW op \in Ops, TestTrigger(op) PROVE EdgeKept'
    BY <1>4 DEF TestTrigger, kernel, entry, mount, Can
  <1>5. ASSUME NEW op \in Ops, Ctl(op) PROVE EdgeKept'
    <2>1. /\ pc[op] = "ctl" /\ pc' = [pc EXCEPT ![op] = IF curEvent = {} THEN "mount" ELSE "store"]
          /\ ev' = [ev EXCEPT ![op] = curEvent \cup {op}]
          /\ UNCHANGED <<level, gone, trigger, curEvent, cancelFlag, reactor, mask>>
      BY <1>5 DEF Ctl, kernel, mount
    <2>2. "in" \notin trigger' /\ ~cancelFlag' => "in" \notin trigger /\ ~cancelFlag
      BY <2>1
    <2>3. SUFFICES ASSUME ~cancelFlag', "in" \notin trigger', Can("in")',
                          "in" \in curEvent' \/ pc'["in"] \in {"mount", "store"}
                   PROVE  Served'
      BY <2>1
    <2>4. Can("in")
      BY <2>1, <2>3 DEF Can
    <2>5. "in" \in curEvent \cup {op}
      BY <2>1, <2>3 DEF Turns
    <2>6. \A o \in Ops : pc[o] \notin {"mount", "store"}
      BY <2>1 DEF Turns
    <2>7. CASE curEvent = {}
      <3>1. ~registered
        BY <2>2, <2>3, <2>6, <2>7 DEF EventsKnown
      <3>2. registered' /\ interest' = {op} /\ ready' /\ op = "in"
        BY <1>5, <2>4, <2>5, <2>7, <3>1 DEF Ctl
      <3> QED
        BY <3>2
    <2>8. CASE curEvent # {}
      <3>1. registered
        BY <2>2, <2>3, <2>6, <2>8 DEF EventsKnown
      <3>2. registered' /\ interest' = ev'[op] /\ ready' = (ready \/ \E e \in ev'[op] : Can(e))
        BY <1>5, <2>8, <3>1 DEF Ctl
      <3>3. "in" \in ev'[op]
        BY <2>1, <2>5
      <3> QED
        BY <2>4, <3>2, <3>3
    <2> QED
      BY <2>7, <2>8
  <1>6. ASSUME NEW op \in Ops, AddMount(op) PROVE EdgeKept'
    BY <1>6 DEF AddMount, kernel, entry, Can
  <1>7. ASSUME NEW op \in Ops, StoreEvent(op) PROVE EdgeKept'
    BY <1>7 DEF StoreEvent, EventsKnown, kernel, entry, Can
  <1>8. ASSUME NEW op \in Ops, AddUnit(op) PROVE EdgeKept'
    BY <1>8 DEF AddUnit, kernel, entry, Can
  <1>9. ASSUME NEW op \in Ops, TakePosted(op) \/ RunCancelled(op) PROVE EdgeKept'
    BY <1>9 DEF TakePosted, RunCancelled, kernel, entry, mount, Can
  <1>10. ASSUME NEW op \in Ops, RunIO(op) PROVE EdgeKept'
    BY <1>10 DEF RunIO, entry, mount, Can
  <1>11. ASSUME NEW op \in Ops, RunAgain(op) PROVE EdgeKept'
    BY <1>11 DEF RunAgain, kernel, entry, Can
  <1>12. ASSUME EpollWait PROVE EdgeKept'
    <2>1. UNCHANGED <<level, gone, registered, interest, curEvent, trigger, cancelFlag, pc>>
      BY <1>12 DEF EpollWait, kernel, mount
    <2>2. Can("in")' => Can("in")
      BY <2>1 DEF Can
    <2>3. "in" \in interest /\ Can("in") => "in" \in Reported
      BY DEF Reported, Now
    <2>4. "in" \in Reported => reactor' = "run" /\ "in" \in mask'
      BY <1>12 DEF EpollWait
    <2> QED
      BY <2>1, <2>2, <2>3, <2>4, ReadIsInEntry
  <1>13. ASSUME RunEventOp PROVE EdgeKept'
    <2>1. /\ reactor = "run" /\ pc["in"] \notin Running /\ pc["out"] \notin Running
          /\ UNCHANGED <<level, gone, registered, interest, ready, curEvent, cancelFlag>>
      BY <1>13 DEF RunEventOp, Turns, kernel, entry
    <2>2. Can("in")' <=> Can("in")
      BY <2>1 DEF Can
    <2>3. CASE mounted /\ ~cancelFlag
      <3>1. pc'["in"] = IF "in" \in Activated(unitMap) THEN "posted" ELSE pc["in"]
        BY <1>13, <2>3 DEF RunEventOp
      <3>2. "in" \in Activated(unitMap) <=> pc["in"] = "wait" /\ mask \cap {"in", "error"} # {}
        BY DEF Activated, CancelledIsQuiet
      <3>3. trigger' = IF mask \cap {"in", "error"} # {} THEN trigger \cup {"in"}
                       ELSE trigger \cup {"out"}
        BY <1>13, <2>3 DEF RunEventOp
      <3>4. CASE mask \cap {"in", "error"} # {}
        BY <2>1, <3>1, <3>2, <3>3, <3>4
      <3>5. CASE mask \cap {"in", "error"} = {}
        BY <2>1, <2>2, <3>1, <3>2, <3>3, <3>5
      <3> QED
        BY <3>4, <3>5
    <2>4. CASE ~(mounted /\ ~cancelFlag)
      <3>1. UNCHANGED <<trigger, pc>>
        BY <1>13, <2>4 DEF RunEventOp
      <3>2. ~cancelFlag => curEvent = {}
        BY <2>1, <2>4 DEF EventsKnown
      <3> QED
        BY <2>1, <3>1, <3>2
    <2> QED
      BY <2>3, <2>4
  <1>14. ASSUME CancelUnits PROVE EdgeKept'
    BY <1>14 DEF CancelUnits
  <1>15. ASSUME DelEvent PROVE EdgeKept'
    BY <1>15 DEF DelEvent, Turns
  <1>16. CASE UNCHANGED vars
    BY <1>16 DEF vars, kernel, entry, mount, thread, Can
  <1> QED
    BY <1>1, <1>2, <1>3, <1>4, <1>5, <1>6, <1>7, <1>8, <1>9, <1>10, <1>11, <1>12, <1>13, <1>14,
       <1>15, <1>16
    DEF Next, Step

-----------------------------------------------------------------------------
(* What the proofs establish.                                              *)

(* The invariant of the reactor, for any number of threads: what waits for *)
(* the reactor is in m_unitMap, a cancel leaves neither unit nor trigger   *)
(* (reactor_epoll_mount_data.cpp:8-38), and with one thread m_curEvent,    *)
(* epoll's entry and the trigger agree.                                    *)
THEOREM ReactorInvariant == Spec => []ReactorInv
  <1>1. Init => ReactorInv
    <2> SUFFICES ASSUME Init PROVE ReactorInv
      OBVIOUS
    <2>1. TypeOK
      BY DEF Init, TypeOK, Ops, Places
    <2>2. CancelledIsQuiet
      BY DEF Init, CancelledIsQuiet
    <2>3. Turns
      BY DEF Init, Turns, Ops, Running
    <2>4. EventsKnown /\ EdgeKept
      BY DEF Init, EventsKnown, EdgeKept, Served, Ops
    <2> QED
      BY <2>1, <2>2, <2>3, <2>4 DEF ReactorInv
  <1>2. ReactorInv /\ [Next]_vars => ReactorInv'
    <2> SUFFICES ASSUME ReactorInv, [Next]_vars PROVE ReactorInv'
      OBVIOUS
    <2>1. TypeOK' /\ CancelledIsQuiet'
      BY TypeStep, QuietStep DEF ReactorInv
    <2>2. threads' = threads
      BY DEF Next, Step, vars, SocketEvent, PeerGone, Call, TestTrigger, Ctl, AddMount, StoreEvent,
             AddUnit, TakePosted, RunCancelled, RunIO, RunAgain, EpollWait, RunEventOp,
             CancelUnits, DelEvent
    <2>3. threads' = 1 => Turns' /\ EventsKnown' /\ EdgeKept'
      BY <2>2, TurnsStep, EventsStep, EdgeStep DEF ReactorInv
    <2> QED
      BY <2>1, <2>3 DEF ReactorInv
  <1> QED
    BY <1>1, <1>2, PTL DEF Spec

(* With one thread no edge is lost to a read that waits: epoll or the      *)
(* reactor still has the event, and the mount data is found                *)
(* (reactor_epoll.cpp:73-104, 141-170).                                    *)
THEOREM ReadNeverLost == Spec => []NoReadLost
  <1>1. ReactorInv => NoReadLost
    <2> SUFFICES ASSUME ReactorInv, threads = 1, pc["in"] = "wait", Can("in")
                 PROVE  \/ registered /\ ready /\ "in" \in interest /\ mounted
                        \/ reactor = "run" /\ mask \cap {"in", "error"} # {}
      BY DEF NoReadLost
    <2>1. TypeOK /\ CancelledIsQuiet /\ Turns /\ EventsKnown /\ EdgeKept
      BY DEF ReactorInv
    <2>2. ~cancelFlag
      BY <2>1 DEF CancelledIsQuiet, Ops
    <2>3. "in" \in curEvent /\ "in" \notin trigger
      BY <2>1, <2>2 DEF EventsKnown, EdgeKept, Ops
    <2>4. mounted
      BY <2>1, <2>2, <2>3 DEF EventsKnown, Ops
    <2> QED
      BY <2>1, <2>2, <2>3, <2>4 DEF EdgeKept, Served
  <1> QED
    BY <1>1, ReactorInvariant, PTL
=============================================================================
