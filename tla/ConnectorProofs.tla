--------------------------- MODULE ConnectorProofs ---------------------------
(***************************************************************************)
(* Proofs about Connector, for any number of connections one after the     *)
(* other, any reconnect time and either value of m_startSign.              *)
(***************************************************************************)
EXTENDS Connector, SequenceTheorems, TLAPS

\* What post() adds to a queue.
LEMMA JobsAppend ==
    ASSUME NEW S, NEW q \in Seq(S), NEW j \in S
    PROVE  /\ Append(q, j) \in Seq(S)
           /\ Jobs(Append(q, j)) = Jobs(q) \cup {j}
  <1>1. /\ Append(q, j) \in Seq(S)
        /\ Len(q) \in Nat
        /\ Len(Append(q, j)) = Len(q) + 1
        /\ \A i \in 1 .. Len(q) : Append(q, j)[i] = q[i]
        /\ Append(q, j)[Len(q) + 1] = j
    BY AppendProperties, LenProperties
  <1>2. 1 .. Len(q) + 1 = 1 .. Len(q) \cup {Len(q) + 1}
    BY <1>1
  <1> QED
    BY <1>1, <1>2 DEF Jobs

\* What is left of a queue when its first job is taken.
LEMMA JobsTail ==
    ASSUME NEW S, NEW q \in Seq(S), q # <<>>
    PROVE  /\ Tail(q) \in Seq(S)
           /\ Head(q) \in S
           /\ Jobs(q) = Jobs(Tail(q)) \cup {Head(q)}
  <1>1. /\ Tail(q) \in Seq(S)
        /\ Head(q) \in S
        /\ Head(q) = q[1]
        /\ Len(q) \in Nat \ {0}
        /\ Len(Tail(q)) = Len(q) - 1
        /\ \A i \in 1 .. Len(q) - 1 : Tail(q)[i] = q[i + 1]
    BY HeadTailProperties, EmptySeq, LenProperties
  <1>2. ASSUME NEW i \in 1 .. Len(q)
        PROVE  q[i] \in Jobs(Tail(q)) \cup {Head(q)}
    <2>1. i = 1 \/ i - 1 \in 1 .. Len(q) - 1
      BY <1>1
    <2>2. ASSUME i - 1 \in 1 .. Len(q) - 1 PROVE Tail(q)[i - 1] = q[i]
      BY <1>1, <2>2
    <2> QED
      BY <1>1, <2>1, <2>2 DEF Jobs
  <1>3. ASSUME NEW i \in 1 .. Len(Tail(q))
        PROVE  Tail(q)[i] \in Jobs(q)
    BY <1>1 DEF Jobs
  <1>4. Head(q) \in Jobs(q)
    BY <1>1 DEF Jobs
  <1>5. Jobs(q) \subseteq Jobs(Tail(q)) \cup {Head(q)}
    BY <1>2 DEF Jobs
  <1>6. Jobs(Tail(q)) \subseteq Jobs(q)
    BY <1>3 DEF Jobs
  <1> QED
    BY <1>1, <1>4, <1>5, <1>6

\* A handler of m_strand takes its own job, the first, and no other.
LEMMA StrandNext ==
    ASSUME TypeOK, NEW job, NextJob(job)
    PROVE  /\ strand' \in Seq(StrandJobs)
           /\ Jobs(strand) = Jobs(strand') \cup {job}
  BY JobsTail DEF TypeOK, NextJob

LEMMA StrandPost ==
    ASSUME TypeOK, NEW job \in StrandJobs
    PROVE  /\ Append(strand, job) \in Seq(StrandJobs)
           /\ Jobs(Append(strand, job)) = Jobs(strand) \cup {job}
  BY JobsAppend DEF TypeOK

LEMMA JobIsTyped ==
    /\ \A s \in Socks : Job("active", s) \in StrandJobs /\ Job("passive", s) \in StrandJobs
    /\ Job("stop", NoSock) \in StrandJobs /\ Job("clear", NoSock) \in StrandJobs
  BY DEF Job, StrandJobs

\* Jobs are told apart by what they do and for whom.
LEMMA JobsDiffer ==
    \A v, w, s, t : Job(v, s) = Job(w, t) => v = w /\ s = t
  BY DEF Job

-----------------------------------------------------------------------------
(* Type correctness.                                                       *)

LEMMA TypeStep == TypeOK /\ [Next]_vars => TypeOK'
  <1> SUFFICES ASSUME TypeOK, [Next]_vars PROVE TypeOK'
    OBVIOUS
  <1> USE DEF timer, sockets, history
  <1>1. ASSUME NEW s \in Socks, ConnectDone(s) PROVE TypeOK'
    BY <1>1 DEF TypeOK, ConnectDone, CompletionState
  <1>2. ASSUME ConnectFailed PROVE TypeOK'
    BY <1>2 DEF TypeOK, ConnectFailed, Reconnect, CompletionState
  <1>3. ASSUME ConnectAborted \/ TimerDone \/ TimerAborted PROVE TypeOK'
    BY <1>3 DEF TypeOK, ConnectAborted, TimerDone, TimerAborted, CompletionState
  <1>4. ASSUME NEW s \in Socks, ActiveClose(s) PROVE TypeOK'
    <2>1. strand' \in Seq(StrandJobs)
      BY <1>4, StrandNext DEF ActiveClose
    <2> QED
      BY <1>4, <2>1 DEF TypeOK, ActiveClose, Reconnect, CompletionState
  <1>5. ASSUME NEW s \in Socks, PassiveClose(s) PROVE TypeOK'
    <2>1. strand' \in Seq(StrandJobs)
      BY <1>5, StrandNext DEF PassiveClose
    <2> QED
      BY <1>5, <2>1 DEF TypeOK, PassiveClose, Reconnect, CompletionState
  <1>6. ASSUME StopConnect PROVE TypeOK'
    <2>1. strand' \in Seq(StrandJobs)
      BY <1>6, StrandNext DEF StopConnect
    <2> QED
      BY <1>6, <2>1 DEF TypeOK, StopConnect, CancelOp, CompletionState
  <1>7. ASSUME ClearConnect PROVE TypeOK'
    <2>1. strand' \in Seq(StrandJobs)
      BY <1>7, StrandNext DEF ClearConnect
    <2> QED
      BY <1>7, <2>1 DEF TypeOK, ClearConnect
  <1>8. ASSUME KernelConnect \/ TimerFires PROVE TypeOK'
    BY <1>8 DEF TypeOK, KernelConnect, TimerFires, CompletionState
  <1>9. ASSUME NEW s \in Socks, Lost(s) PROVE TypeOK'
    BY <1>9, StrandPost, JobIsTyped DEF TypeOK, Lost
  <1>10. ASSUME NEW s \in Socks, CloseSock(s) \/ Drained(s) PROVE TypeOK'
    BY <1>10 DEF TypeOK, CloseSock, Drained
  <1>11. ASSUME NEW s \in Socks, PostCloseSocket(s) PROVE TypeOK'
    BY <1>11, StrandPost, JobIsTyped DEF TypeOK, PostCloseSocket
  <1>12. ASSUME NetworkStop \/ NetworkClear PROVE TypeOK'
    BY <1>12, StrandPost, JobIsTyped DEF TypeOK, NetworkStop, NetworkClear
  <1>13. ASSUME JoinReturns \/ UNCHANGED vars PROVE TypeOK'
    BY <1>13 DEF TypeOK, JoinReturns, vars
  <1> QED
    BY <1>1, <1>2, <1>3, <1>4, <1>5, <1>6, <1>7, <1>8, <1>9, <1>10, <1>11, <1>12, <1>13
    DEF Next, Completions, Strand

-----------------------------------------------------------------------------
(* One connection or one attempt at a time.                                *)

LEMMA AttemptStep == TypeOK /\ ReportsInv /\ OneAttempt /\ [Next]_vars => OneAttempt'
  <1> SUFFICES ASSUME TypeOK, ReportsInv, OneAttempt, [Next]_vars PROVE OneAttempt'
    OBVIOUS
  <1> USE ConnectorAssumption DEF timer, sockets, history, OneAttempt
  <1>0. conn \in [Socks -> {"none", "open", "draining", "closed"}]
    BY DEF TypeOK
  <1>1. ASSUME NEW s \in Socks, ConnectDone(s) PROVE OneAttempt'
    BY <1>0, <1>1 DEF ConnectDone
  <1>2. ASSUME ConnectFailed PROVE OneAttempt'
    BY <1>2 DEF ConnectFailed, Reconnect
  <1>3. ASSUME ConnectAborted \/ TimerDone \/ TimerAborted PROVE OneAttempt'
    BY <1>3 DEF ConnectAborted, TimerDone, TimerAborted
  <1>4. ASSUME NEW s \in Socks, ActiveClose(s) PROVE OneAttempt'
    BY <1>4 DEF ActiveClose, Reconnect
  <1>5. ASSUME NEW s \in Socks, PassiveClose(s) PROVE OneAttempt'
    <2>1. conn[s] # "open"
      BY <1>5, StrandNext DEF PassiveClose, ReportsInv
    <2> QED
      BY <1>5, <2>1 DEF PassiveClose, Reconnect
  <1>6. ASSUME StopConnect PROVE OneAttempt'
    BY <1>6 DEF StopConnect, CancelOp, TypeOK, CompletionState
  <1>7. ASSUME ClearConnect PROVE OneAttempt'
    BY <1>7 DEF ClearConnect
  <1>8. ASSUME KernelConnect \/ TimerFires PROVE OneAttempt'
    BY <1>8 DEF KernelConnect, TimerFires
  <1>9. ASSUME NEW s \in Socks, Lost(s) \/ CloseSock(s) \/ Drained(s) PROVE OneAttempt'
    BY <1>0, <1>9 DEF Lost, CloseSock, Drained
  <1>10. ASSUME NEW s \in Socks, PostCloseSocket(s) PROVE OneAttempt'
    BY <1>10 DEF PostCloseSocket
  <1>11. ASSUME NetworkStop \/ NetworkClear \/ JoinReturns \/ UNCHANGED vars PROVE OneAttempt'
    BY <1>11 DEF NetworkStop, NetworkClear, JoinReturns, vars
  <1> QED
    BY <1>1, <1>2, <1>3, <1>4, <1>5, <1>6, <1>7, <1>8, <1>9, <1>10, <1>11
    DEF Next, Completions, Strand

-----------------------------------------------------------------------------
(* Losses and their reports.                                               *)

LEMMA ReportsStep == TypeOK /\ OneAttempt /\ ReportsInv /\ [Next]_vars => ReportsInv'
  <1> SUFFICES ASSUME TypeOK, OneAttempt, ReportsInv, [Next]_vars PROVE ReportsInv'
    OBVIOUS
  <1> USE ConnectorAssumption DEF timer, sockets, history
  <1>0. /\ conn \in [Socks -> {"none", "open", "draining", "closed"}]
        /\ told \in [Socks -> {"nothing", "connect", "close"}]
    BY DEF TypeOK
  <1>1. ASSUME NEW s \in Socks, ConnectDone(s) PROVE ReportsInv'
    <2>1. Job("passive", s) \notin Jobs(strand)
      BY <1>1 DEF ConnectDone, Unused, Job
    <2>2. socketPtr = NoSock
      BY <1>1 DEF ConnectDone, OneAttempt
    <2>3. s \notin closeAsked
      BY <1>1 DEF ConnectDone, Unused
    <2> QED
      BY <1>0, <1>1, <2>1, <2>2, <2>3 DEF ConnectDone, ReportsInv
  <1>2. ASSUME ConnectFailed \/ ConnectAborted \/ TimerDone \/ TimerAborted PROVE ReportsInv'
    BY <1>2 DEF ConnectFailed, ConnectAborted, TimerDone, TimerAborted, ReportsInv
  <1>3. ASSUME NEW s \in Socks, ActiveClose(s) PROVE ReportsInv'
    BY <1>3, StrandNext DEF ActiveClose, ReportsInv
  <1>4. ASSUME NEW s \in Socks, PassiveClose(s) PROVE ReportsInv'
    BY <1>0, <1>4, StrandNext DEF PassiveClose, ReportsInv
  <1>5. ASSUME StopConnect PROVE ReportsInv'
    BY <1>5, StrandNext DEF StopConnect, ReportsInv
  <1>6. ASSUME ClearConnect PROVE ReportsInv'
    BY <1>6, StrandNext DEF ClearConnect, ReportsInv
  <1>7. ASSUME KernelConnect \/ TimerFires PROVE ReportsInv'
    BY <1>7 DEF KernelConnect, TimerFires, ReportsInv
  <1>8. ASSUME NEW s \in Socks, Lost(s) PROVE ReportsInv'
    BY <1>0, <1>8, StrandPost, JobIsTyped, JobsDiffer DEF Lost, ReportsInv
  <1>9. ASSUME NEW s \in Socks, CloseSock(s) PROVE ReportsInv'
    BY <1>0, <1>9 DEF CloseSock, ReportsInv
  <1>10. ASSUME NEW s \in Socks, Drained(s) PROVE ReportsInv'
    BY <1>0, <1>10 DEF Drained, ReportsInv
  <1>11. ASSUME NEW s \in Socks, PostCloseSocket(s) PROVE ReportsInv'
    BY <1>11, StrandPost, JobIsTyped, JobsDiffer DEF PostCloseSocket, ReportsInv
  <1>12. ASSUME NetworkStop \/ NetworkClear PROVE ReportsInv'
    <2>1. Jobs(strand') \subseteq Jobs(strand) \cup {Job("stop", NoSock), Job("clear", NoSock)}
      <3>1. CASE NetworkStop
        BY <3>1, StrandPost, JobIsTyped DEF NetworkStop
      <3>2. CASE NetworkClear
        BY <3>2, StrandPost, JobIsTyped DEF NetworkClear
      <3> QED
        BY <1>12, <3>1, <3>2
    <2>2. \A s \in Socks : Job("passive", s) \notin {Job("stop", NoSock), Job("clear", NoSock)}
      BY JobsDiffer
    <2> QED
      BY <1>12, <2>1, <2>2 DEF NetworkStop, NetworkClear, ReportsInv
  <1>13. ASSUME JoinReturns \/ UNCHANGED vars PROVE ReportsInv'
    BY <1>13 DEF JoinReturns, vars, ReportsInv
  <1> QED
    BY <1>1, <1>2, <1>3, <1>4, <1>5, <1>6, <1>7, <1>8, <1>9, <1>10, <1>11, <1>12, <1>13
    DEF Next, Completions, Strand

LEMMA LossStep == TypeOK /\ ReportsInv /\ LossIsTold /\ [Next]_vars => LossIsTold'
  <1> SUFFICES ASSUME TypeOK, ReportsInv, LossIsTold, [Next]_vars PROVE LossIsTold'
    OBVIOUS
  <1> USE ConnectorAssumption DEF timer, sockets, history
  <1>0. /\ conn \in [Socks -> {"none", "open", "draining", "closed"}]
        /\ told \in [Socks -> {"nothing", "connect", "close"}]
    BY DEF TypeOK
  <1>1. ASSUME NEW s \in Socks, ConnectDone(s) PROVE LossIsTold'
    BY <1>0, <1>1 DEF ConnectDone, LossIsTold
  <1>2. ASSUME ConnectFailed \/ ConnectAborted \/ TimerDone \/ TimerAborted PROVE LossIsTold'
    BY <1>2 DEF ConnectFailed, ConnectAborted, TimerDone, TimerAborted, LossIsTold
  <1>3. ASSUME NEW s \in Socks, ActiveClose(s) PROVE LossIsTold'
    BY <1>3, StrandNext, JobsDiffer DEF ActiveClose, LossIsTold
  <1>4. ASSUME NEW s \in Socks, PassiveClose(s) PROVE LossIsTold'
    BY <1>0, <1>4, StrandNext, JobsDiffer DEF PassiveClose, LossIsTold, ReportsInv
  <1>5. ASSUME StopConnect PROVE LossIsTold'
    BY <1>5, StrandNext, JobsDiffer DEF StopConnect, LossIsTold
  <1>6. ASSUME ClearConnect PROVE LossIsTold'
    BY <1>6, StrandNext, JobsDiffer DEF ClearConnect, LossIsTold
  <1>7. ASSUME KernelConnect \/ TimerFires PROVE LossIsTold'
    BY <1>7 DEF KernelConnect, TimerFires, LossIsTold
  <1>8. ASSUME NEW s \in Socks, Lost(s) PROVE LossIsTold'
    BY <1>0, <1>8, StrandPost, JobIsTyped DEF Lost, LossIsTold
  <1>9. ASSUME NEW s \in Socks, CloseSock(s) \/ Drained(s) PROVE LossIsTold'
    BY <1>0, <1>9 DEF CloseSock, Drained, LossIsTold, ReportsInv
  <1>10. ASSUME NEW s \in Socks, PostCloseSocket(s) PROVE LossIsTold'
    BY <1>10, StrandPost, JobIsTyped DEF PostCloseSocket, LossIsTold
  <1>11. ASSUME NetworkStop \/ NetworkClear PROVE LossIsTold'
    BY <1>11, StrandPost, JobIsTyped DEF NetworkStop, NetworkClear, LossIsTold
  <1>12. ASSUME JoinReturns \/ UNCHANGED vars PROVE LossIsTold'
    BY <1>12 DEF JoinReturns, vars, LossIsTold
  <1> QED
    BY <1>1, <1>2, <1>3, <1>4, <1>5, <1>6, <1>7, <1>8, <1>9, <1>10, <1>11, <1>12
    DEF Next, Completions, Strand

-----------------------------------------------------------------------------
(* What the proofs establish.                                              *)

(* The inductive invariant of the Connector: types, one attempt at a time, *)
(* and the reports of lost connections (connector.cpp:60-118).             *)
THEOREM AttemptInvariant == Spec => []AttemptInv
  <1>1. Init => AttemptInv
    <2> SUFFICES ASSUME Init PROVE AttemptInv
      OBVIOUS
    <2>1. strand \in Seq(StrandJobs) /\ Jobs(strand) = {}
      BY EmptySeq DEF Init, Jobs
    <2> QED
      BY <2>1, ConnectorAssumption
      DEF Init, AttemptInv, ConnectorInv, TypeOK, CompletionState, OneAttempt, LossIsTold, ReportsInv
  <1>2. AttemptInv /\ [Next]_vars => AttemptInv'
    BY TypeStep, AttemptStep, LossStep, ReportsStep DEF AttemptInv, ConnectorInv
  <1> QED
    BY <1>1, <1>2, PTL DEF Spec

(* There is a connection, or one connect in progress, or a reconnect to    *)
(* come, never two of them, and the logic hears of every connection that   *)
(* is lost without its doing, however closes, losses and stop() race.      *)
THEOREM ConnectorCorrect == Spec => []ConnectorInv
  BY AttemptInvariant, PTL DEF AttemptInv
=============================================================================
