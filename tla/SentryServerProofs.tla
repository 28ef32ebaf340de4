--------------------------- MODULE SentryServerProofs ---------------------------
(***************************************************************************)
(* Proofs about single_server: SentryServer, for any number of connections *)
(* and messages and any order of the Acceptor's handlers, the sockets' and *)
(* the logic's, and its heartbeat LinkCheck, for any times.                *)
(***************************************************************************)
EXTENDS SentryServer, LinkCheck, SequenceTheorems, TLAPS

-----------------------------------------------------------------------------
(* The two queues.                                                         *)

\* What a post adds to a queue.
LEMMA JobsAppend ==
    ASSUME NEW S, NEW q \in Seq(S), NEW j \in S
    PROVE  /\ Append(q, j) \in Seq(S)
           /\ Jobs(Append(q, j)) = Jobs(q) \cup {j}
  <1>1. /\ Append(q, j) \in Seq(S)
        /\ Len(q) \in Nat
        /\ Len(Append(q, j)) = Len(q) + 1
        /\ \A i \in 1 .. Len(q) : Append(q, j)[i] = q[i]
        /\ Append(q, j)[Len(q) + 1] = j
    BY AppendProperties, LenProperties
  <1>2. 1 .. Len(q) + 1 = 1 .. Len(q) \cup {Len(q) + 1}
    BY <1>1
  <1> QED
    BY <1>1, <1>2 DEF Jobs

\* Where the jobs of a queue are when its first has been taken.
LEMMA TailOfQueue ==
    ASSUME NEW S, NEW q \in Seq(S), q # <<>>
    PROVE  /\ Tail(q) \in Seq(S)
           /\ Head(q) \in S
           /\ Head(q) = q[1]
           /\ Len(q) \in Nat \ {0}
           /\ Len(Tail(q)) = Len(q) - 1
           /\ \A i \in 1 .. Len(q) - 1 : Tail(q)[i] = q[i + 1]
  BY HeadTailProperties, EmptySeq, LenProperties

LEMMA JobsTail ==
    ASSUME NEW S, NEW q \in Seq(S), q # <<>>
    PROVE  /\ Tail(q) \in Seq(S)
           /\ Head(q) \in S
           /\ Jobs(q) = Jobs(Tail(q)) \cup {Head(q)}
  <1>1. /\ Tail(q) \in Seq(S)
        /\ Head(q) \in S
        /\ Head(q) = q[1]
        /\ Len(q) \in Nat \ {0}
        /\ Len(Tail(q)) = Len(q) - 1
        /\ \A i \in 1 .. Len(q) - 1 : Tail(q)[i] = q[i + 1]
    BY TailOfQueue
  <1>2. ASSUME NEW i \in 1 .. Len(q)
        PROVE  q[i] \in Jobs(Tail(q)) \cup {Head(q)}
    <2>1. i = 1 \/ i - 1 \in 1 .. Len(q) - 1
      BY <1>1
    <2>2. ASSUME i - 1 \in 1 .. Len(q) - 1 PROVE Tail(q)[i - 1] = q[i]
      BY <1>1, <2>2
    <2> QED
      BY <1>1, <2>1, <2>2 DEF Jobs
  <1>3. ASSUME NEW i \in 1 .. Len(Tail(q))
        PROVE  Tail(q)[i] \in Jobs(q)
    BY <1>1 DEF Jobs
  <1>4. Head(q) \in Jobs(q)
    BY <1>1 DEF Jobs
  <1>5. Jobs(q) \subseteq Jobs(Tail(q)) \cup {Head(q)}
    BY <1>2 DEF Jobs
  <1>6. Jobs(Tail(q)) \subseteq Jobs(q)
    BY <1>3 DEF Jobs
  <1> QED
    BY <1>1, <1>4, <1>5, <1>6

\* Jobs are told apart by what they do and for whom.
LEMMA JobsDiffer ==
    \A v, w, s, t : Job(v, s) = Job(w, t) => v = w /\ s = t
  BY DEF Job

LEMMA JobParts ==
    \A v, s : Job(v, s).what = v /\ Job(v, s).sock = s
  BY DEF Job

LEMMA StrandJobTyped ==
    /\ \A s \in Socks : Job("active", s) \in StrandJobs /\ Job("passive", s) \in StrandJobs
    /\ Job("stop", NoSock) \in StrandJobs /\ Job("clear", NoSock) \in StrandJobs
  BY DEF Job, StrandJobs

LEMMA MainJobTyped ==
    /\ \A s \in Socks :
          /\ Job("add", s) \in MainJobs /\ Job("msg", s) \in MainJobs
          /\ Job("test", s) \in MainJobs /\ Job("del", s) \in MainJobs
    /\ Job("signal", NoSock) \in MainJobs /\ Job("close", NoSock) \in MainJobs
  BY DEF Job, MainJobs, SockJobs

\* A handler of m_strand takes its own job, the first, and no other.
LEMMA StrandNext ==
    ASSUME TypeOK, NEW job, NextJob(job)
    PROVE  /\ strand' \in Seq(StrandJobs)
           /\ Jobs(strand) = Jobs(strand') \cup {job}
           /\ acceptOp # "reading"
  BY JobsTail DEF TypeOK, NextJob, StrandFree

LEMMA StrandPost ==
    ASSUME TypeOK, NEW job \in StrandJobs
    PROVE  /\ Append(strand, job) \in Seq(StrandJobs)
           /\ Jobs(Append(strand, job)) = Jobs(strand) \cup {job}
  BY JobsAppend DEF TypeOK

\* So does one of the main io_service; after the announcement of a socket
\* there is no second one.
LEMMA MainNext ==
    ASSUME TypeOK, OnceInv, main # <<>>
    PROVE  /\ Tail(main) \in Seq(MainJobs)
           /\ Jobs(main) = Jobs(Tail(main)) \cup {Head(main)}
           /\ Head(main).what = "add" => Head(main) \notin Jobs(Tail(main))
  <1>1. main \in Seq(MainJobs)
    BY DEF TypeOK
  <1>2. /\ Tail(main) \in Seq(MainJobs)
        /\ Jobs(main) = Jobs(Tail(main)) \cup {Head(main)}
    BY <1>1, JobsTail
  <1>3. /\ Head(main) = main[1]
        /\ Len(main) \in Nat \ {0}
        /\ Len(Tail(main)) = Len(main) - 1
        /\ \A i \in 1 .. Len(main) - 1 : Tail(main)[i] = main[i + 1]
    BY <1>1, TailOfQueue
  <1>4. ASSUME Head(main).what = "add", NEW i \in 1 .. Len(Tail(main)), Tail(main)[i] = Head(main)
        PROVE  FALSE
    <2>1. 1 \in 1 .. Len(main) /\ i + 1 \in 1 .. Len(main) /\ i + 1 # 1
      BY <1>3
    <2>2. main[1] = main[i + 1] /\ main[1].what = "add"
      BY <1>3, <1>4
    <2> QED
      BY <2>1, <2>2 DEF OnceInv
  <1>5. Head(main).what = "add" => Head(main) \notin Jobs(Tail(main))
    BY <1>4 DEF Jobs
  <1> QED
    BY <1>2, <1>5

LEMMA MainPost ==
    ASSUME TypeOK, NEW job \in MainJobs
    PROVE  /\ Append(main, job) \in Seq(MainJobs)
           /\ Jobs(Append(main, job)) = Jobs(main) \cup {job}
  BY JobsAppend DEF TypeOK


-----------------------------------------------------------------------------
(* The order of the main queue: what is said of a socket comes after its    *)
(* announcement, and that comes once.                                       *)

Told == {"msg", "test", "del"}

\* A queue in which every job about a socket finds the socket known, or its
\* announcement before it, when the sockets of known have been handled.
InOrder(queue, known) ==
    \A i \in 1 .. Len(queue) :
        queue[i].what \in Told =>
            queue[i].sock \in known \/ \E j \in 1 .. i - 1 : queue[j] = Job("add", queue[i].sock)

Once(queue) ==
    \A i, j \in 1 .. Len(queue) : queue[i] = queue[j] /\ queue[i].what = "add" => i = j

LEMMA OrderAppend ==
    ASSUME NEW S, NEW q \in Seq(S), NEW job \in S, NEW known,
           InOrder(q, known), Once(q),
           job.what \in Told => job.sock \in known \/ Job("add", job.sock) \in Jobs(q),
           job.what = "add" => job \notin Jobs(q)
    PROVE  InOrder(Append(q, job), known) /\ Once(Append(q, job))
  <1> DEFINE t == Append(q, job)
             n == Len(q)
  <1>1. /\ n \in Nat
        /\ Len(t) = n + 1
        /\ \A i \in 1 .. n : t[i] = q[i]
        /\ t[n + 1] = job
    BY AppendProperties, LenProperties
  <1>2. \A i \in 1 .. n : q[i] \in Jobs(q)
    BY DEF Jobs
  <1>3. \A x \in Jobs(q) : \E i \in 1 .. n : q[i] = x
    BY DEF Jobs
  <1> HIDE DEF t, n
  <1>4. Once(t)
    <2> SUFFICES ASSUME NEW i \in 1 .. n + 1, NEW j \in 1 .. n + 1, t[i] = t[j], t[i].what = "add"
                 PROVE  i = j
      BY <1>1 DEF Once
    <2>1. CASE i \in 1 .. n /\ j \in 1 .. n
      BY <1>1, <2>1 DEF Once, n
    <2>2. CASE i = n + 1 /\ j \in 1 .. n
      BY <1>1, <1>2, <2>2
    <2>3. CASE i \in 1 .. n /\ j = n + 1
      BY <1>1, <1>2, <2>3
    <2> QED
      BY <1>1, <2>1, <2>2, <2>3
  <1>5. InOrder(t, known)
    <2> SUFFICES ASSUME NEW i \in 1 .. n + 1, t[i].what \in Told, t[i].sock \notin known
                 PROVE  \E j \in 1 .. i - 1 : t[j] = Job("add", t[i].sock)
      BY <1>1 DEF InOrder
    <2>1. CASE i \in 1 .. n
      <3>1. PICK j \in 1 .. i - 1 : q[j] = Job("add", q[i].sock)
        BY <1>1, <2>1 DEF InOrder, n
      <3>2. j \in 1 .. n
        BY <1>1, <2>1
      <3> QED
        BY <1>1, <2>1, <3>1, <3>2
    <2>2. CASE i = n + 1
      <3>1. PICK j \in 1 .. n : q[j] = Job("add", job.sock)
        BY <1>1, <1>3, <2>2
      <3>2. j \in 1 .. i - 1
        BY <1>1, <2>2
      <3> QED
        BY <1>1, <2>2, <3>1, <3>2
    <2> QED
      BY <1>1, <2>1, <2>2
  <1> QED
    BY <1>4, <1>5 DEF t

LEMMA OrderTail ==
    ASSUME NEW S, NEW q \in Seq(S), NEW known, q # <<>>, InOrder(q, known), Once(q)
    PROVE  /\ Once(Tail(q))
           /\ \A more : known \subseteq more /\ (Head(q).what = "add" => Head(q).sock \in more)
                           => InOrder(Tail(q), more)
           /\ Head(q).what \in Told => Head(q).sock \in known
  <1> DEFINE t == Tail(q)
             n == Len(q)
  <1>1. /\ Head(q) = q[1]
        /\ n \in Nat \ {0}
        /\ Len(t) = n - 1
        /\ \A i \in 1 .. n - 1 : t[i] = q[i + 1]
    BY TailOfQueue
  <1> HIDE DEF t, n
  <1>2. Once(t)
    BY <1>1 DEF Once, n
  <1>3. ASSUME NEW more, known \subseteq more, Head(q).what = "add" => Head(q).sock \in more
        PROVE  InOrder(t, more)
    <2> SUFFICES ASSUME NEW i \in 1 .. n - 1, t[i].what \in Told, t[i].sock \notin more
                 PROVE  \E j \in 1 .. i - 1 : t[j] = Job("add", t[i].sock)
      BY <1>1 DEF InOrder
    <2>1. i + 1 \in 1 .. n /\ t[i] = q[i + 1] /\ t[i].sock \notin known
      BY <1>1, <1>3
    <2>2. PICK j \in 1 .. (i + 1) - 1 : q[j] = Job("add", t[i].sock)
      BY <2>1 DEF InOrder, n
    <2>3. j # 1
      BY <1>1, <1>3, <2>2, JobParts
    <2>4. j - 1 \in 1 .. i - 1 /\ j - 1 \in 1 .. n - 1 /\ (j - 1) + 1 = j
      BY <1>1, <2>2, <2>3
    <2>5. t[j - 1] = q[j]
      BY <1>1, <2>4
    <2> QED
      BY <2>2, <2>4, <2>5
  <1>4. Head(q).what \in Told => Head(q).sock \in known
    <2>1. 1 \in 1 .. n /\ ~(\E j \in 1 .. 1 - 1 : TRUE)
      BY <1>1
    <2> QED
      BY <1>1, <2>1 DEF InOrder, n
  <1> QED
    BY <1>2, <1>3, <1>4 DEF t


-----------------------------------------------------------------------------
(* Type correctness.                                                       *)

\* The network's steps.
LEMMA NetworkTypes ==
    ASSUME TypeOK,
           \/ \E s \in Socks : KernelAccept(s)
           \/ KernelAcceptError
           \/ Accept \/ Strand
           \/ \E s \in Socks : Deliver(s, "msg") \/ Deliver(s, "test")
           \/ \E s \in Socks : Lost(s) \/ LastReadDone(s) \/ CloseSock(s) \/ Drained(s)
    PROVE  TypeOK'
  <1> USE DEF network, logic, control
  <1>1. ASSUME NEW s \in Socks, KernelAccept(s) PROVE TypeOK'
    BY <1>1 DEF TypeOK, KernelAccept
  <1>2. ASSUME KernelAcceptError \/ AcceptFailed PROVE TypeOK'
    BY <1>2 DEF TypeOK, KernelAcceptError, AcceptFailed
  <1>3. ASSUME AcceptStopped PROVE TypeOK'
    BY <1>3 DEF TypeOK, AcceptStopped
  <1>4. ASSUME AcceptNew PROVE TypeOK'
    <2>1. main' \in Seq(MainJobs)
      BY <1>4, MainPost, MainJobTyped DEF AcceptNew
    <2> QED
      BY <1>4, <2>1 DEF TypeOK, AcceptNew
  <1>5. ASSUME AcceptRead PROVE TypeOK'
    BY <1>5 DEF TypeOK, AcceptRead
  <1>6. ASSUME NEW s \in Socks, ActiveClose(s) PROVE TypeOK'
    <2>1. strand' \in Seq(StrandJobs)
      BY <1>6, StrandNext DEF ActiveClose
    <2> QED
      BY <1>6, <2>1 DEF TypeOK, ActiveClose
  <1>7. ASSUME NEW s \in Socks, PassiveClose(s) PROVE TypeOK'
    <2>1. strand' \in Seq(StrandJobs)
      BY <1>7, StrandNext DEF PassiveClose
    <2>2. main' \in Seq(MainJobs)
      BY <1>7, MainPost, MainJobTyped DEF PassiveClose, TypeOK
    <2> QED
      BY <1>7, <2>1, <2>2 DEF TypeOK, PassiveClose
  <1>8. ASSUME StopAccept PROVE TypeOK'
    <2>1. strand' \in Seq(StrandJobs)
      BY <1>8, StrandNext DEF StopAccept
    <2> QED
      BY <1>8, <2>1 DEF TypeOK, StopAccept
  <1>9. ASSUME ClearSockets PROVE TypeOK'
    <2>1. strand' \in Seq(StrandJobs)
      BY <1>9, StrandNext DEF ClearSockets
    <2> QED
      BY <1>9, <2>1 DEF TypeOK, ClearSockets
  <1>10. ASSUME NEW s \in Socks, NEW what \in {"msg", "test"}, Deliver(s, what) PROVE TypeOK'
    <2>1. main' \in Seq(MainJobs)
      BY <1>10, MainPost, MainJobTyped DEF Deliver
    <2>2. msgs' \in 0 .. MaxMsgs
      BY <1>10, ServerAssumption DEF TypeOK, Deliver
    <2> QED
      BY <1>10, <2>1, <2>2 DEF TypeOK, Deliver
  <1>11. ASSUME NEW s \in Socks, Lost(s) PROVE TypeOK'
    <2>1. strand' \in Seq(StrandJobs)
      BY <1>11, StrandPost, StrandJobTyped DEF Lost
    <2> QED
      BY <1>11, <2>1 DEF TypeOK, Lost
  <1>12. ASSUME NEW s \in Socks, LastReadDone(s) \/ Drained(s) PROVE TypeOK'
    BY <1>12 DEF TypeOK, LastReadDone, Drained
  <1>13. ASSUME NEW s \in Socks, CloseSock(s) PROVE TypeOK'
    <2>1. conn' \in [Socks -> {"none", "queued", "accepted", "open", "draining", "lost", "closed"}]
      BY <1>13 DEF TypeOK, CloseSock
    <2> QED
      BY <1>13, <2>1 DEF TypeOK, CloseSock
  <1> QED
    BY <1>1, <1>2, <1>3, <1>4, <1>5, <1>6, <1>7, <1>8, <1>9, <1>10, <1>11, <1>12, <1>13
    DEF Accept, Strand

\* The logic's and the main thread's.
LEMMA LogicTypes ==
    ASSUME TypeOK, OnceInv,
           \/ Logic
           \/ \E ob \in objects : Kick(ob)
           \/ Start \/ Signal \/ HandleSignal \/ CloseServer \/ CloseNetwork \/ JoinReturns
    PROVE  TypeOK'
  <1> USE DEF network, logic, control
  <1>0. main # <<>> => Tail(main) \in Seq(MainJobs)
    BY MainNext
  <1>1. ASSUME NEW s \in Socks, AddConnector(s) PROVE TypeOK'
    <2>1. /\ globalUid' = globalUid + 1
          /\ bindUid' = [bindUid EXCEPT ![s] = globalUid]
          /\ objects' \subseteq objects \cup {[uid |-> globalUid, sock |-> s]}
          /\ added' = added \cup {s}
          /\ main' \in Seq(MainJobs)
          /\ UNCHANGED <<network, control, msgs>>
      BY <1>0, <1>1 DEF AddConnector, NextCall, AddObject, GetIdleUid
    <2>2. [uid |-> globalUid, sock |-> s] \in [uid : Nat, sock : Socks]
      BY DEF TypeOK
    <2>3. objects' \subseteq [uid : Nat, sock : Socks]
      BY <2>1, <2>2 DEF TypeOK
    <2> QED
      BY <2>1, <2>3 DEF TypeOK
  <1>2. ASSUME NEW s \in Socks, DelConnector(s) PROVE TypeOK'
    <2>1. main' \in Seq(MainJobs) /\ objects' \subseteq objects
      BY <1>0, <1>2 DEF DelConnector, NextCall, DelObject
    <2> QED
      BY <1>2, <2>1 DEF TypeOK, DelConnector
  <1>3. ASSUME NEW s \in Socks, HandleMsg(s) PROVE TypeOK'
    BY <1>0, <1>3 DEF TypeOK, HandleMsg, NextCall
  <1>4. ASSUME NEW s \in Socks, TestLimitTcp(s) PROVE TypeOK'
    <2>1. main' \in Seq(MainJobs)
      BY <1>0, <1>4 DEF TestLimitTcp, NextCall
    <2>2. strand' \in Seq(StrandJobs) /\ objects' \subseteq objects
      <3>1. CASE Found(bindUid[s]) = {}
        BY <1>4, <3>1 DEF TestLimitTcp, TypeOK
      <3>2. CASE Found(bindUid[s]) # {}
        <4>1. PICK ob \in Found(bindUid[s]) :
                  /\ strand' = Append(strand, Job("active", ob.sock))
                  /\ objects' = DelObject(bindUid[ob.sock])
          BY <1>4, <3>2 DEF TestLimitTcp
        <4>2. ob.sock \in Socks
          BY <4>1 DEF Found, TypeOK
        <4> QED
          BY <4>1, <4>2, StrandPost, StrandJobTyped DEF DelObject
      <3> QED
        BY <3>1, <3>2
    <2> QED
      BY <1>4, <2>1, <2>2 DEF TypeOK, TestLimitTcp
  <1>5. ASSUME NEW ob \in objects, Kick(ob) PROVE TypeOK'
    <2>1. ob.sock \in Socks
      BY DEF TypeOK
    <2>2. strand' \in Seq(StrandJobs) /\ objects' \subseteq objects
      BY <1>5, <2>1, StrandPost, StrandJobTyped DEF Kick
    <2> QED
      BY <1>5, <2>2 DEF TypeOK, Kick
  <1>6. ASSUME StartNetwork \/ ListenAt \/ ListenFails \/ RunServer \/ JoinReturns PROVE TypeOK'
    BY <1>6 DEF TypeOK, StartNetwork, ListenAt, Listen, ListenFails, RunServer, JoinReturns
  <1>7. ASSUME Signal PROVE TypeOK'
    <2>1. main' \in Seq(MainJobs)
      BY <1>7, MainPost, MainJobTyped DEF Signal
    <2> QED
      BY <1>7, <2>1 DEF TypeOK, Signal
  <1>8. ASSUME HandleSignal PROVE TypeOK'
    <2>1. main' = Tail(main) \/ main' = Append(Tail(main), Job("close", NoSock))
      BY <1>8 DEF HandleSignal, InterruptedServer
    <2>2. Tail(main) \in Seq(MainJobs)
      BY <1>0, <1>8 DEF HandleSignal
    <2>3. main' \in Seq(MainJobs)
      BY <2>1, <2>2, MainJobTyped, AppendProperties
    <2> QED
      BY <1>8, <2>3 DEF TypeOK, HandleSignal
  <1>9. ASSUME CloseServer PROVE TypeOK'
    <2>1. main' \in Seq(MainJobs)
      BY <1>0, <1>9 DEF CloseServer, NextCall
    <2>2. strand' \in Seq(StrandJobs) /\ server' = "stopped"
      BY <1>9, StrandPost, StrandJobTyped DEF CloseServer, OnCloseServer, Post
    <2> QED
      BY <1>9, <2>1, <2>2 DEF TypeOK, CloseServer
  <1>10. ASSUME CloseNetwork PROVE TypeOK'
    <2>1. strand' \in Seq(StrandJobs)
      BY <1>10, StrandPost, StrandJobTyped DEF CloseNetwork, Post
    <2> QED
      BY <1>10, <2>1 DEF TypeOK, CloseNetwork
  <1> QED
    BY <1>1, <1>2, <1>3, <1>4, <1>5, <1>6, <1>7, <1>8, <1>9, <1>10 DEF Logic, Start

LEMMA TypeStep ==
    ASSUME TypeOK, OnceInv, Next
    PROVE  TypeOK'
  BY NetworkTypes, LogicTypes DEF Next


-----------------------------------------------------------------------------
(* Announced once and before use.                                          *)

\* The invariants of the main queue, in the terms of the lemmas.
LEMMA OrderMeans ==
    /\ AddedBeforeUse <=> InOrder(main, added)
    /\ OnceInv <=> Once(main) /\ \A s \in added : Job("add", s) \notin Jobs(main)
  BY DEF AddedBeforeUse, InOrder, Told, OnceInv, Once

LEMMA MainAppends ==
    ASSUME TypeOK, OnceInv, AddedBeforeUse, NEW what, NEW s, Job(what, s) \in MainJobs,
           main' = Append(main, Job(what, s)), added' = added,
           what \in Told => s \in added \/ Job("add", s) \in Jobs(main),
           what = "add" => s \notin added /\ Job("add", s) \notin Jobs(main)
    PROVE  OnceInv' /\ AddedBeforeUse'
  <1> DEFINE job == Job(what, s)
  <1>1. job.what = what /\ job.sock = s /\ job \in MainJobs
    BY JobParts
  <1>2. main \in Seq(MainJobs) /\ InOrder(main, added) /\ Once(main)
    BY OrderMeans DEF TypeOK
  <1>3. Jobs(main') = Jobs(main) \cup {job}
    BY <1>1, MainPost
  <1>4. \A t \in added : Job("add", t) \notin Jobs(main')
    <2>1. \A t \in added : Job("add", t) \notin Jobs(main) /\ (Job("add", t) = job => what = "add" /\ s = t)
      BY OrderMeans, JobsDiffer
    <2> QED
      BY <1>3, <2>1
  <1>5. /\ job.what \in Told => job.sock \in added \/ Job("add", job.sock) \in Jobs(main)
        /\ job.what = "add" => job \notin Jobs(main)
    BY <1>1
  <1> HIDE DEF job
  <1>6. InOrder(Append(main, job), added) /\ Once(Append(main, job))
    BY <1>1, <1>2, <1>5, OrderAppend
  <1>7. InOrder(main', added') /\ Once(main')
    BY <1>6 DEF job
  <1> QED
    BY <1>4, <1>7 DEF OnceInv, Once, AddedBeforeUse, InOrder, Told

LEMMA MainTakes ==
    ASSUME TypeOK, OnceInv, AddedBeforeUse, main # <<>>, main' = Tail(main),
           \/ Head(main).what # "add" /\ added' = added
           \/ \E s \in Socks : Head(main) = Job("add", s) /\ added' = added \cup {s}
    PROVE  OnceInv' /\ AddedBeforeUse'
  <1>1. main \in Seq(MainJobs) /\ InOrder(main, added) /\ Once(main)
    BY OrderMeans DEF TypeOK
  <1>2. /\ Jobs(main) = Jobs(main') \cup {Head(main)}
        /\ Head(main).what = "add" => Head(main) \notin Jobs(main')
    BY MainNext
  <1>3. added \subseteq added' /\ (Head(main).what = "add" => Head(main).sock \in added')
    BY JobParts
  <1>4. Once(main') /\ InOrder(main', added')
    BY <1>1, <1>3, OrderTail
  <1>5. \A t \in added' : Job("add", t) \notin Jobs(main')
    <2>1. \A t \in added : Job("add", t) \notin Jobs(main')
      BY <1>2, OrderMeans
    <2>2. \A t \in added' \ added : Job("add", t) = Head(main) /\ Head(main).what = "add"
      BY JobParts
    <2> QED
      BY <1>2, <2>1, <2>2
  <1> QED
    BY <1>4, <1>5 DEF OnceInv, Once, AddedBeforeUse, InOrder, Told

\* A socket the logic handles something of has been announced to it.
LEMMA HeadIsKnown ==
    ASSUME TypeOK, OnceInv, AddedBeforeUse, NEW what \in Told, NEW s, NextCall(Job(what, s))
    PROVE  s \in added
  <1>1. main \in Seq(MainJobs) /\ InOrder(main, added) /\ Once(main)
    BY OrderMeans DEF TypeOK
  <1>2. main # <<>> /\ Head(main) = Job(what, s)
    BY DEF NextCall
  <1>3. Head(main).what \in Told => Head(main).sock \in added
    BY <1>1, <1>2, OrderTail
  <1> QED
    BY <1>2, <1>3, JobParts

LEMMA OrderStep ==
    ASSUME TypeOK, OnceInv, AddedBeforeUse, AcceptInv, AnnounceInv, Next
    PROVE  OnceInv' /\ AddedBeforeUse'
  <1> USE DEF network, logic, control
  <1>1. ASSUME UNCHANGED <<main, added>> PROVE OnceInv' /\ AddedBeforeUse'
    BY <1>1 DEF OnceInv, AddedBeforeUse
  <1>2. ASSUME AcceptNew PROVE OnceInv' /\ AddedBeforeUse'
    <2>1. /\ acceptOp \in Socks /\ conn[acceptOp] = "queued"
          /\ main' = Append(main, Job("add", acceptOp)) /\ added' = added
      BY <1>2 DEF AcceptNew, AcceptInv
    <2>2. acceptOp \notin added /\ Job("add", acceptOp) \notin Jobs(main)
      BY <2>1 DEF AnnounceInv
    <2> QED
      BY <2>1, <2>2, MainAppends, MainJobTyped DEF Told
  <1>3. ASSUME NEW s \in Socks, PassiveClose(s), s \in socketVec PROVE OnceInv' /\ AddedBeforeUse'
    <2>1. main' = Append(main, Job("del", s)) /\ added' = added
      BY <1>3 DEF PassiveClose
    <2>2. s \in added \/ Job("add", s) \in Jobs(main)
      BY <1>3 DEF AnnounceInv
    <2> QED
      BY <2>1, <2>2, MainAppends, MainJobTyped
  <1>4. ASSUME NEW s \in Socks, NEW what \in {"msg", "test"}, Deliver(s, what)
        PROVE  OnceInv' /\ AddedBeforeUse'
    <2>1. main' = Append(main, Job(what, s)) /\ added' = added
      BY <1>4 DEF Deliver
    <2>2. s \in added \/ Job("add", s) \in Jobs(main)
      BY <1>4 DEF Deliver, AnnounceInv
    <2> QED
      BY <2>1, <2>2, MainAppends, MainJobTyped
  <1>5. ASSUME Signal PROVE OnceInv' /\ AddedBeforeUse'
    <2>1. main' = Append(main, Job("signal", NoSock)) /\ added' = added
      BY <1>5 DEF Signal
    <2> QED
      BY <2>1, MainAppends, MainJobTyped DEF Told
  <1>6. ASSUME NEW s \in Socks, AddConnector(s) PROVE OnceInv' /\ AddedBeforeUse'
    BY <1>6, MainTakes DEF AddConnector, NextCall
  <1>7. ASSUME NEW what \in Told \cup {"close"}, NEW s, NextCall(Job(what, s)), added' = added
        PROVE  OnceInv' /\ AddedBeforeUse'
    <2>1. main # <<>> /\ main' = Tail(main) /\ Head(main).what # "add"
      BY <1>7, JobParts DEF NextCall, Told
    <2> QED
      BY <1>7, <2>1, MainTakes
  <1>8. ASSUME HandleSignal PROVE OnceInv' /\ AddedBeforeUse'
    <2>1. /\ main # <<>> /\ Head(main).what # "add" /\ added' = added
          /\ main \in Seq(MainJobs) /\ InOrder(main, added) /\ Once(main)
      BY <1>8, JobParts, OrderMeans DEF HandleSignal, TypeOK
    <2>2. CASE main' = Tail(main)
      BY <2>1, <2>2, MainTakes
    <2>3. CASE main' = Append(Tail(main), Job("close", NoSock))
      <3> DEFINE rest == Tail(main)
                 job == Job("close", NoSock)
      <3>1. /\ rest \in Seq(MainJobs) /\ job \in MainJobs
            /\ InOrder(rest, added) /\ Once(rest)
            /\ Jobs(main) = Jobs(rest) \cup {Head(main)}
            /\ job.what = "close"
        BY <2>1, OrderTail, MainNext, MainJobTyped, JobParts
      <3> HIDE DEF rest, job
      <3>2. InOrder(Append(rest, job), added) /\ Once(Append(rest, job))
        BY <3>1, OrderAppend DEF Told
      <3>3. Jobs(Append(rest, job)) = Jobs(rest) \cup {job}
        BY <3>1, JobsAppend
      <3>4. \A t \in added : Job("add", t) \notin Jobs(Append(rest, job))
        BY <3>1, <3>3, OrderMeans, JobParts
      <3>5. main' = Append(rest, job)
        BY <2>3 DEF rest, job
      <3> QED
        BY <2>1, <3>2, <3>4, <3>5 DEF OnceInv, Once, AddedBeforeUse, InOrder, Told
    <2> QED
      BY <1>8, <2>2, <2>3 DEF HandleSignal, InterruptedServer
  <1>9. CASE \/ \E s \in Socks : KernelAccept(s)
             \/ KernelAcceptError \/ Accept \/ Strand
             \/ \E s \in Socks : Deliver(s, "msg") \/ Deliver(s, "test")
             \/ \E s \in Socks : Lost(s) \/ LastReadDone(s) \/ CloseSock(s) \/ Drained(s)
    BY <1>1, <1>2, <1>3, <1>4, <1>9
    DEF KernelAccept, KernelAcceptError, Accept, AcceptStopped, AcceptFailed, AcceptRead,
        Strand, StopAccept, ClearSockets, ActiveClose, PassiveClose,
        Lost, LastReadDone, CloseSock, Drained
  <1>10. CASE Logic
    BY <1>6, <1>7, <1>10 DEF Logic, DelConnector, HandleMsg, TestLimitTcp, Told
  <1>11. CASE \/ \E ob \in objects : Kick(ob)
              \/ Start \/ Signal \/ HandleSignal \/ CloseServer \/ CloseNetwork \/ JoinReturns
    BY <1>1, <1>5, <1>7, <1>8, <1>11
    DEF Kick, Start, StartNetwork, ListenAt, ListenFails, RunServer, CloseServer, CloseNetwork,
        JoinReturns
  <1> QED
    BY <1>9, <1>10, <1>11 DEF Next


-----------------------------------------------------------------------------
(* The accept in progress.                                                 *)

LEMMA AcceptStep ==
    ASSUME TypeOK, AcceptInv, Next
    PROVE  AcceptInv'
  <1> USE DEF network, logic, control
  <1>0. /\ conn \in [Socks -> {"none", "queued", "accepted", "open", "draining", "lost", "closed"}]
        /\ Socks \cap {NoSock, "none", "pending", "error", "aborted", "reading"} = {}
    BY ServerAssumption DEF TypeOK
  <1>1. ASSUME UNCHANGED <<acceptOp, newSock, conn>>,
               server' \in {"signals", "network"} => server \in {"signals", "network"}
        PROVE  AcceptInv'
    BY <1>1 DEF AcceptInv
  <1>2. ASSUME NEW s \in Socks, KernelAccept(s) PROVE AcceptInv'
    BY <1>0, <1>2 DEF AcceptInv, KernelAccept
  <1>3. ASSUME KernelAcceptError \/ AcceptFailed PROVE AcceptInv'
    BY <1>0, <1>3 DEF AcceptInv, KernelAcceptError, AcceptFailed
  <1>4. ASSUME AcceptStopped PROVE AcceptInv'
    <2>1. /\ acceptOp \notin {"reading", "none"} /\ acceptOp' = "none"
          /\ UNCHANGED <<newSock, server>>
      BY <1>0, <1>4 DEF AcceptStopped
    <2>2. \A s \in Socks : conn'[s] = IF s = acceptOp THEN "closed" ELSE conn[s]
      BY <1>4 DEF AcceptStopped
    <2>3. \A s \in Socks : conn'[s] # "queued" /\ s # "none"
      BY <1>0, <2>2 DEF AcceptInv
    <2>4. \A s \in Socks : newSock # s /\ conn'[s] # "accepted"
      BY <1>0, <2>1, <2>2 DEF AcceptInv
    <2> QED
      BY <2>1, <2>3, <2>4 DEF AcceptInv
  <1>5. ASSUME AcceptNew PROVE AcceptInv'
    BY <1>0, <1>5 DEF AcceptInv, AcceptNew
  <1>6. ASSUME AcceptRead PROVE AcceptInv'
    BY <1>0, <1>6 DEF AcceptInv, AcceptRead, TypeOK
  <1>7. ASSUME StopAccept PROVE AcceptInv'
    BY <1>0, <1>7 DEF AcceptInv, StopAccept
  <1>8. ASSUME NEW s \in Socks, Lost(s) \/ LastReadDone(s) \/ CloseSock(s) \/ Drained(s)
        PROVE  AcceptInv'
    <2>1. UNCHANGED <<acceptOp, newSock, server>>
      BY <1>8 DEF Lost, LastReadDone, CloseSock, Drained
    <2>2. \A t \in Socks :
              \/ conn'[t] = conn[t]
              \/ conn[t] \in {"open", "draining", "lost"} /\ conn'[t] \in {"draining", "lost", "closed"}
      BY <1>0, <1>8 DEF Lost, LastReadDone, CloseSock, Drained
    <2>3. \A t \in Socks : (conn'[t] = "queued" <=> conn[t] = "queued")
                           /\ (conn'[t] = "accepted" <=> conn[t] = "accepted")
      BY <2>2
    <2> QED
      BY <2>1, <2>3 DEF AcceptInv
  <1>9. ASSUME ListenAt PROVE AcceptInv'
    BY <1>0, <1>9 DEF AcceptInv, ListenAt, Listen
  <1>10. CASE \/ \E s \in Socks : KernelAccept(s)
              \/ KernelAcceptError \/ Accept \/ Strand
              \/ \E s \in Socks : Deliver(s, "msg") \/ Deliver(s, "test")
              \/ \E s \in Socks : Lost(s) \/ LastReadDone(s) \/ CloseSock(s) \/ Drained(s)
    BY <1>1, <1>2, <1>3, <1>4, <1>5, <1>6, <1>7, <1>8, <1>10
    DEF Accept, Strand, ClearSockets, ActiveClose, PassiveClose, Deliver
  <1>11. CASE \/ Logic \/ \E ob \in objects : Kick(ob)
              \/ Start \/ Signal \/ HandleSignal \/ CloseServer \/ CloseNetwork \/ JoinReturns
    BY <1>1, <1>9, <1>11
    DEF Logic, AddConnector, DelConnector, HandleMsg, TestLimitTcp, Kick, Signal, HandleSignal,
        Start, StartNetwork, ListenFails, RunServer, CloseServer, OnCloseServer, CloseNetwork,
        JoinReturns
  <1> QED
    BY <1>10, <1>11 DEF Next

-----------------------------------------------------------------------------
(* Objects and uids.                                                       *)

\* Taking a socket's object out takes just that out.
LEMMA OwnObject ==
    ASSUME TypeOK, OneObjectEach, UidInv, NEW s \in added
    PROVE  \A ob \in objects : ob.uid = bindUid[s] <=> ob.sock = s
  BY DEF OneObjectEach, UidInv

LEMMA UidStep ==
    ASSUME TypeOK, OnceInv, OneObjectEach, UidInv, Next
    PROVE  OneObjectEach' /\ UidInv'
  <1> USE DEF network, logic, control
  <1>1. ASSUME UNCHANGED <<added, bindUid, globalUid>>, objects' \subseteq objects
        PROVE  OneObjectEach' /\ UidInv'
    BY <1>1 DEF OneObjectEach, UidInv
  <1>2. ASSUME NEW s \in Socks, AddConnector(s) PROVE OneObjectEach' /\ UidInv'
    <2> DEFINE new == [uid |-> globalUid, sock |-> s]
    <2>1. s \notin added
      <3>1. Job("add", s) \in Jobs(main)
        BY <1>2, JobsTail DEF AddConnector, NextCall, TypeOK
      <3> QED
        BY <3>1 DEF OnceInv
    <2>2. /\ globalUid \in Nat /\ added \subseteq Socks /\ bindUid \in [Socks -> Nat]
          /\ \A ob \in objects : ob.uid < globalUid /\ ob.sock # s /\ ob.sock \in added
      BY <2>1 DEF TypeOK, OneObjectEach, UidInv
    <2>3. /\ globalUid' = globalUid + 1
          /\ bindUid' = [bindUid EXCEPT ![s] = globalUid]
          /\ objects' = objects \cup {new}
          /\ added' = added \cup {s}
      <3>1. Found(globalUid) = {}
        BY <2>2 DEF Found
      <3> QED
        BY <1>2, <3>1 DEF AddConnector, AddObject, GetIdleUid
    <2>4. /\ bindUid'[s] = globalUid
          /\ \A t \in added : bindUid'[t] = bindUid[t] /\ bindUid[t] < globalUid /\ bindUid[t] \in Nat
      BY <2>1, <2>2, <2>3 DEF UidInv
    <2>5. new.uid = globalUid /\ new.sock = s
      OBVIOUS
    <2> HIDE DEF new
    <2>6. UidInv'
      BY <2>2, <2>3, <2>4, <2>5 DEF UidInv
    <2>7. \A t, u \in added' : bindUid'[t] = bindUid'[u] => t = u
      <3>1. ASSUME NEW t \in added, NEW u \in added, bindUid'[t] = bindUid'[u] PROVE t = u
        BY <2>4, <3>1 DEF OneObjectEach
      <3>2. \A t \in added : bindUid'[t] # bindUid'[s]
        BY <2>2, <2>4
      <3> QED
        BY <2>3, <3>1, <3>2
    <2>8. \A ob \in objects' :
              /\ bindUid'[ob.sock] = ob.uid
              /\ \A other \in objects' : other.uid = ob.uid \/ other.sock = ob.sock => other = ob
      <3>1. \A ob \in objects : bindUid'[ob.sock] = ob.uid /\ ob.uid < globalUid /\ ob.sock # s
        BY <2>2, <2>4 DEF OneObjectEach
      <3>2. ASSUME NEW ob \in objects, NEW other \in objects, other.uid = ob.uid \/ other.sock = ob.sock
            PROVE  other = ob
        BY <3>2 DEF OneObjectEach
      <3>3. \A ob \in objects : ob.uid # new.uid /\ ob.sock # new.sock
        BY <2>2, <2>5, <3>1
      <3> QED
        BY <2>3, <2>4, <2>5, <3>1, <3>2, <3>3
    <2> QED
      BY <2>6, <2>7, <2>8 DEF OneObjectEach
  <1>3. CASE \/ \E s \in Socks : KernelAccept(s)
             \/ KernelAcceptError \/ Accept \/ Strand
             \/ \E s \in Socks : Deliver(s, "msg") \/ Deliver(s, "test")
             \/ \E s \in Socks : Lost(s) \/ LastReadDone(s) \/ CloseSock(s) \/ Drained(s)
    BY <1>1, <1>3
    DEF KernelAccept, KernelAcceptError, Accept, AcceptStopped, AcceptFailed, AcceptNew, AcceptRead,
        Strand, StopAccept, ClearSockets, ActiveClose, PassiveClose, Deliver,
        Lost, LastReadDone, CloseSock, Drained
  <1>4. CASE Logic
    BY <1>1, <1>2, <1>4 DEF Logic, DelConnector, HandleMsg, TestLimitTcp, DelObject
  <1>5. CASE \/ \E ob \in objects : Kick(ob)
             \/ Start \/ Signal \/ HandleSignal \/ CloseServer \/ CloseNetwork \/ JoinReturns
    BY <1>1, <1>5
    DEF Kick, Signal, HandleSignal, Start, StartNetwork, ListenAt, ListenFails, RunServer,
        CloseServer, CloseNetwork, JoinReturns
  <1> QED
    BY <1>3, <1>4, <1>5 DEF Next


-----------------------------------------------------------------------------
(* What the steps do to the queues, as sets of jobs.                       *)

\* The logic takes its own job; an announcement is gone then.
LEMMA CallTakes ==
    ASSUME TypeOK, OnceInv, NEW job, NextCall(job)
    PROVE  /\ Jobs(main) = Jobs(main') \cup {job}
           /\ job.what = "add" => job \notin Jobs(main')
  BY MainNext DEF NextCall

LEMMA SignalKeeps ==
    ASSUME TypeOK, OnceInv, HandleSignal
    PROVE  \A what \in {"add", "del"}, s \in Socks :
               Job(what, s) \in Jobs(main') <=> Job(what, s) \in Jobs(main)
  <1>1. /\ main # <<>> /\ Head(main) = Job("signal", NoSock)
        /\ main' = Tail(main) \/ main' = Append(Tail(main), Job("close", NoSock))
    BY DEF HandleSignal, InterruptedServer
  <1>2. /\ Tail(main) \in Seq(MainJobs)
        /\ Jobs(main) = Jobs(Tail(main)) \cup {Job("signal", NoSock)}
    BY <1>1, MainNext
  <1>3. Jobs(Append(Tail(main), Job("close", NoSock))) = Jobs(Tail(main)) \cup {Job("close", NoSock)}
    <2> DEFINE rest == Tail(main)
               job == Job("close", NoSock)
    <2>1. rest \in Seq(MainJobs) /\ job \in MainJobs
      BY <1>2, MainJobTyped
    <2> HIDE DEF rest, job
    <2>2. Jobs(Append(rest, job)) = Jobs(rest) \cup {job}
      BY <2>1, JobsAppend
    <2> QED
      BY <2>2 DEF rest, job
  <1>4. Jobs(main') = Jobs(Tail(main)) \/ Jobs(main') = Jobs(Tail(main)) \cup {Job("close", NoSock)}
    BY <1>1, <1>3
  <1> QED
    BY <1>2, <1>4, JobsDiffer

Announced(s) == s \in added \/ Job("add", s) \in Jobs(main)

\* The steps announce a socket when it is accepted and never take that back.
LEMMA AnnouncedStep ==
    ASSUME TypeOK, OnceInv, Next
    PROVE  \A s \in Socks : Announced(s)' <=> Announced(s) \/ (AcceptNew /\ s = acceptOp)
  <1> USE DEF network, logic, control
  <1> DEFINE Same == \A s \in Socks : Announced(s)' <=> Announced(s)
  <1>1. ASSUME UNCHANGED <<main, added>> PROVE Same
    BY <1>1 DEF Announced
  <1>2. ASSUME AcceptNew PROVE \A s \in Socks : Announced(s)' <=> Announced(s) \/ s = acceptOp
    <2>1. added' = added /\ Jobs(main') = Jobs(main) \cup {Job("add", acceptOp)}
      BY <1>2, MainPost, MainJobTyped DEF AcceptNew
    <2> QED
      BY <2>1, JobsDiffer DEF Announced
  <1>3. ASSUME NEW what, what # "add", NEW t, Job(what, t) \in MainJobs,
               main' = Append(main, Job(what, t)), added' = added
        PROVE  Same
    <2>1. Jobs(main') = Jobs(main) \cup {Job(what, t)}
      BY <1>3, MainPost
    <2> QED
      BY <1>3, <2>1, JobsDiffer DEF Announced
  <1>4. ASSUME NEW s \in Socks, AddConnector(s) PROVE Same
    <2>1. added' = added \cup {s} /\ Jobs(main) = Jobs(main') \cup {Job("add", s)}
      BY <1>4, CallTakes DEF AddConnector
    <2> QED
      BY <2>1, JobsDiffer DEF Announced
  <1>5. ASSUME NEW what, what # "add", NEW t, NextCall(Job(what, t)), added' = added PROVE Same
    <2>1. Jobs(main) = Jobs(main') \cup {Job(what, t)}
      BY <1>5, CallTakes
    <2> QED
      BY <1>5, <2>1, JobsDiffer DEF Announced
  <1>6. ASSUME HandleSignal PROVE Same
    BY <1>6, SignalKeeps DEF Announced, HandleSignal
  <1>7. ASSUME NEW s \in Socks, PassiveClose(s) PROVE Same
    BY <1>1, <1>3, <1>7, MainJobTyped DEF PassiveClose
  <1>8. ASSUME NEW s \in Socks, Deliver(s, "msg") \/ Deliver(s, "test") PROVE Same
    BY <1>3, <1>8, MainJobTyped DEF Deliver
  <1>9. ASSUME Signal PROVE Same
    BY <1>3, <1>9, MainJobTyped DEF Signal
  <1>10. ASSUME Logic PROVE Same
    BY <1>4, <1>5, <1>10 DEF Logic, DelConnector, HandleMsg, TestLimitTcp
  <1>11. ASSUME CloseServer PROVE Same
    BY <1>5, <1>11 DEF CloseServer
  <1>12. ASSUME \/ \E s \in Socks : KernelAccept(s)
                \/ KernelAcceptError \/ AcceptStopped \/ AcceptFailed \/ AcceptRead
                \/ StopAccept \/ ClearSockets \/ \E s \in Socks : ActiveClose(s)
                \/ \E s \in Socks : Lost(s) \/ LastReadDone(s) \/ CloseSock(s) \/ Drained(s)
         PROVE  Same
    <2>1. UNCHANGED <<main, added>>
      BY <1>12
      DEF KernelAccept, KernelAcceptError, AcceptStopped, AcceptFailed, AcceptRead,
          StopAccept, ClearSockets, ActiveClose, Lost, LastReadDone, CloseSock, Drained
    <2> QED
      BY <1>1, <2>1
  <1>13. ASSUME (\E ob \in objects : Kick(ob)) \/ Start \/ CloseNetwork \/ JoinReturns
         PROVE  Same
    <2>1. UNCHANGED <<main, added>>
      BY <1>13
      DEF Kick, Start, StartNetwork, ListenAt, ListenFails, RunServer, CloseNetwork, JoinReturns
    <2> QED
      BY <1>1, <2>1
  <1> HIDE DEF Same
  <1>14. AcceptNew \/ Same
    BY <1>6, <1>7, <1>8, <1>9, <1>10, <1>11, <1>12, <1>13 DEF Next, Accept, Strand, Same
  <1> QED
    BY <1>2, <1>14 DEF Same


\* The logic and the main thread leave the sockets to the network.
LEMMA LogicLeaves ==
    ASSUME \/ Logic \/ \E ob \in objects : Kick(ob)
           \/ Start \/ Signal \/ HandleSignal \/ CloseServer \/ CloseNetwork \/ JoinReturns
    PROVE  UNCHANGED <<newSock, socketVec, conn, closeAsked>>
  BY DEF network, logic, control, Logic, AddConnector, DelConnector, HandleMsg, TestLimitTcp, Kick,
         Signal, HandleSignal, Start, StartNetwork, ListenAt, ListenFails, RunServer, CloseServer,
         CloseNetwork, JoinReturns

LEMMA AnnounceStep ==
    ASSUME TypeOK, OnceInv, AcceptInv, AnnounceInv, Next
    PROVE  AnnounceInv'
  <1> USE DEF network, logic, control
  <1>0. conn \in [Socks -> {"none", "queued", "accepted", "open", "draining", "lost", "closed"}]
    BY DEF TypeOK
  <1>1. \A s \in Socks :
            /\ conn[s] \in {"none", "queued"} => ~Announced(s)
            /\ s \in socketVec \/ conn[s] \in {"accepted", "open", "draining", "lost"} => Announced(s)
    BY DEF AnnounceInv, Announced
  <1>2. \A s \in Socks : Announced(s)' <=> Announced(s) \/ (AcceptNew /\ s = acceptOp)
    BY AnnouncedStep
  <1>3. SUFFICES \A s \in Socks :
            /\ conn'[s] \in {"none", "queued"} => ~Announced(s)'
            /\ s \in socketVec' \/ conn'[s] \in {"accepted", "open", "draining", "lost"} => Announced(s)'
    BY DEF AnnounceInv, Announced
  <1>4. CASE AcceptNew
    <2>1. /\ acceptOp \in Socks
          /\ \A s \in Socks : s # acceptOp => conn'[s] = conn[s]
          /\ conn'[acceptOp] = "accepted"
          /\ socketVec' = socketVec \cup {acceptOp}
      BY <1>0, <1>4 DEF AcceptNew
    <2> QED
      BY <1>1, <1>2, <1>4, <2>1
  <1>5. CASE ~AcceptNew
    <2> DEFINE Narrow == \A s \in Socks :
              /\ conn'[s] \in {"none", "queued"} => conn[s] \in {"none", "queued"}
              /\ conn'[s] \in {"accepted", "open", "draining", "lost"}
                    => conn[s] \in {"accepted", "open", "draining", "lost"}
    <2>1. Narrow
      <3>1. ASSUME UNCHANGED conn PROVE Narrow
        BY <3>1
      <3>2. ASSUME NEW s \in Socks, KernelAccept(s) PROVE Narrow
        BY <1>0, <3>2 DEF KernelAccept
      <3>3. ASSUME AcceptStopped PROVE Narrow
        BY <1>0, <3>3 DEF AcceptStopped
      <3>4. ASSUME AcceptRead PROVE Narrow
        <4>1. newSock \in Socks /\ conn[newSock] = "accepted"
          BY <3>4 DEF AcceptRead, AcceptInv, TypeOK
        <4> QED
          BY <1>0, <3>4, <4>1 DEF AcceptRead
      <3>5. ASSUME NEW s \in Socks, Lost(s) \/ LastReadDone(s) \/ CloseSock(s) \/ Drained(s)
            PROVE  Narrow
        BY <1>0, <3>5 DEF Lost, LastReadDone, CloseSock, Drained
      <3>6. CASE \/ \E s \in Socks : KernelAccept(s)
                 \/ KernelAcceptError \/ Accept \/ Strand
                 \/ \E s \in Socks : Deliver(s, "msg") \/ Deliver(s, "test")
                 \/ \E s \in Socks : Lost(s) \/ LastReadDone(s) \/ CloseSock(s) \/ Drained(s)
        BY <1>5, <3>1, <3>2, <3>3, <3>4, <3>5, <3>6
        DEF KernelAcceptError, Accept, AcceptFailed, Strand, StopAccept, ClearSockets,
            ActiveClose, PassiveClose, Deliver
      <3>7. CASE \/ Logic \/ \E ob \in objects : Kick(ob)
                 \/ Start \/ Signal \/ HandleSignal \/ CloseServer \/ CloseNetwork \/ JoinReturns
        BY <3>1, <3>7, LogicLeaves
      <3> QED
        BY <3>6, <3>7 DEF Next
    <2>2. socketVec' \subseteq socketVec
      <3>1. CASE \/ \E s \in Socks : KernelAccept(s)
                 \/ KernelAcceptError \/ Accept \/ Strand
                 \/ \E s \in Socks : Deliver(s, "msg") \/ Deliver(s, "test")
                 \/ \E s \in Socks : Lost(s) \/ LastReadDone(s) \/ CloseSock(s) \/ Drained(s)
        BY <1>5, <3>1
        DEF KernelAccept, KernelAcceptError, Accept, AcceptStopped, AcceptRead, AcceptFailed,
            Strand, StopAccept, ClearSockets, ActiveClose, PassiveClose, Deliver,
            Lost, LastReadDone, CloseSock, Drained
      <3>2. CASE \/ Logic \/ \E ob \in objects : Kick(ob)
                 \/ Start \/ Signal \/ HandleSignal \/ CloseServer \/ CloseNetwork \/ JoinReturns
        BY <3>2, LogicLeaves
      <3> QED
        BY <3>1, <3>2 DEF Next
    <2> QED
      BY <1>1, <1>2, <1>5, <2>1, <2>2
  <1> QED
    BY <1>4, <1>5


-----------------------------------------------------------------------------
(* What the Acceptor keeps.                                                *)

\* A post or a call leaves the news of other losses and removals alone.
LEMMA NewsQueued ==
    ASSUME TypeOK, OnceInv
    PROVE  /\ \A job \in MainJobs, s \in Socks :
                  main' = Append(main, job) /\ job # Job("del", s)
                      => (Job("del", s) \in Jobs(main') <=> Job("del", s) \in Jobs(main))
           /\ \A job \in StrandJobs, s \in Socks :
                  strand' = Append(strand, job) /\ job # Job("passive", s)
                      => (Job("passive", s) \in Jobs(strand') <=> Job("passive", s) \in Jobs(strand))
           /\ \A job, s : NextCall(job) /\ Job("del", s) \in Jobs(main') => Job("del", s) \in Jobs(main)
  <1>1. \A job \in MainJobs : main' = Append(main, job) => Jobs(main') = Jobs(main) \cup {job}
    BY MainPost
  <1>2. \A job \in StrandJobs : strand' = Append(strand, job) => Jobs(strand') = Jobs(strand) \cup {job}
    BY StrandPost
  <1>3. \A job : NextCall(job) => Jobs(main) = Jobs(main') \cup {job}
    BY CallTakes
  <1> QED
    BY <1>1, <1>2, <1>3

\* The steps of the logic and of the main thread tell the Acceptor of no loss,
\* and the logic of no close.
LEMMA LogicNews ==
    ASSUME TypeOK, OnceInv,
           \/ Logic \/ \E ob \in objects : Kick(ob)
           \/ Start \/ Signal \/ HandleSignal \/ CloseServer \/ CloseNetwork \/ JoinReturns
    PROVE  \A s \in Socks :
               /\ Job("passive", s) \in Jobs(strand') <=> Job("passive", s) \in Jobs(strand)
               /\ Job("del", s) \in Jobs(main') => Job("del", s) \in Jobs(main)
  <1> USE DEF network, logic, control
  <1> DEFINE Strand1 == \A s \in Socks : Job("passive", s) \in Jobs(strand') <=> Job("passive", s) \in Jobs(strand)
             Main1   == \A s \in Socks : Job("del", s) \in Jobs(main') => Job("del", s) \in Jobs(main)
  <1>1. ASSUME UNCHANGED strand PROVE Strand1
    BY <1>1
  <1>2. ASSUME UNCHANGED main PROVE Main1
    BY <1>2
  <1>3. ASSUME NEW job, NextCall(job) PROVE Main1
    BY <1>3, NewsQueued
  <1>4. ASSUME NEW job \in {Job("stop", NoSock), Job("clear", NoSock)}, strand' = Append(strand, job)
        PROVE  Strand1
    BY <1>4, NewsQueued, StrandJobTyped, JobsDiffer
  <1>5. ASSUME NEW s \in Socks, strand' = Append(strand, Job("active", s)) PROVE Strand1
    BY <1>5, NewsQueued, StrandJobTyped, JobsDiffer
  <1>6. ASSUME NEW ob \in objects, strand' = Append(strand, Job("active", ob.sock)) PROVE Strand1
    BY <1>5, <1>6 DEF TypeOK
  <1>7. ASSUME Signal PROVE Main1
    BY <1>7, NewsQueued, MainJobTyped, JobsDiffer DEF Signal
  <1>8. ASSUME HandleSignal PROVE Main1
    BY <1>8, SignalKeeps
  <1>9. ASSUME NEW s \in Socks, TestLimitTcp(s) PROVE Strand1 /\ Main1
    <2>1. Strand1
      BY <1>1, <1>6, <1>9 DEF TestLimitTcp, Found
    <2> QED
      BY <1>3, <1>9, <2>1 DEF TestLimitTcp
  <1>10. ASSUME NEW s \in Socks, AddConnector(s) \/ DelConnector(s) \/ HandleMsg(s) PROVE Strand1 /\ Main1
    BY <1>1, <1>3, <1>10 DEF AddConnector, DelConnector, HandleMsg
  <1>11. ASSUME NEW ob \in objects, Kick(ob) PROVE Strand1 /\ Main1
    BY <1>2, <1>6, <1>11 DEF Kick
  <1>12. ASSUME CloseServer PROVE Strand1 /\ Main1
    BY <1>3, <1>4, <1>12 DEF CloseServer, OnCloseServer, Post
  <1>13. ASSUME CloseNetwork PROVE Strand1 /\ Main1
    BY <1>2, <1>4, <1>13 DEF CloseNetwork, Post
  <1>14. ASSUME Start \/ JoinReturns PROVE Strand1 /\ Main1
    BY <1>1, <1>2, <1>14 DEF Start, StartNetwork, ListenAt, ListenFails, RunServer, JoinReturns
  <1>15. ASSUME Signal \/ HandleSignal PROVE Strand1 /\ Main1
    BY <1>1, <1>7, <1>8, <1>15 DEF Signal, HandleSignal
  <1>16. Strand1 /\ Main1
    BY <1>9, <1>10, <1>11, <1>12, <1>13, <1>14, <1>15 DEF Logic
  <1> QED
    BY <1>16


LEMMA KeptStep ==
    ASSUME TypeOK, OnceInv, AcceptInv, AnnounceInv, KeptInv, Next
    PROVE  KeptInv'
  <1> USE DEF network, logic, control
  <1>0. /\ conn \in [Socks -> {"none", "queued", "accepted", "open", "draining", "lost", "closed"}]
        /\ Socks \cap {NoSock, "none", "pending", "error", "aborted", "reading"} = {}
    BY ServerAssumption DEF TypeOK
  <1> DEFINE passive(s) == Job("passive", s) \in Jobs(strand)
             del(s) == Job("del", s) \in Jobs(main)
  <1>1. ASSUME UNCHANGED <<socketVec, conn, closeAsked>>,
               \A s \in Socks : (passive(s)' <=> passive(s)) /\ (del(s)' => del(s))
        PROVE  KeptInv'
    BY <1>1 DEF KeptInv
  <1>2. ASSUME NEW s \in Socks, KernelAccept(s) PROVE KeptInv'
    <2>1. UNCHANGED <<socketVec, closeAsked, strand, main>> /\ conn[s] = "none"
          /\ conn' = [conn EXCEPT ![s] = "queued"]
      BY <1>2 DEF KernelAccept
    <2> QED
      BY <1>0, <2>1 DEF KeptInv
  <1>3. ASSUME AcceptStopped PROVE KeptInv'
    <2>1. UNCHANGED <<socketVec, closeAsked, strand, main>>
          /\ conn' = [s \in Socks |-> IF s = acceptOp THEN "closed" ELSE conn[s]]
      BY <1>3 DEF AcceptStopped
    <2>2. \A s \in Socks : s = acceptOp => conn[s] = "queued"
      BY DEF AcceptInv
    <2>3. \A s \in Socks : conn'[s] = IF s = acceptOp THEN "closed" ELSE conn[s]
      BY <2>1
    <2> QED
      BY <1>0, <2>1, <2>2, <2>3 DEF KeptInv
  <1>4. ASSUME AcceptNew PROVE KeptInv'
    <2>1. /\ UNCHANGED <<closeAsked, strand>>
          /\ acceptOp \in Socks /\ conn[acceptOp] = "queued"
          /\ conn' = [conn EXCEPT ![acceptOp] = "accepted"]
          /\ socketVec' = socketVec \cup {acceptOp}
          /\ main' = Append(main, Job("add", acceptOp))
      BY <1>4 DEF AcceptNew, AcceptInv
    <2>2. \A s \in Socks : del(s)' <=> del(s)
      BY <2>1, NewsQueued, MainJobTyped, JobsDiffer
    <2>3. \A s \in Socks : conn'[s] = IF s = acceptOp THEN "accepted" ELSE conn[s]
      BY <1>0, <2>1
    <2> QED
      BY <1>0, <2>1, <2>2, <2>3 DEF KeptInv
  <1>5. ASSUME AcceptRead PROVE KeptInv'
    <2>1. /\ UNCHANGED <<closeAsked, socketVec, strand, main>>
          /\ newSock \in Socks /\ conn[newSock] = "accepted"
          /\ conn' = [conn EXCEPT ![newSock] = "open"]
      BY <1>5 DEF AcceptRead, AcceptInv, TypeOK
    <2>2. \A s \in Socks : conn'[s] = IF s = newSock THEN "open" ELSE conn[s]
      BY <1>0, <2>1
    <2> QED
      BY <1>0, <2>1, <2>2 DEF KeptInv
  <1>6. ASSUME NEW job, NextJob(job) PROVE \A s \in Socks : conn[s] # "accepted"
    BY <1>0, <1>6 DEF NextJob, StrandFree, AcceptInv
  <1>7. ASSUME NEW s \in Socks, ActiveClose(s) PROVE KeptInv'
    <2>1. Jobs(strand) = Jobs(strand') \cup {Job("active", s)} /\ UNCHANGED <<conn, main>>
      BY <1>7, StrandNext DEF ActiveClose
    <2>2. \A t \in Socks : passive(t)' <=> passive(t)
      BY <2>1, JobsDiffer
    <2>3. \A t \in Socks : conn[t] # "accepted"
      BY <1>6, <1>7 DEF ActiveClose
    <2>4. \/ s \in socketVec /\ closeAsked' = closeAsked \cup {s} /\ socketVec' = socketVec \ {s}
          \/ s \notin socketVec /\ UNCHANGED <<closeAsked, socketVec>>
      BY <1>7 DEF ActiveClose
    <2> QED
      BY <2>1, <2>2, <2>3, <2>4 DEF KeptInv
  <1>8. ASSUME NEW s \in Socks, PassiveClose(s) PROVE KeptInv'
    <2>1. Jobs(strand) = Jobs(strand') \cup {Job("passive", s)} /\ UNCHANGED <<conn, closeAsked>>
          /\ socketVec' = socketVec \ {s}
      BY <1>8, StrandNext DEF PassiveClose
    <2>2. conn[s] \in {"lost", "closed"}
      BY <2>1 DEF KeptInv
    <2>3. \A t \in Socks : del(t)' => del(t) \/ t = s
      BY <1>8, NewsQueued, MainJobTyped, JobsDiffer DEF PassiveClose
    <2>4. \A t \in Socks : conn[t] # "accepted"
      BY <1>6, <1>8 DEF PassiveClose
    <2>5. \A t \in Socks : t # s => (passive(t)' <=> passive(t))
      BY <2>1, JobsDiffer
    <2> QED
      BY <2>1, <2>2, <2>3, <2>4, <2>5 DEF KeptInv
  <1>9. ASSUME StopAccept PROVE KeptInv'
    <2>1. Jobs(strand) = Jobs(strand') \cup {Job("stop", NoSock)}
          /\ UNCHANGED <<conn, closeAsked, socketVec, main>>
      BY <1>9, StrandNext DEF StopAccept
    <2> QED
      BY <1>1, <2>1, JobsDiffer
  <1>10. ASSUME ClearSockets PROVE KeptInv'
    <2>1. Jobs(strand) = Jobs(strand') \cup {Job("clear", NoSock)} /\ UNCHANGED <<conn, main>>
          /\ closeAsked' = closeAsked \cup socketVec /\ socketVec' = {}
      BY <1>10, StrandNext DEF ClearSockets
    <2>2. \A t \in Socks : passive(t)' <=> passive(t)
      BY <2>1, JobsDiffer
    <2>3. \A t \in Socks : conn[t] # "accepted"
      BY <1>6, <1>10 DEF ClearSockets
    <2> QED
      BY <2>1, <2>2, <2>3 DEF KeptInv
  <1>11. ASSUME NEW s \in Socks, NEW what \in {"msg", "test"}, Deliver(s, what) PROVE KeptInv'
    <2>1. UNCHANGED <<socketVec, conn, closeAsked, strand>> /\ main' = Append(main, Job(what, s))
      BY <1>11 DEF Deliver
    <2> QED
      BY <1>1, <2>1, NewsQueued, MainJobTyped, JobsDiffer
  <1>12. ASSUME NEW s \in Socks, Lost(s) PROVE KeptInv'
    <2>1. /\ UNCHANGED <<socketVec, closeAsked, main>>
          /\ Jobs(strand') = Jobs(strand) \cup {Job("passive", s)}
          /\ conn[s] \in {"open", "draining"}
          /\ conn'[s] \in {"lost", "closed"}
          /\ \A t \in Socks : t # s => conn'[t] = conn[t]
      BY <1>0, <1>12, StrandPost, StrandJobTyped DEF Lost
    <2>2. \A t \in Socks : passive(t)' <=> passive(t) \/ t = s
      BY <2>1, JobsDiffer
    <2> QED
      BY <2>1, <2>2 DEF KeptInv
  <1>13. ASSUME NEW s \in Socks, LastReadDone(s) \/ Drained(s) PROVE KeptInv'
    <2>1. /\ UNCHANGED <<socketVec, closeAsked, strand, main>>
          /\ conn[s] \in {"lost", "draining"}
          /\ conn'[s] = "closed"
          /\ \A t \in Socks : t # s => conn'[t] = conn[t]
      BY <1>0, <1>13 DEF LastReadDone, Drained
    <2> QED
      BY <2>1 DEF KeptInv
  <1>14. ASSUME NEW s \in Socks, CloseSock(s) PROVE KeptInv'
    <2>1. /\ UNCHANGED <<socketVec, strand, main>>
          /\ s \in closeAsked /\ closeAsked' = closeAsked \ {s}
          /\ \/ conn[s] = "open" /\ conn'[s] \in {"draining", "closed"}
             \/ conn[s] = "lost" /\ conn'[s] = "closed"
             \/ conn[s] # "open" /\ conn'[s] = conn[s]
          /\ \A t \in Socks : t # s => conn'[t] = conn[t]
      BY <1>0, <1>14 DEF CloseSock
    <2>2. s \notin socketVec /\ conn[s] \notin {"none", "queued", "accepted"}
      BY <2>1 DEF KeptInv
    <2> QED
      BY <2>1, <2>2 DEF KeptInv
  <1>15. CASE \/ \E s \in Socks : KernelAccept(s)
              \/ KernelAcceptError \/ Accept \/ Strand
              \/ \E s \in Socks : Deliver(s, "msg") \/ Deliver(s, "test")
              \/ \E s \in Socks : Lost(s) \/ LastReadDone(s) \/ CloseSock(s) \/ Drained(s)
    <2>1. KernelAcceptError \/ AcceptFailed => KeptInv'
      BY <1>1 DEF KernelAcceptError, AcceptFailed
    <2> QED
      BY <1>2, <1>3, <1>4, <1>5, <1>7, <1>8, <1>9, <1>10, <1>11, <1>12, <1>13, <1>14, <1>15, <2>1
      DEF Accept, Strand
  <1>16. CASE \/ Logic \/ \E ob \in objects : Kick(ob)
              \/ Start \/ Signal \/ HandleSignal \/ CloseServer \/ CloseNetwork \/ JoinReturns
    BY <1>1, <1>16, LogicLeaves, LogicNews
  <1> QED
    BY <1>15, <1>16 DEF Next


-----------------------------------------------------------------------------
(* What one side has dropped is on its way to the other.                   *)

\* A new object is the first of its uid; one that is deleted was its socket's.
LEMMA ObjectsStep ==
    ASSUME TypeOK, OnceInv, AddedBeforeUse, OneObjectEach, UidInv, NEW s \in Socks
    PROVE  /\ AddConnector(s) => \A t : Has(t)' <=> Has(t) \/ t = s
           /\ s \in added /\ objects' = DelObject(bindUid[s]) => \A t : Has(t)' <=> Has(t) /\ t # s
           /\ \A ob \in objects : ob.sock = s /\ objects' = objects \ {ob}
                                      => \A t : Has(t)' <=> Has(t) /\ t # s
           /\ UNCHANGED objects => \A t : Has(t)' <=> Has(t)
  <1>1. ASSUME AddConnector(s) PROVE \A t : Has(t)' <=> Has(t) \/ t = s
    <2> DEFINE new == [uid |-> globalUid, sock |-> s]
    <2>1. Found(globalUid) = {}
      BY DEF Found, OneObjectEach, UidInv, TypeOK
    <2>2. objects' = objects \cup {new}
      BY <1>1, <2>1 DEF AddConnector, AddObject, GetIdleUid
    <2>3. new.sock = s
      OBVIOUS
    <2> HIDE DEF new
    <2> QED
      BY <2>2, <2>3 DEF Has
  <1>2. ASSUME s \in added, objects' = DelObject(bindUid[s]) PROVE \A t : Has(t)' <=> Has(t) /\ t # s
    <2>1. \A ob \in objects : ob.uid = bindUid[s] <=> ob.sock = s
      BY <1>2, OwnObject
    <2>2. \A ob : ob \in objects' <=> ob \in objects /\ ob.sock # s
      BY <1>2, <2>1 DEF DelObject, Found
    <2> QED
      BY <2>2 DEF Has
  <1>3. ASSUME NEW ob \in objects, ob.sock = s, objects' = objects \ {ob}
        PROVE  \A t : Has(t)' <=> Has(t) /\ t # s
    <2>1. \A other \in objects : other.sock = s <=> other = ob
      BY <1>3 DEF OneObjectEach
    <2>2. \A other : other \in objects' <=> other \in objects /\ other.sock # s
      BY <1>3, <2>1
    <2> QED
      BY <2>2 DEF Has
  <1>4. ASSUME UNCHANGED objects PROVE \A t : Has(t)' <=> Has(t)
    BY <1>4 DEF Has
  <1> QED
    BY <1>1, <1>2, <1>3, <1>4

\* What the Acceptor's and the sockets' handlers preserve.
LEMMA NetworkNews ==
    ASSUME TypeOK, OnceInv, AcceptInv, AnnounceInv, KeptInv, UidInv, NewsInv,
           \/ \E s \in Socks : KernelAccept(s)
           \/ KernelAcceptError \/ Accept \/ Strand
           \/ \E s \in Socks : Deliver(s, "msg") \/ Deliver(s, "test")
           \/ \E s \in Socks : Lost(s) \/ LastReadDone(s) \/ CloseSock(s) \/ Drained(s)
    PROVE  NewsInv'
  <1> USE DEF network, logic, control
  <1>0. /\ conn \in [Socks -> {"none", "queued", "accepted", "open", "draining", "lost", "closed"}]
        /\ Socks \cap {NoSock, "none", "pending", "error", "aborted", "reading"} = {}
    BY ServerAssumption DEF TypeOK
  <1> DEFINE active(s) == Job("active", s) \in Jobs(strand)
             add(s) == Job("add", s) \in Jobs(main)
             del(s) == Job("del", s) \in Jobs(main)
             clear == Job("clear", NoSock) \in Jobs(strand)
             SameObjects == UNCHANGED <<objects, added, server>>
             Open(s) == conn[s] \in {"accepted", "open"}
  <1>a. SameObjects => \A t : Has(t)' <=> Has(t)
    BY DEF Has
  <1>1. ASSUME SameObjects, UNCHANGED <<socketVec, closeAsked>>,
               clear' => clear,
               \A s \in Socks : /\ active(s)' <=> active(s)
                                /\ (add(s)' <=> add(s)) /\ (del(s)' <=> del(s))
                                /\ Open(s)' => Open(s)
        PROVE  NewsInv'
    BY <1>a, <1>1 DEF NewsInv
  <1>2. ASSUME NEW s \in Socks, KernelAccept(s) PROVE NewsInv'
    BY <1>0, <1>1, <1>2 DEF KernelAccept
  <1>3. ASSUME AcceptStopped PROVE NewsInv'
    <2>1. \A t \in Socks : Open(t)' => Open(t)
      BY <1>3 DEF AcceptStopped
    <2> QED
      BY <1>1, <1>3, <2>1 DEF AcceptStopped
  <1>4. ASSUME AcceptNew PROVE NewsInv'
    <2>1. /\ SameObjects /\ UNCHANGED <<closeAsked, strand>>
          /\ acceptOp \in Socks /\ conn[acceptOp] = "queued"
          /\ socketVec' = socketVec \cup {acceptOp}
          /\ Jobs(main') = Jobs(main) \cup {Job("add", acceptOp)}
          /\ \A t \in Socks : t # acceptOp => conn'[t] = conn[t]
      BY <1>0, <1>4, MainPost, MainJobTyped DEF AcceptNew, AcceptInv
    <2>2. acceptOp \notin added
      BY <2>1 DEF AnnounceInv
    <2>3. \A t \in Socks : (add(t)' <=> add(t) \/ t = acceptOp) /\ (del(t)' <=> del(t))
      BY <2>1, JobsDiffer
    <2> QED
      BY <1>a, <2>1, <2>2, <2>3 DEF NewsInv
  <1>5. ASSUME AcceptRead PROVE NewsInv'
    <2>1. /\ SameObjects /\ UNCHANGED <<closeAsked, socketVec, strand, main>>
          /\ newSock \in Socks /\ conn[newSock] = "accepted"
          /\ \A t \in Socks : t # newSock => conn'[t] = conn[t]
      BY <1>0, <1>5 DEF AcceptRead, AcceptInv, TypeOK
    <2>2. \A t \in Socks : Open(t)' => Open(t)
      BY <2>1
    <2> QED
      BY <1>1, <2>1, <2>2
  <1>6. ASSUME NEW s \in Socks, ActiveClose(s) PROVE NewsInv'
    <2>1. /\ Jobs(strand) = Jobs(strand') \cup {Job("active", s)}
          /\ acceptOp # "reading"
          /\ SameObjects /\ UNCHANGED <<conn, main>>
      BY <1>6, StrandNext DEF ActiveClose
    <2>2. \/ s \in socketVec /\ closeAsked' = closeAsked \cup {s} /\ socketVec' = socketVec \ {s}
          \/ s \notin socketVec /\ UNCHANGED <<closeAsked, socketVec>>
      BY <1>6 DEF ActiveClose
    <2>3. s \in added /\ ~Has(s) /\ ~add(s)
      BY <2>1 DEF NewsInv, OnceInv
    <2>4. conn[s] # "accepted"
      BY <1>0, <2>1 DEF AcceptInv
    <2>5. s \in closeAsked' \/ conn[s] # "open"
      BY <2>2 DEF KeptInv
    <2>6. \A t \in Socks : (active(t)' => active(t)) /\ (t # s => (active(t)' <=> active(t)))
      BY <2>1, JobsDiffer
    <2> QED
      BY <1>a, <2>1, <2>2, <2>3, <2>4, <2>5, <2>6, JobsDiffer DEF NewsInv
  <1>7. ASSUME NEW s \in Socks, PassiveClose(s) PROVE NewsInv'
    <2>1. /\ Jobs(strand) = Jobs(strand') \cup {Job("passive", s)}
          /\ SameObjects /\ UNCHANGED <<conn, closeAsked>>
          /\ socketVec' = socketVec \ {s}
      BY <1>7, StrandNext DEF PassiveClose
    <2>2. IF s \in socketVec THEN Jobs(main') = Jobs(main) \cup {Job("del", s)}
                             ELSE UNCHANGED main
      BY <1>7, MainPost, MainJobTyped DEF PassiveClose
    <2>3. \A t \in Socks : active(t)' <=> active(t)
      BY <2>1, JobsDiffer
    <2>4. \A t \in Socks : (add(t)' <=> add(t)) /\ (del(t) => del(t)') /\ (s \in socketVec => del(s)')
      BY <2>2, JobsDiffer
    <2>5. clear' => clear
      BY <2>1
    <2> QED
      BY <1>a, <2>1, <2>3, <2>4, <2>5 DEF NewsInv
  <1>8. ASSUME StopAccept PROVE NewsInv'
    <2>1. /\ Jobs(strand) = Jobs(strand') \cup {Job("stop", NoSock)}
          /\ SameObjects /\ UNCHANGED <<conn, closeAsked, socketVec, main>>
      BY <1>8, StrandNext DEF StopAccept
    <2> QED
      BY <1>1, <2>1, JobsDiffer
  <1>9. ASSUME ClearSockets PROVE NewsInv'
    <2>1. /\ Jobs(strand) = Jobs(strand') \cup {Job("clear", NoSock)}
          /\ SameObjects /\ UNCHANGED <<conn, main>>
          /\ closeAsked' = closeAsked \cup socketVec
      BY <1>9, StrandNext DEF ClearSockets
    <2>2. server \in Closing
      BY <2>1 DEF NewsInv
    <2>3. \A t \in Socks : active(t)' <=> active(t)
      BY <2>1, JobsDiffer
    <2> QED
      BY <1>a, <2>1, <2>2, <2>3 DEF NewsInv
  <1>10. ASSUME NEW s \in Socks, NEW what \in {"msg", "test"}, Deliver(s, what) PROVE NewsInv'
    <2>1. /\ SameObjects /\ UNCHANGED <<socketVec, conn, closeAsked, strand>>
          /\ Jobs(main') = Jobs(main) \cup {Job(what, s)}
      BY <1>10, MainPost, MainJobTyped DEF Deliver
    <2> QED
      BY <1>1, <2>1, JobsDiffer
  <1>11. ASSUME NEW s \in Socks, Lost(s) PROVE NewsInv'
    <2>1. /\ SameObjects /\ UNCHANGED <<socketVec, closeAsked, main>>
          /\ Jobs(strand') = Jobs(strand) \cup {Job("passive", s)}
          /\ conn'[s] \in {"lost", "closed"}
          /\ \A t \in Socks : t # s => conn'[t] = conn[t]
      BY <1>0, <1>11, StrandPost, StrandJobTyped DEF Lost
    <2>2. \A t \in Socks : Open(t)' => Open(t)
      BY <2>1
    <2> QED
      BY <1>1, <2>1, <2>2, JobsDiffer
  <1>12. ASSUME NEW s \in Socks, LastReadDone(s) \/ Drained(s) PROVE NewsInv'
    <2>1. /\ SameObjects /\ UNCHANGED <<socketVec, closeAsked, strand, main>>
          /\ conn'[s] = "closed"
          /\ \A t \in Socks : t # s => conn'[t] = conn[t]
      BY <1>0, <1>12 DEF LastReadDone, Drained
    <2> QED
      BY <1>1, <2>1
  <1>13. ASSUME NEW s \in Socks, CloseSock(s) PROVE NewsInv'
    <2>1. /\ SameObjects /\ UNCHANGED <<socketVec, strand, main>>
          /\ s \in closeAsked /\ closeAsked' = closeAsked \ {s}
          /\ conn'[s] # "open" /\ (conn'[s] = "accepted" => conn[s] = "accepted")
          /\ \A t \in Socks : t # s => conn'[t] = conn[t]
      BY <1>0, <1>13 DEF CloseSock
    <2>2. conn'[s] # "accepted"
      BY <2>1 DEF KeptInv
    <2> QED
      BY <1>a, <2>1, <2>2 DEF NewsInv
  <1>14. KernelAcceptError \/ AcceptFailed => NewsInv'
    BY <1>1 DEF KernelAcceptError, AcceptFailed
  <1> QED
    BY <1>2, <1>3, <1>4, <1>5, <1>6, <1>7, <1>8, <1>9, <1>10, <1>11, <1>12, <1>13, <1>14
    DEF Accept, Strand


\* What the logic and the main thread preserve.
LEMMA ControlNews ==
    ASSUME TypeOK, OnceInv, OneObjectEach, AddedBeforeUse, KeptInv, UidInv, NewsInv,
           \/ Logic \/ \E ob \in objects : Kick(ob)
           \/ Start \/ Signal \/ HandleSignal \/ CloseServer \/ CloseNetwork \/ JoinReturns
    PROVE  NewsInv'
  <1> USE DEF network, logic, control
  <1> DEFINE active(s) == Job("active", s) \in Jobs(strand)
             add(s) == Job("add", s) \in Jobs(main)
             del(s) == Job("del", s) \in Jobs(main)
             clear == Job("clear", NoSock) \in Jobs(strand)
             SameSocks == UNCHANGED <<conn, socketVec, closeAsked>>
  <1>a. SameSocks
    BY LogicLeaves
  <1>1. ASSUME NEW s \in Socks, AddConnector(s) PROVE NewsInv'
    <2>1. /\ UNCHANGED <<strand, server>> /\ added' = added \cup {s}
          /\ Jobs(main) = Jobs(main') \cup {Job("add", s)}
      BY <1>1, CallTakes DEF AddConnector
    <2>2. \A t : Has(t)' <=> Has(t) \/ t = s
      BY <1>1, ObjectsStep
    <2>3. ~active(s)
      BY <2>1 DEF NewsInv, OnceInv
    <2>4. \A t \in Socks : (add(t)' => add(t)) /\ (del(t)' <=> del(t))
      BY <2>1, JobsDiffer
    <2> QED
      BY <1>a, <2>1, <2>2, <2>3, <2>4 DEF NewsInv
  <1>2. ASSUME NEW s \in Socks, DelConnector(s) PROVE NewsInv'
    <2>1. /\ UNCHANGED <<strand, server, added>>
          /\ Jobs(main) = Jobs(main') \cup {Job("del", s)}
          /\ objects' = DelObject(bindUid[s])
      BY <1>2, CallTakes DEF DelConnector
    <2>2. s \in added
      BY <1>2, HeadIsKnown DEF DelConnector, Told
    <2>3. \A t : Has(t)' <=> Has(t) /\ t # s
      BY <2>1, <2>2, ObjectsStep
    <2>4. conn[s] \in {"lost", "closed"}
      BY <2>1 DEF KeptInv
    <2>5. \A t \in Socks : (add(t)' => add(t)) /\ (t # s => (del(t)' <=> del(t)))
      BY <2>1, JobsDiffer
    <2>6. ~add(s)
      BY <2>2 DEF OnceInv
    <2> QED
      BY <1>a, <2>1, <2>3, <2>4, <2>5, <2>6 DEF NewsInv
  <1>3. ASSUME SameSocks, UNCHANGED <<objects, added>>,
               server' \in Closing <=> server \in Closing,
               clear' => server' \in Closing,
               \A s \in Socks : (active(s)' <=> active(s)) /\ (add(s)' => add(s)) /\ (del(s) => del(s)')
        PROVE  NewsInv'
    <2>1. \A t : Has(t)' <=> Has(t)
      BY <1>3 DEF Has
    <2> QED
      BY <1>3, <2>1 DEF NewsInv
  <1>4. ASSUME NEW s \in Socks, HandleMsg(s) PROVE NewsInv'
    <2>1. /\ UNCHANGED <<strand, server, added, objects>>
          /\ Jobs(main) = Jobs(main') \cup {Job("msg", s)}
      BY <1>4, CallTakes DEF HandleMsg
    <2>2. clear => server \in Closing
      BY DEF NewsInv
    <2> QED
      BY <1>a, <1>3, <2>1, <2>2, JobsDiffer
  <1>5. ASSUME NEW s \in Socks, s \in added,
               \A t : Has(t)' <=> Has(t) /\ t # s,
               strand' = Append(strand, Job("active", s)),
               UNCHANGED <<server, added>>,
               \A t \in Socks : (add(t)' => add(t)) /\ (del(t) => del(t)')
        PROVE  NewsInv'
    <2>1. Jobs(strand') = Jobs(strand) \cup {Job("active", s)}
      BY <1>5, StrandPost, StrandJobTyped
    <2>2. clear' => clear
      BY <2>1, JobsDiffer
    <2>3. \A t \in Socks : active(t)' <=> active(t) \/ t = s
      BY <2>1, JobsDiffer
    <2>4. ~add(s)
      BY <1>5 DEF OnceInv
    <2> QED
      BY <1>a, <1>5, <2>2, <2>3, <2>4 DEF NewsInv
  <1>6. ASSUME NEW s \in Socks, TestLimitTcp(s) PROVE NewsInv'
    <2>1. /\ UNCHANGED <<server, added>>
          /\ Jobs(main) = Jobs(main') \cup {Job("test", s)}
      BY <1>6, CallTakes DEF TestLimitTcp
    <2>2. \A t \in Socks : (add(t)' => add(t)) /\ (del(t) => del(t)')
      BY <2>1, JobsDiffer
    <2>3. s \in added
      BY <1>6, HeadIsKnown DEF TestLimitTcp, Told
    <2>4. CASE Found(bindUid[s]) = {}
      <3>1. UNCHANGED <<strand, objects>>
        BY <1>6, <2>4 DEF TestLimitTcp
      <3>2. clear => server \in Closing
        BY DEF NewsInv
      <3> QED
        BY <1>a, <1>3, <2>1, <2>2, <3>1, <3>2
    <2>5. CASE Found(bindUid[s]) # {}
      <3>1. PICK ob \in Found(bindUid[s]) :
                /\ strand' = Append(strand, Job("active", ob.sock))
                /\ objects' = DelObject(bindUid[ob.sock])
        BY <1>6, <2>5 DEF TestLimitTcp
      <3>2. ob.sock = s
        BY <2>3, <3>1, OwnObject DEF Found
      <3>3. \A t : Has(t)' <=> Has(t) /\ t # s
        BY <2>3, <3>1, <3>2, ObjectsStep
      <3> QED
        BY <1>5, <2>1, <2>2, <2>3, <3>1, <3>2, <3>3
    <2> QED
      BY <2>4, <2>5
  <1>7. ASSUME NEW ob \in objects, Kick(ob) PROVE NewsInv'
    <2>1. /\ strand' = Append(strand, Job("active", ob.sock))
          /\ objects' = objects \ {ob}
          /\ UNCHANGED <<server, added, main>>
      BY <1>7 DEF Kick
    <2>2. ob.sock \in Socks /\ ob.sock \in added
      BY DEF TypeOK, UidInv
    <2>3. \A t : Has(t)' <=> Has(t) /\ t # ob.sock
      BY <2>1, <2>2, ObjectsStep
    <2> QED
      BY <1>5, <2>1, <2>2, <2>3
  <1>8. ASSUME StartNetwork \/ ListenAt \/ ListenFails \/ RunServer \/ JoinReturns PROVE NewsInv'
    <2>1. UNCHANGED <<strand, main, objects, added>>
      BY <1>8 DEF StartNetwork, ListenAt, ListenFails, RunServer, JoinReturns
    <2>2. server' \in Closing <=> server \in Closing
      BY <1>8 DEF StartNetwork, ListenAt, ListenFails, RunServer, JoinReturns, Closing
    <2>3. clear => server \in Closing
      BY DEF NewsInv
    <2> QED
      BY <1>a, <1>3, <2>1, <2>2, <2>3
  <1>9. ASSUME Signal PROVE NewsInv'
    <2>1. /\ UNCHANGED <<strand, server, objects, added>>
          /\ Jobs(main') = Jobs(main) \cup {Job("signal", NoSock)}
      BY <1>9, MainPost, MainJobTyped DEF Signal
    <2>2. clear => server \in Closing
      BY DEF NewsInv
    <2> QED
      BY <1>a, <1>3, <2>1, <2>2, JobsDiffer
  <1>10. ASSUME HandleSignal PROVE NewsInv'
    <2>1. UNCHANGED <<strand, server, objects, added>>
      BY <1>10 DEF HandleSignal
    <2>2. clear => server \in Closing
      BY DEF NewsInv
    <2> QED
      BY <1>a, <1>3, <1>10, <2>1, <2>2, SignalKeeps
  <1>11. ASSUME NEW job \in {Job("stop", NoSock), Job("clear", NoSock)},
                strand' = Append(strand, job), server' \in Closing, UNCHANGED <<objects, added>>
         PROVE  NewsInv'
    <2>1. Jobs(strand') = Jobs(strand) \cup {job}
      BY <1>11, StrandPost, StrandJobTyped
    <2>2. \A t \in Socks : active(t)' <=> active(t)
      BY <1>11, <2>1, JobsDiffer
    <2>3. \A t : Has(t)' <=> Has(t)
      BY <1>11 DEF Has
    <2> QED
      BY <1>a, <1>11, <2>2, <2>3 DEF NewsInv
  <1>12. CloseServer \/ CloseNetwork => NewsInv'
    BY <1>11 DEF CloseServer, OnCloseServer, CloseNetwork, Post, Closing
  <1> QED
    BY <1>1, <1>2, <1>4, <1>6, <1>7, <1>8, <1>9, <1>10, <1>12 DEF Logic, Start

\* What is on its way is what StayInStep asks for.
LEMMA NewsKeepInStep ==
    ASSUME TypeOK, KeptInv, UidInv, NewsInv
    PROVE  StayInStep
  <1>1. ASSUME server = "running", NEW ob \in objects,
               conn[ob.sock] \in {"draining", "lost", "closed"}
        PROVE  Job("passive", ob.sock) \in Jobs(strand) \/ Job("del", ob.sock) \in Jobs(main)
    <2>1. ob.sock \in Socks /\ Has(ob.sock) /\ server \notin Closing
      BY <1>1 DEF TypeOK, Has, Closing
    <2>2. ob.sock \in socketVec \/ Job("del", ob.sock) \in Jobs(main)
      BY <2>1 DEF NewsInv
    <2> QED
      BY <1>1, <2>1, <2>2 DEF KeptInv
  <1>2. NoOrphanConnection
    BY DEF NoOrphanConnection, NewsInv, Has, TypeOK
  <1> QED
    BY <1>1, <1>2 DEF StayInStep, NoGhostObject

-----------------------------------------------------------------------------
(* The theorems.                                                           *)

LEMMA ServerInit ==
    ASSUME Init
    PROVE  StepInv
  <1>1. /\ acceptOp = "none" /\ newSock = NoSock /\ socketVec = {} /\ strand = <<>>
        /\ conn = [s \in Socks |-> "none"] /\ closeAsked = {} /\ main = <<>> /\ objects = {}
        /\ globalUid = 0 /\ bindUid = [s \in Socks |-> 0] /\ server = "signals" /\ added = {}
    BY DEF Init
  <1>2. TypeOK
    <2>1. strand \in Seq(StrandJobs) /\ main \in Seq(MainJobs)
      BY <1>1
    <2>2. msgs \in 0 .. MaxMsgs
      BY ServerAssumption DEF Init
    <2>3. /\ newSock \in Socks \cup {NoSock}
          /\ conn \in [Socks -> {"none", "queued", "accepted", "open", "draining", "lost", "closed"}]
          /\ bindUid \in [Socks -> Nat] /\ globalUid \in Nat
      BY <1>1
    <2> QED
      BY <1>1, <2>1, <2>2, <2>3 DEF Init, TypeOK
  <1>3. Jobs(strand) = {} /\ Jobs(main) = {} /\ Len(main) = 0
    BY <1>1 DEF Jobs
  <1>4. OneObjectEach /\ AddedBeforeUse /\ OnceInv /\ UidInv
    BY <1>1, <1>3 DEF OneObjectEach, AddedBeforeUse, OnceInv, UidInv
  <1>5. AcceptInv
    BY <1>1, ServerAssumption DEF AcceptInv, NoSock
  <1>6. AnnounceInv /\ KeptInv
    BY <1>1, <1>3 DEF AnnounceInv, KeptInv
  <1>7. NewsInv
    BY <1>1, <1>3 DEF NewsInv, Has
  <1> QED
    BY <1>2, <1>4, <1>5, <1>6, <1>7 DEF StepInv, ServerInv

\* The whole server keeps its invariant: every socket is announced to the logic
\* once and before anything else of it, every uid is given out once, and what
\* one side has dropped is in a queue on its way to the other.
THEOREM ServerInvariant == Spec => []StepInv
  <1>1. Init => StepInv
    BY ServerInit
  <1>2. StepInv /\ [Next]_vars => StepInv'
    <2>1. ASSUME StepInv, Next PROVE StepInv'
      <3>1. /\ TypeOK /\ OneObjectEach /\ AddedBeforeUse /\ AcceptInv /\ OnceInv /\ AnnounceInv
            /\ KeptInv /\ UidInv /\ NewsInv
        BY <2>1 DEF StepInv, ServerInv
      <3>2. TypeOK'
        BY <2>1, <3>1, TypeStep
      <3>3. OnceInv' /\ AddedBeforeUse'
        BY <2>1, <3>1, OrderStep
      <3>4. AcceptInv' /\ AnnounceInv' /\ KeptInv'
        BY <2>1, <3>1, AcceptStep, AnnounceStep, KeptStep
      <3>5. OneObjectEach' /\ UidInv'
        BY <2>1, <3>1, UidStep
      <3>6. NewsInv'
        BY <2>1, <3>1, NetworkNews, ControlNews DEF Next
      <3> QED
        BY <3>2, <3>3, <3>4, <3>5, <3>6 DEF StepInv, ServerInv
    <2>2. ASSUME StepInv, UNCHANGED vars PROVE StepInv'
      <3> USE DEF vars, network, logic, control
      <3>1. ServerInv'
        BY <2>2 DEF StepInv, ServerInv, TypeOK, OneObjectEach, AddedBeforeUse
      <3>2. AcceptInv' /\ OnceInv' /\ AnnounceInv'
        BY <2>2 DEF StepInv, AcceptInv, OnceInv, AnnounceInv
      <3>3. KeptInv' /\ UidInv' /\ NewsInv'
        BY <2>2 DEF StepInv, KeptInv, UidInv, NewsInv, Has
      <3> QED
        BY <3>1, <3>2, <3>3 DEF StepInv
    <2> QED
      BY <2>1, <2>2
  <1> QED
    BY <1>1, <1>2, PTL DEF Spec

\* Every object is the one its socket is bound to, no two sockets share a uid,
\* and nothing a socket sends is handled before it was added.
THEOREM ServerCorrect == Spec => []ServerInv
  <1>1. StepInv => ServerInv
    BY DEF StepInv
  <1> QED
    BY <1>1, ServerInvariant, PTL

\* The network and the logic forget each other: no object outlives its
\* connection and no connection its object without its end being queued.
THEOREM SidesStayInStep == Spec => []StayInStep
  <1>1. StepInv => StayInStep
    BY NewsKeepInStep DEF StepInv, ServerInv
  <1> QED
    BY <1>1, ServerInvariant, PTL

-----------------------------------------------------------------------------
(* The heartbeat.                                                          *)

\* A quotient and the multiple of the divisor next to it.
LEMMA Quotient ==
    ASSUME NEW a \in Nat, NEW b \in Nat \ {0}
    PROVE  /\ a \div b \in Nat
           /\ (a \div b) * b \in Nat
           /\ (a \div b) * b <= a
           /\ a <= (a \div b) * b + (b - 1)
  OBVIOUS

LEMMA QuotientIsBelow ==
    ASSUME NEW a \in Nat, NEW b \in Nat \ {0}, NEW q \in Nat, a < (q + 1) * b
    PROVE  a \div b <= q
  <1> DEFINE r == a \div b
  <1>1. r \in Nat /\ r * b <= a
    BY Quotient
  <1> HIDE DEF r
  <1>2. ASSUME r >= q + 1 PROVE FALSE
    <2>1. r * b >= (q + 1) * b
      <3>1. PICK k \in Nat : r = q + 1 + k
        <4>1. r - (q + 1) \in Nat /\ r = q + 1 + (r - (q + 1))
          BY <1>1, <1>2
        <4> QED
          BY <4>1
      <3>2. r * b = (q + 1) * b + k * b /\ k * b \in Nat /\ (q + 1) * b \in Nat
        BY <3>1
      <3> QED
        BY <3>2
    <2>2. (q + 1) * b \in Nat /\ r * b \in Nat
      BY <1>1
    <2> QED
      BY <1>1, <2>1, <2>2
  <1> QED
    BY <1>1, <1>2 DEF r

\* The whole seconds of a sum, and of a later time.
LEMMA QuotientOfSum ==
    ASSUME NEW a \in Nat, NEW c \in Nat, NEW b \in Nat \ {0}
    PROVE  /\ (a + c) \div b <= a \div b + c \div b + 1
           /\ a \div b <= (a + c) \div b
  <1> DEFINE q == a \div b
             r == c \div b
             s == (a + c) \div b
  <1>1. /\ q \in Nat /\ q * b \in Nat /\ q * b <= a /\ a <= q * b + (b - 1)
        /\ r \in Nat /\ r * b \in Nat /\ r * b <= c /\ c <= r * b + (b - 1)
        /\ s \in Nat /\ s * b \in Nat /\ s * b <= a + c /\ a + c <= s * b + (b - 1)
    <2>1. a + c \in Nat
      OBVIOUS
    <2>2. q \in Nat /\ q * b \in Nat /\ q * b <= a /\ a <= q * b + (b - 1)
      BY Quotient
    <2>3. r \in Nat /\ r * b \in Nat /\ r * b <= c /\ c <= r * b + (b - 1)
      BY Quotient
    <2>4. s \in Nat /\ s * b \in Nat /\ s * b <= a + c /\ a + c <= s * b + (b - 1)
      BY <2>1, Quotient
    <2> QED
      BY <2>2, <2>3, <2>4
  <1>2. s <= q + r + 1
    <2> HIDE DEF q, r
    <2>1. ((q + r + 1) + 1) * b = q * b + r * b + b + b
      BY <1>1
    <2>2. a + c < ((q + r + 1) + 1) * b
      BY <1>1, <2>1
    <2>3. q + r + 1 \in Nat /\ a + c \in Nat
      BY <1>1
    <2> QED
      BY <2>2, <2>3, QuotientIsBelow
  <1>3. q <= s
    <2>1. (s + 1) * b = s * b + b
      BY <1>1
    <2>2. a < (s + 1) * b
      BY <1>1, <2>1
    <2> QED
      BY <1>1, <2>2, QuotientIsBelow
  <1> QED
    BY <1>2, <1>3

\* What the invariant says of the one check to come.
LEMMA NextCheck ==
    ASSUME HeartbeatInv, expiry # Never
    PROVE  /\ Second \in Nat \ {0} /\ During \in Nat \ {0} /\ Interval \in Nat \ {0}
           /\ clock \in Nat /\ expiry \in Nat /\ Now \in Nat /\ ~over
           /\ \E t \in Nat : /\ timerMap = {t}
                             /\ t <= Now + Interval
                             /\ Now <= t + (During + Late) \div Second
  <1>1. /\ {Second, During, Interval} \subseteq Nat \ {0} /\ Late \in Nat
        /\ clock \in Nat /\ expiry \in Nat /\ timerMap \subseteq Nat /\ ~over
        /\ During <= expiry /\ clock <= expiry + Late
        /\ \A t \in timerMap : (expiry - During) \div Second < t
    BY LinkAssumption DEF HeartbeatInv, LinkInv, LinkTypeOK, HandlersInv
  <1>2. Now \in Nat
    BY <1>1, Quotient DEF Now
  <1>3. PICK t \in timerMap : timerMap = {t} /\ t <= Now + Interval
    BY DEF HeartbeatInv, LinkInv, OneCheckToCome
  <1>4. Now <= t + (During + Late) \div Second
    <2> DEFINE last == expiry - During
               late == expiry + Late - clock
    <2>1. last \in Nat /\ late \in Nat /\ During + Late \in Nat
      BY <1>1
    <2>2. clock \div Second <= (clock + late) \div Second
      BY <1>1, <2>1, QuotientOfSum
    <2>3. (last + (During + Late)) \div Second <= last \div Second + (During + Late) \div Second + 1
      BY <1>1, <2>1, QuotientOfSum
    <2>4. clock + late = last + (During + Late)
      BY <1>1
    <2>5. /\ last \div Second \in Nat /\ (During + Late) \div Second \in Nat
          /\ (clock + late) \div Second \in Nat
      <3>1. clock + late \in Nat
        BY <1>1, <2>1
      <3> HIDE DEF last, late
      <3> QED
        BY <1>1, <2>1, <3>1, Quotient
    <2>6. last \div Second < t /\ t \in Nat
      BY <1>1
    <2>7. Now \in Nat /\ Now <= (last + (During + Late)) \div Second
      BY <1>2, <2>2, <2>4 DEF Now
    <2> HIDE DEF last, late
    <2> QED
      BY <2>3, <2>4, <2>5, <2>6, <2>7
  <1> QED
    BY <1>1, <1>2, <1>3, <1>4


\* What holds whatever a step leaves alone of the state.
LEMMA HeartbeatTypes ==
    ASSUME HeartbeatInv
    PROVE  /\ LinkTypeOK /\ OneCheckToCome /\ SilentIsClosed
           /\ HandlersInv /\ SilenceInv /\ PongInv
           /\ Now \in Nat
           /\ {Second, During, Interval, ActiveTime, LinkTimeout} \subseteq Nat \ {0}
           /\ {Late, Answer} \subseteq Nat
  <1>1. LinkTypeOK
    BY DEF HeartbeatInv, LinkInv
  <1>2. Second \in Nat \ {0} /\ clock \in Nat
    BY <1>1, LinkAssumption DEF LinkTypeOK
  <1>3. Now \in Nat
    BY <1>2, Quotient DEF Now
  <1> QED
    BY <1>3, LinkAssumption DEF HeartbeatInv, LinkInv

\* No check is due while a client that answers owes an answer.
LEMMA AnswerIsFirst ==
    ASSUME HeartbeatInv, expiry # Never, answers, pingAt # Never,
           NEW t \in Nat, timerMap = {t}, t <= Now
    PROVE  FALSE
  <1>1. /\ LinkTypeOK /\ PongInv
        /\ {Second, Interval} \subseteq Nat \ {0} /\ Answer \in Nat
    BY HeartbeatTypes
  <1>2. /\ pingAt \in Nat /\ clock \in Nat /\ clock <= pingAt + Answer
        /\ t = pingAt \div Second + Interval
    BY <1>1 DEF PongInv, LinkTypeOK
  <1> DEFINE q == pingAt \div Second
             n == clock \div Second
  <1>3. q \in Nat /\ q * Second \in Nat /\ pingAt <= q * Second + (Second - 1)
    BY <1>1, <1>2, Quotient
  <1>4. n \in Nat /\ n * Second \in Nat /\ n * Second <= clock
    BY <1>1, <1>2, Quotient
  <1>5. q + Interval <= n
    BY <1>2 DEF Now
  <1> HIDE DEF q, n
  <1>6. PICK k \in Nat : n = q + Interval + k
    <2>1. n - (q + Interval) \in Nat /\ n = q + Interval + (n - (q + Interval))
      BY <1>1, <1>3, <1>4, <1>5
    <2> QED
      BY <2>1
  <1>7. /\ n * Second = q * Second + (Interval - 1) * Second + Second + k * Second
        /\ k * Second \in Nat /\ (Interval - 1) * Second \in Nat
    <2> DEFINE j == Interval - 1
    <2>1. j \in Nat /\ n = q + j + 1 + k
      BY <1>1, <1>3, <1>6
    <2> HIDE DEF j
    <2>2. (q + j + 1 + k) * Second = q * Second + j * Second + Second + k * Second
      BY <1>1, <1>3, <2>1
    <2>3. k * Second \in Nat /\ j * Second \in Nat
      BY <1>1, <2>1
    <2> QED
      BY <2>1, <2>2, <2>3 DEF j
  <1> QED
    BY <1>1, <1>2, <1>3, <1>4, <1>7, AnswerAssumption

LEMMA ConnectStep ==
    ASSUME HeartbeatInv, NewObject PROVE HeartbeatInv'
  <1>1. /\ LinkTypeOK /\ OneCheckToCome /\ HandlersInv /\ PongInv /\ Now \in Nat
        /\ Interval \in Nat /\ LinkTimeout \in Nat
    BY HeartbeatTypes
  <1>2. /\ object = "none" /\ object' = "live" /\ activeTime' = Now
        /\ UNCHANGED <<clock, expiry, timerMap, over, answers, pingAt, pinged>>
    BY DEF NewObject, timer
  <1>3. Now' = Now
    BY <1>2 DEF Now
  <1>4. LinkTypeOK' /\ OneCheckToCome' /\ HandlersInv' /\ PongInv'
    <2>1. LinkTypeOK'
      BY <1>1, <1>2 DEF LinkTypeOK
    <2>2. OneCheckToCome'
      BY <1>1, <1>2, <1>3 DEF OneCheckToCome
    <2>3. HandlersInv'
      BY <1>1, <1>2 DEF HandlersInv
    <2>4. PongInv'
      BY <1>1, <1>2 DEF PongInv
    <2> QED
      BY <2>1, <2>2, <2>3, <2>4
  <1>5. SilenceInv' /\ SilentIsClosed'
    <2> SUFFICES ASSUME expiry # Never
                 PROVE  /\ \A t \in timerMap : t <= Now + LinkTimeout + Interval
                        /\ Now <= Now + MaxSilence
      BY <1>2, <1>3 DEF SilenceInv, SilentIsClosed, MaxSilence
    <2>1. PICK t \in Nat : timerMap = {t} /\ t <= Now + Interval
      BY NextCheck
    <2>2. (During + Late) \div Second \in Nat
      <3>1. During + Late \in Nat /\ Second \in Nat \ {0}
        BY LinkAssumption
      <3> QED
        BY <3>1, Quotient
    <2> QED
      BY <1>1, <2>1, <2>2 DEF MaxSilence
  <1> QED
    BY <1>4, <1>5 DEF HeartbeatInv, LinkInv

LEMMA OnTimerStep ==
    ASSUME HeartbeatInv, OnTimer PROVE HeartbeatInv'
  <1>1. /\ LinkTypeOK /\ SilentIsClosed /\ HandlersInv /\ SilenceInv /\ PongInv /\ Now \in Nat
        /\ {Second, During, Interval, LinkTimeout} \subseteq Nat \ {0}
        /\ {Late, Answer} \subseteq Nat
    BY HeartbeatTypes
  <1>2. expiry # Never /\ expiry' = clock + During /\ UNCHANGED <<clock, over, activeTime, answers>>
    BY DEF OnTimer
  <1>3. /\ Now' = Now /\ clock \in Nat /\ activeTime \in Nat /\ expiry' \in Nat
        /\ expiry' # Never /\ clock \in Int
    BY <1>1, <1>2 DEF Now, LinkTypeOK, Never
  <1>4. PICK t \in Nat : /\ timerMap = {t} /\ t <= Now + Interval
                         /\ Now <= t + (During + Late) \div Second
    BY <1>2, NextCheck
  <1>5. ~over
    BY <1>1, <1>2 DEF HandlersInv
  <1>6. (expiry' - During) \div Second = Now
    <2>1. expiry' - During = clock
      BY <1>1, <1>2, <1>3
    <2> QED
      BY <2>1 DEF Now
  <1>7. ASSUME NEW u \in Nat, timerMap' = {u}, Now < u, u <= Now + Interval
        PROVE  OneCheckToCome' /\ HandlersInv'
    <2>1. OneCheckToCome'
      BY <1>3, <1>7 DEF OneCheckToCome
    <2>2. During <= expiry' /\ clock' <= expiry' + Late
      BY <1>1, <1>2, <1>3
    <2>3. HandlersInv'
      BY <1>2, <1>5, <1>6, <1>7, <2>2 DEF HandlersInv
    <2> QED
      BY <2>1, <2>3
  <1>8. CASE t <= Now
    <2>1. {u \in timerMap : u > Now} = {}
      BY <1>1, <1>4, <1>8
    <2>2. timerMap' = {Now + Interval} /\ CheckLink
      BY <1>4, <1>5, <2>1 DEF OnTimer
    <2>3. OneCheckToCome' /\ HandlersInv'
      <3>1. Now + Interval \in Nat /\ Now < Now + Interval
        BY <1>1
      <3> QED
        BY <1>7, <2>2, <3>1
    <2>4. ~(answers /\ pingAt # Never)
      BY <1>2, <1>4, <1>8, AnswerIsFirst
    <2>5. CASE object = "live" /\ IsTimeout
      <3>1. object' = "closed" /\ UNCHANGED <<pingAt, pinged>>
        BY <2>2, <2>5 DEF CheckLink
      <3>2. LinkTypeOK' /\ SilentIsClosed' /\ SilenceInv'
        BY <1>1, <1>2, <1>3, <2>2, <3>1 DEF LinkTypeOK, SilentIsClosed, SilenceInv
      <3>3. PongInv'
        BY <1>2, <2>4, <3>1 DEF PongInv
      <3> QED
        BY <2>3, <3>2, <3>3 DEF HeartbeatInv, LinkInv
    <2>6. CASE ~(object = "live" /\ IsTimeout)
      <3>1. object' = object /\ Ping
        BY <2>2, <2>6 DEF CheckLink
      <3>2. pingAt' \in {pingAt, clock} /\ pinged' \in BOOLEAN
        BY <1>1, <3>1 DEF Ping, LinkTypeOK
      <3>3. LinkTypeOK'
        <4>1. timerMap' \subseteq Nat
          BY <1>1, <2>2
        <4> QED
          BY <1>1, <1>2, <1>3, <3>1, <3>2, <4>1 DEF LinkTypeOK
      <3>4. SilentIsClosed'
        BY <1>1, <1>2, <1>3, <3>1 DEF SilentIsClosed, MaxSilence
      <3>5. SilenceInv'
        <4>1. object = "live" => Now + Interval <= activeTime + LinkTimeout + Interval
          BY <1>1, <1>3, <2>6 DEF IsTimeout
        <4> QED
          BY <1>2, <2>2, <3>1, <4>1 DEF SilenceInv
      <3>6. PongInv'
        <4> SUFFICES ASSUME answers PROVE PongInv'
          BY <1>2 DEF PongInv
        <4>1. pingAt = Never /\ (object # "closed" => ~pinged)
          BY <1>1, <2>4 DEF PongInv
        <4>2. CASE object = "live" /\ IsSilent
          <5>1. pinged' = TRUE /\ pingAt' = clock
            BY <3>1, <4>1, <4>2 DEF Ping
          <5>2. clock' <= pingAt' + Answer /\ pingAt' # Never
            BY <1>1, <1>2, <1>3, <5>1 DEF Never
          <5>3. \A u \in timerMap' : u = pingAt' \div Second + Interval
            BY <2>2, <5>1 DEF Now
          <5> QED
            BY <1>2, <3>1, <4>2, <5>2, <5>3 DEF PongInv
        <4>3. CASE ~(object = "live" /\ IsSilent)
          <5>1. UNCHANGED <<pingAt, pinged>>
            BY <3>1, <4>3 DEF Ping
          <5> QED
            BY <1>2, <3>1, <4>1, <5>1 DEF PongInv
        <4> QED
          BY <4>2, <4>3
      <3> QED
        BY <2>3, <3>3, <3>4, <3>5, <3>6 DEF HeartbeatInv, LinkInv
    <2> QED
      BY <2>5, <2>6
  <1>9. CASE Now < t
    <2>1. {u \in timerMap : u > Now} = timerMap
      BY <1>1, <1>4, <1>9
    <2>2. UNCHANGED <<timerMap, object, pingAt, pinged>>
      BY <2>1 DEF OnTimer
    <2>3. OneCheckToCome' /\ HandlersInv'
      BY <1>4, <1>7, <1>9, <2>2
    <2>4. LinkTypeOK'
      BY <1>1, <1>2, <1>3, <2>2 DEF LinkTypeOK
    <2>5. SilentIsClosed' /\ SilenceInv' /\ PongInv'
      BY <1>1, <1>2, <1>3, <2>2 DEF SilentIsClosed, MaxSilence, SilenceInv, PongInv
    <2> QED
      BY <2>3, <2>4, <2>5 DEF HeartbeatInv, LinkInv
  <1> QED
    BY <1>1, <1>4, <1>8, <1>9

LEMMA PongStep ==
    ASSUME HeartbeatInv, HandleMsgPong PROVE HeartbeatInv'
  <1>1. /\ LinkTypeOK /\ OneCheckToCome /\ SilentIsClosed /\ HandlersInv /\ SilenceInv /\ PongInv
        /\ Now \in Nat /\ Interval \in Nat /\ LinkTimeout \in Nat
    BY HeartbeatTypes
  <1>2. /\ answers /\ pingAt # Never /\ pingAt' = Never
        /\ UNCHANGED <<clock, expiry, timerMap, over, object, answers>>
    BY DEF HandleMsgPong, AnswerDue, timer
  <1>3. Now' = Now
    BY <1>2 DEF Now
  <1>4. CASE object = "live"
    <2>1. activeTime' = Now /\ pinged' = FALSE
      BY <1>4 DEF HandleMsgPong
    <2>2. LinkTypeOK' /\ PongInv'
      BY <1>1, <1>2, <2>1 DEF LinkTypeOK, PongInv
    <2>3. SilenceInv' /\ SilentIsClosed'
      <3> SUFFICES ASSUME expiry # Never
                   PROVE  /\ \A t \in timerMap : t <= Now + LinkTimeout + Interval
                          /\ Now <= Now + MaxSilence
        BY <1>2, <1>3, <2>1 DEF SilenceInv, SilentIsClosed, MaxSilence
      <3>1. PICK t \in Nat : timerMap = {t} /\ t <= Now + Interval
        BY NextCheck
      <3>2. (During + Late) \div Second \in Nat
        <4>1. During + Late \in Nat /\ Second \in Nat \ {0}
          BY LinkAssumption
        <4> QED
          BY <4>1, Quotient
      <3> QED
        BY <1>1, <3>1, <3>2 DEF MaxSilence
    <2>4. OneCheckToCome' /\ HandlersInv'
      BY <1>1, <1>2, <1>3 DEF OneCheckToCome, HandlersInv
    <2> QED
      BY <2>2, <2>3, <2>4 DEF HeartbeatInv, LinkInv
  <1>5. CASE object # "live"
    <2>1. UNCHANGED <<activeTime, pinged>>
      BY <1>5 DEF HandleMsgPong
    <2>2. LinkTypeOK' /\ SilenceInv' /\ SilentIsClosed'
      BY <1>1, <1>2, <1>5, <2>1 DEF LinkTypeOK, SilenceInv, SilentIsClosed
    <2>3. PongInv'
      BY <1>1, <1>2, <1>5, <2>1 DEF PongInv
    <2>4. OneCheckToCome' /\ HandlersInv'
      BY <1>1, <1>2, <1>3 DEF OneCheckToCome, HandlersInv
    <2> QED
      BY <2>2, <2>3, <2>4 DEF HeartbeatInv, LinkInv
  <1> QED
    BY <1>4, <1>5

\* With no handler to come there is nothing to keep.
LEMMA CloseLogicStep ==
    ASSUME HeartbeatInv, CloseLogic PROVE HeartbeatInv'
  <1>1. LinkTypeOK /\ PongInv
    BY HeartbeatTypes
  <1>2. /\ over' = TRUE /\ timerMap' = {} /\ expiry' = Never
        /\ UNCHANGED <<clock, object, activeTime, answers, pingAt, pinged>>
    BY DEF CloseLogic, client
  <1>3. LinkTypeOK' /\ PongInv'
    BY <1>1, <1>2 DEF LinkTypeOK, PongInv
  <1> QED
    BY <1>2, <1>3 DEF HeartbeatInv, LinkInv, OneCheckToCome, SilentIsClosed, HandlersInv, SilenceInv

LEMMA AdvanceStep ==
    ASSUME HeartbeatInv, Advance PROVE HeartbeatInv'
  <1>1. /\ LinkTypeOK /\ HandlersInv /\ SilenceInv /\ PongInv
        /\ {Second, During, Interval, LinkTimeout} \subseteq Nat \ {0}
        /\ {Late, Answer} \subseteq Nat
    BY HeartbeatTypes
  <1>2. /\ expiry # Never => clock < expiry + Late
        /\ AnswerDue => clock < pingAt + Answer
        /\ clock' = clock + 1 /\ clock \in Nat /\ clock' \in Nat
        /\ UNCHANGED <<expiry, timerMap, over, object, activeTime, answers, pingAt, pinged>>
    BY <1>1 DEF Advance, timer, client, LinkTypeOK
  <1>3. LinkTypeOK'
    BY <1>1, <1>2 DEF LinkTypeOK
  <1>4. HandlersInv'
    BY <1>1, <1>2 DEF HandlersInv, LinkTypeOK
  <1>5. SilenceInv'
    BY <1>1, <1>2 DEF SilenceInv
  <1>6. PongInv'
    BY <1>1, <1>2 DEF PongInv, LinkTypeOK, AnswerDue
  <1>7. Now \in Nat /\ Now' \in Nat /\ Now <= Now'
    BY <1>1, <1>2, Quotient, QuotientOfSum DEF Now
  <1>8. OneCheckToCome'
    <2>1. expiry # Never => \E t \in Nat : timerMap = {t} /\ t <= Now + Interval
      BY NextCheck
    <2> QED
      BY <1>1, <1>2, <1>7, <2>1 DEF OneCheckToCome
  <1>9. SilentIsClosed'
    <2> SUFFICES ASSUME object = "live", expiry # Never PROVE Now' <= activeTime + MaxSilence
      BY <1>2 DEF SilentIsClosed, MaxSilence
    <2>1. PICK t \in timerMap : timerMap = {t}
      BY DEF HeartbeatInv, LinkInv, OneCheckToCome
    <2> DEFINE last == expiry - During
               late == expiry + Late - clock'
    <2>2. /\ last \in Nat /\ late \in Nat /\ expiry \in Nat /\ During + Late \in Nat
          /\ t \in Nat /\ activeTime \in Nat
      BY <1>1, <1>2 DEF HandlersInv, LinkTypeOK
    <2>3. last \div Second < t /\ t <= activeTime + LinkTimeout + Interval
      BY <1>1 DEF HandlersInv, SilenceInv
    <2>4. clock' + late = last + (During + Late)
      BY <1>1, <1>2, <2>2
    <2>5. clock' \div Second <= (clock' + late) \div Second
      BY <1>1, <1>2, <2>2, QuotientOfSum
    <2>6. (last + (During + Late)) \div Second <= last \div Second + (During + Late) \div Second + 1
      BY <1>1, <2>2, QuotientOfSum
    <2>7. /\ last \div Second \in Nat /\ (During + Late) \div Second \in Nat
          /\ (last + (During + Late)) \div Second \in Nat
      <3>1. last + (During + Late) \in Nat
        BY <2>2
      <3> HIDE DEF last, late
      <3> QED
        BY <1>1, <2>2, <3>1, Quotient
    <2>8. Now' <= (last + (During + Late)) \div Second
      BY <2>4, <2>5 DEF Now
    <2> HIDE DEF last, late
    <2> QED
      BY <1>1, <1>7, <2>2, <2>3, <2>6, <2>7, <2>8 DEF MaxSilence
  <1> QED
    BY <1>3, <1>4, <1>5, <1>6, <1>8, <1>9 DEF HeartbeatInv, LinkInv

LEMMA HeartbeatInit ==
    ASSUME LinkInit PROVE HeartbeatInv
  <1>1. /\ {Second, During, Interval, LinkTimeout} \subseteq Nat \ {0}
        /\ {Late, Answer} \subseteq Nat
    BY LinkAssumption
  <1>2. /\ clock \in Nat /\ expiry = clock + During /\ timerMap = {Now + Interval}
        /\ over = FALSE /\ object = "none" /\ activeTime = 0 /\ answers \in BOOLEAN
        /\ pingAt = Never /\ pinged = FALSE
    BY <1>1 DEF LinkInit
  <1>3. Now \in Nat
    BY <1>1, <1>2, Quotient DEF Now
  <1>4. LinkTypeOK
    <2>1. expiry \in Nat
      BY <1>1, <1>2
    <2>2. timerMap \subseteq Nat
      BY <1>1, <1>2, <1>3
    <2> QED
      BY <1>2, <2>1, <2>2 DEF LinkTypeOK
  <1>5. HandlersInv
    <2>1. expiry - During = clock
      BY <1>1, <1>2
    <2>2. (expiry - During) \div Second < Now + Interval
      BY <1>1, <1>3, <2>1 DEF Now
    <2> QED
      BY <1>1, <1>2, <2>2 DEF HandlersInv
  <1>6. OneCheckToCome
    BY <1>1, <1>2, <1>3 DEF OneCheckToCome
  <1> QED
    BY <1>2, <1>4, <1>5, <1>6 DEF HeartbeatInv, LinkInv, SilentIsClosed, SilenceInv, PongInv

\* The one check to come is neither too late for a silent client nor too early
\* for one that answers.
THEOREM HeartbeatInvariant == LinkSpec => []HeartbeatInv
  <1>1. LinkInit => HeartbeatInv
    BY HeartbeatInit
  <1>2. HeartbeatInv /\ [LinkNext]_linkVars => HeartbeatInv'
    <2>1. ASSUME HeartbeatInv, LinkNext PROVE HeartbeatInv'
      BY <2>1, ConnectStep, OnTimerStep, PongStep, CloseLogicStep, AdvanceStep DEF LinkNext
    <2>2. ASSUME HeartbeatInv, UNCHANGED linkVars PROVE HeartbeatInv'
      BY <2>2 DEF linkVars, timer, client, HeartbeatInv, LinkInv, LinkTypeOK, OneCheckToCome,
                  SilentIsClosed, HandlersInv, SilenceInv, PongInv, Now, MaxSilence
    <2> QED
      BY <2>1, <2>2
  <1> QED
    BY <1>1, <1>2, PTL DEF LinkSpec

\* The check goes on for ever, and a silent client is closed in time.
THEOREM LinkCorrect == LinkSpec => []LinkInv
  <1>1. HeartbeatInv => LinkInv
    BY DEF HeartbeatInv
  <1> QED
    BY <1>1, HeartbeatInvariant, PTL

\* A client that answers is never closed once it was pinged.
THEOREM PingedIsKept == LinkSpec => AnsweredInTime
  <1>1. HeartbeatInv /\ [LinkNext]_linkVars =>
          [object = "live" /\ object' = "closed" /\ answers => ~pinged]_linkVars
    <2> SUFFICES ASSUME HeartbeatInv, LinkNext, object = "live", object' = "closed", answers, pinged
                 PROVE  FALSE
      OBVIOUS
    <2>1. OnTimer
      BY DEF LinkNext, NewObject, HandleMsgPong, CloseLogic, Advance, client
    <2>2. expiry # Never
      BY <2>1 DEF OnTimer
    <2>3. PICK t \in Nat : timerMap = {t}
      BY <2>2, NextCheck
    <2>4. Now \in Nat /\ pingAt # Never
      BY HeartbeatTypes DEF PongInv
    <2>5. ASSUME Now < t PROVE FALSE
      <3>1. {u \in timerMap : u > Now} = timerMap
        BY <2>3, <2>4, <2>5
      <3> QED
        BY <2>1, <3>1 DEF OnTimer
    <2> QED
      BY <2>2, <2>3, <2>4, <2>5, AnswerIsFirst
  <1> QED
    BY <1>1, HeartbeatInvariant, PTL DEF LinkSpec, AnsweredInTime
=============================================================================
