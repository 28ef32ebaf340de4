--------------------------- MODULE SerialExecutor ---------------------------
(***************************************************************************)
(* What a strand promises: the jobs it accepts are executed one at a time, *)
(* each once, in the order they were accepted; the job that closes it is   *)
(* the last one.                                                           *)
(***************************************************************************)
EXTENDS Naturals, Sequences

CONSTANTS
    Jobs,
    Closers  \* the jobs that close it

VARIABLES
    accepted,  \* the jobs taken, in order
    executed,  \* the jobs started, in order
    busy,      \* is one of them running?
    closed     \* no more jobs are taken

vars == <<accepted, executed, busy, closed>>

Init ==
    /\ accepted = <<>>
    /\ executed = <<>>
    /\ busy = FALSE
    /\ closed = FALSE

Accept(job) ==
    /\ ~closed
    /\ accepted' = Append(accepted, job)
    /\ IF job \in Closers THEN closed' = TRUE ELSE UNCHANGED closed
    /\ UNCHANGED <<executed, busy>>

Start ==
    /\ ~busy
    /\ Len(executed) < Len(accepted)
    /\ executed' = Append(executed, accepted[Len(executed) + 1])
    /\ busy' = TRUE
    /\ UNCHANGED <<accepted, closed>>

Finish ==
    /\ busy
    /\ busy' = FALSE
    /\ UNCHANGED <<accepted, executed, closed>>

Next == (\E job \in Jobs : Accept(job)) \/ Start \/ Finish

Spec == Init /\ [][Next]_vars
=============================================================================
