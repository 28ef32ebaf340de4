------------------------------ MODULE LinkCheck ------------------------------
(***************************************************************************)
(* The heartbeat of single_server: ObjectManager::onTimer pings a client   *)
(* that has been silent and closes one that stays silent                   *)
(* (sentry_manager.cpp/.hpp), on TimerManager's one-shot timers            *)
(* (time_manager.cpp), which a deadline_timer of fixed granularity drives. *)
(*                                                                         *)
(* Time is counted in units of 1/Second seconds.  The code compares whole  *)
(* seconds (getCurrentSecond), while the deadline_timer is set from the    *)
(* moment its handler ends, a little later each time.  Everything here     *)
(* runs on the main io_service's thread; the client and the network are    *)
(* the time between a ping and the handling of its pong.                   *)
(***************************************************************************)
EXTENDS Integers

CONSTANTS
    Second,       \* units of time per second
    During,       \* TIMER_MANAGER_DURING, in units
    Late,         \* the most a handler of the io_service is late, in units
    Answer,       \* the most a client that answers takes, in units
    Interval,     \* seconds between two checks
    ActiveTime,   \* LINK_ACTIVE_TIME, seconds
    LinkTimeout,  \* LINK_TIMEOUT, seconds
    MaxTime       \* bound: the time looked at, in units

ASSUME LinkAssumption ==
    /\ {Second, During, Interval, ActiveTime, LinkTimeout} \subseteq Nat \ {0}
    /\ {Late, Answer, MaxTime} \subseteq Nat

\* A client that answers has done so before the next check.
ASSUME AnswerAssumption == Answer <= (Interval - 1) * Second

VARIABLES
    clock,       \* the time, in units
    expiry,      \* when the deadline_timer expires, or Never
    timerMap,    \* m_timerMap: the run times of the timers registered
    over,        \* m_over of s_timer
    object,      \* "none", "live", "closed" (kicked)
    activeTime,  \* m_activeTime, seconds
    answers,     \* does this client answer pings?
    pingAt,      \* when the first ping not answered yet was sent, or Never
    pinged       \* history: was there a ping since activeTime?

timer  == <<expiry, timerMap, over>>
client == <<object, activeTime, answers, pingAt, pinged>>
linkVars   == <<clock, timer, client>>

Never == -1
Now   == clock \div Second   \* getCurrentSecond

LinkTypeOK ==
    /\ clock \in Nat
    /\ expiry \in Nat \cup {Never}
    /\ timerMap \subseteq Nat
    /\ over \in BOOLEAN
    /\ object \in {"none", "live", "closed"}
    /\ activeTime \in Nat
    /\ answers \in BOOLEAN
    /\ pingAt \in Nat \cup {Never}
    /\ pinged \in BOOLEAN

\* TimerManager::init and ObjectManager::init, at any fraction of a second.
LinkInit ==
    /\ clock \in 0 .. Second - 1
    /\ expiry = clock + During
    /\ timerMap = {Now + Interval}
    /\ over = FALSE
    /\ object = "none"
    /\ activeTime = 0
    /\ answers \in BOOLEAN
    /\ pingAt = Never
    /\ pinged = FALSE

\* The Object's constructor: a client connects.
NewObject ==
    /\ object = "none"
    /\ object' = "live"
    /\ activeTime' = Now
    /\ UNCHANGED <<clock, timer, answers, pingAt, pinged>>

\* isTimeout and the test of checkActive.
IsTimeout == activeTime + LinkTimeout < Now
IsSilent  == activeTime + ActiveTime < Now

\* checkActive: a ping to a client that has been silent.
Ping ==
    IF object = "live" /\ IsSilent
    THEN pinged' = TRUE /\ pingAt' = IF pingAt = Never THEN clock ELSE pingAt
    ELSE UNCHANGED <<pingAt, pinged>>

\* Faulty: a client that was pinged is left alone.
CheckLinkOnce ==
    IF object = "live" /\ IsTimeout /\ ~pinged
    THEN object' = "closed" /\ UNCHANGED <<pingAt, pinged>>
    ELSE Ping /\ UNCHANGED object

\* ObjectManager::onTimer, for the client of this model.
CheckLink ==
    IF object = "live" /\ IsTimeout
    THEN object' = "closed" /\ UNCHANGED <<pingAt, pinged>>
    ELSE Ping /\ UNCHANGED object

\* Faulty: the timer is not registered again.
OnTimerOnce ==
    /\ expiry # Never
    /\ clock >= expiry
    /\ expiry' = clock + During
    /\ timerMap' = {t \in timerMap : t > Now}
    /\ IF \E t \in timerMap : t <= Now
       THEN CheckLink
       ELSE UNCHANGED <<object, pingAt, pinged>>
    /\ UNCHANGED <<clock, over, activeTime, answers>>

\* TimerManager::onTimer: the timers that are due are taken out and run (once
\* each; s_timer's function registers it again), then the deadline_timer is
\* set again.
OnTimer ==
    /\ expiry # Never
    /\ clock >= expiry
    /\ expiry' = clock + During
    /\ LET later == {t \in timerMap : t > Now}
       IN IF later # timerMap /\ ~over
          THEN timerMap' = later \cup {Now + Interval} /\ CheckLink
          ELSE timerMap' = later /\ UNCHANGED <<object, pingAt, pinged>>
    /\ UNCHANGED <<clock, over, activeTime, answers>>

\* Faulty: the time is not taken.
HandleMsgPongIgnored ==
    /\ pingAt # Never
    /\ answers
    /\ pingAt' = Never
    /\ UNCHANGED <<clock, timer, object, activeTime, answers, pinged>>

\* The client's handleMsgPing: a ping that was sent is answered.
AnswerDue == answers /\ pingAt # Never

\* handleMsgPong, of a client that may have been closed meanwhile.
HandleMsgPong ==
    /\ AnswerDue
    /\ IF object = "live"
       THEN activeTime' = Now /\ pinged' = FALSE
       ELSE UNCHANGED <<activeTime, pinged>>
    /\ pingAt' = Never
    /\ UNCHANGED <<clock, timer, object, answers>>

\* closeLogic: s_timer is over, TimerManager::cancel forgets everything.
CloseLogic ==
    /\ expiry # Never
    /\ over' = TRUE
    /\ timerMap' = {}
    /\ expiry' = Never
    /\ UNCHANGED <<clock, client>>

\* Time passes, but no handler is later than Late and no answer than Answer.
Advance ==
    /\ clock < MaxTime
    /\ expiry # Never => clock < expiry + Late
    /\ AnswerDue => clock < pingAt + Answer
    /\ clock' = clock + 1
    /\ UNCHANGED <<timer, client>>

LinkNext == NewObject \/ OnTimer \/ HandleMsgPong \/ CloseLogic \/ Advance

LinkSpec == LinkInit /\ [][LinkNext]_linkVars

-----------------------------------------------------------------------------
(* Properties.                                                             *)

\* A check may come later than Interval after the last, by one second with the
\* code's During and Second: a second in which no handler ran puts it off to
\* the next.
MaxSilence == LinkTimeout + Interval + (During + Late) \div Second

\* A client that does not answer is closed, at the latest at the first check
\* after the timeout.
SilentIsClosed ==
    object = "live" /\ expiry # Never => Now <= activeTime + MaxSilence

\* A client that answers its pings is never closed after one: the answer
\* counts before the next check.  (It may be closed before the first one, when
\* a skipped second moves a check from the 15th to the 16th second of silence.)
AnsweredInTime ==
    [][object = "live" /\ object' = "closed" /\ answers => ~pinged]_linkVars

\* The check goes on for ever: exactly one run of s_timer is to come, and it
\* is at most Interval seconds away.
OneCheckToCome ==
    expiry # Never =>
        \E t \in timerMap : timerMap = {t} /\ t <= Now + Interval

LinkInv == LinkTypeOK /\ OneCheckToCome /\ SilentIsClosed

-----------------------------------------------------------------------------
(* The inductive strengthening of the safety properties.                   *)

\* The last handler left only checks of later seconds, and the next handler is
\* not late.
HandlersInv ==
    expiry # Never =>
        /\ ~over
        /\ During <= expiry /\ clock <= expiry + Late
        /\ \A t \in timerMap : (expiry - During) \div Second < t

\* The check to come is early enough to close the client in time.
SilenceInv ==
    object = "live" /\ expiry # Never =>
        \A t \in timerMap : t <= activeTime + LinkTimeout + Interval

\* A ping that is not answered yet is of the last check, and the answer comes
\* before the next one; a client that was pinged and kept owes an answer.
PongInv ==
    answers =>
        /\ pingAt # Never /\ expiry # Never =>
              /\ clock <= pingAt + Answer
              /\ \A t \in timerMap : t = pingAt \div Second + Interval
        /\ pinged /\ object # "closed" => object = "live" /\ pingAt # Never

HeartbeatInv == LinkInv /\ HandlersInv /\ SilenceInv /\ PongInv
=============================================================================
