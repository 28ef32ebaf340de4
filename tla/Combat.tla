-------------------------------- MODULE Combat --------------------------------
(***************************************************************************)
(* A battle of two camps (logic_work/battle): the fighters run along a     *)
(* speed bar, the first to fill it attacks one living enemy, until a camp  *)
(* is dead or the rounds are over.  One call of init or setLoadingEnd runs *)
(* as many rounds as it can: roundStart, roundFight and roundEnd call each *)
(* other, so each is an action here and `call` is the one that runs next.  *)
(*                                                                         *)
(* A camp of a user stops the battle at its turn: setOperateSkill and      *)
(* setPlayEnd do nothing yet (combat.cpp:68-76), and there is no timer.    *)
(* Fighters' uids are the numbers of Fighters; the camps are 1 and 2, as   *)
(* in BATTLE_CAMP.  Numbers stay far from 2^24, so that the float of       *)
(* combat.cpp:287 is exact and nothing wraps.                              *)
(***************************************************************************)
EXTENDS Integers, FiniteSets

CONSTANTS
    Fighters,                  \* uids of the fighters
    Hps, Atks, Defs, Speeds,   \* the attributes they may have
    BarFactor,                 \* of GET_SPEED_BAR
    AtkPercent,                \* the parameter of BATTLE_ELEMENT_NORMAL_ATK
    MaxRound,                  \* MAX_ROUND
    RunInvalid                 \* RUN_SPEED_BAR_INVALID

ASSUME AttributeAssumption ==
    /\ Fighters \subseteq Nat /\ IsFiniteSet(Fighters)
    /\ Hps \subseteq Nat /\ Atks \subseteq Nat /\ Defs \subseteq Nat /\ Speeds \subseteq Nat
    /\ BarFactor \in Nat \ {0} /\ AtkPercent \in Nat
    /\ MaxRound \in Nat \ {0} /\ RunInvalid \in Nat

\* No fighter is so slow that it needs RunInvalid strides for the bar.
ASSUME SpeedAssumption ==
    \A s, t \in Speeds : s > 0 => BarFactor * t <= (RunInvalid - 1) * s

VARIABLES
    step, state,        \* m_step, m_state
    round,              \* m_round
    camp, attr,         \* per fighter: m_camp, m_baseAttrMap
    hp,                 \* per fighter: m_attr.hp
    bar, overflow,      \* per fighter: curSpeedBar, overflowSpeedBar
    type, campState,    \* per camp: m_type, m_state
    speedBar,           \* m_speedBar
    cur,                \* m_curOpearteUnit
    target,             \* its m_curOpearte.targetVec
    result,             \* m_result.ret
    call,               \* the member function about to run
    ticks, turns        \* history: strides run so far; turns taken per fighter

Steps        == {"init", "loading", "round", "end"}
States       == {"init", "waiting_operate", "fighting", "playing"}
CampStates   == {"loading", "loading_end", "operate", "operate_end", "play", "play_end"}
CampTypes    == {"robot", "user"}
Results      == {"camp1_defeat", "camp2_defeat", "all_defeat", "timeout"}

given  == <<camp, attr, type>>
places == <<bar, overflow, ticks>>
vars   == <<step, state, round, given, hp, places, campState, speedBar, cur,
            target, result, call, turns>>

Camps     == {1, 2}
NoFighter == -1
Alive     == {f \in Fighters : hp[f] > 0}
AliveIn(c) == {f \in Alive : camp[f] = c}
Speed(f)  == attr[f].speed
Total(f)  == bar[f] + overflow[f]

SafeSub(a, b) == IF a >= b THEN a - b ELSE 0
CeilDiv(a, b) == (a + b - 1) \div b

TypeOK ==
    /\ step \in Steps
    /\ state \in States
    /\ round \in 0 .. MaxRound
    /\ camp \in [Fighters -> Camps]
    /\ attr \in [Fighters -> [hp : Hps, atk : Atks, def : Defs, speed : Speeds]]
    /\ hp \in [Fighters -> Nat]
    /\ bar \in [Fighters -> 0 .. speedBar]
    /\ overflow \in [Fighters -> Nat]
    /\ type \in [Camps -> CampTypes]
    /\ campState \in [Camps -> CampStates]
    /\ speedBar \in Nat
    /\ cur \in Fighters \cup {NoFighter}
    /\ target \in Fighters \cup {NoFighter}
    /\ result \in Results \cup {"none"}
    /\ call \in {"none", "steploadingEnd", "roundStart", "roundFight", "roundEnd", "crashed"}
    /\ ticks \in Nat
    /\ turns \in [Fighters -> Nat]

-----------------------------------------------------------------------------
\* checkInit: two camps, each with a fighter.
CheckInit(campOf) == \A c \in Camps : \E f \in Fighters : campOf[f] = c

\* A battle about to be set up by init, with data that checkInit accepts.
Init ==
    /\ step = "init"
    /\ state = "init"
    /\ round = 0
    /\ camp \in {campOf \in [Fighters -> Camps] : CheckInit(campOf)}
    /\ attr \in [Fighters -> [hp : Hps, atk : Atks, def : Defs, speed : Speeds]]
    /\ hp = [f \in Fighters |-> attr[f].hp]
    /\ bar = [f \in Fighters |-> 0]
    /\ overflow = [f \in Fighters |-> 0]
    /\ type \in [Camps -> CampTypes]
    /\ campState = [c \in Camps |-> IF type[c] = "user" THEN "loading" ELSE "loading_end"]
    /\ speedBar = 0
    /\ cur = NoFighter
    /\ target = NoFighter
    /\ result = "none"
    /\ call = "none"
    /\ ticks = 0
    /\ turns = [f \in Fighters |-> 0]

AllCamps(states, s) == \A c \in Camps : states[c] = s

\* Combat::init.
InitCombat ==
    /\ step = "init"
    /\ step' = "loading"
    /\ call' = IF AllCamps(campState, "loading_end") THEN "steploadingEnd" ELSE "none"
    /\ UNCHANGED <<state, round, given, hp, places, campState, speedBar, cur,
                   target, result, turns>>

\* setLoadingEnd, called for the player of camp c.
SetLoadingEnd(c) ==
    /\ call = "none"
    /\ step = "loading"
    /\ campState' = [campState EXCEPT ![c] = "loading_end"]
    /\ call' = IF AllCamps(campState', "loading_end") THEN "steploadingEnd" ELSE "none"
    /\ UNCHANGED <<step, state, round, given, hp, places, speedBar, cur, target,
                   result, turns>>

\* The speed of the fastest living fighter, 0 if there is none.
IsMaxSpeed(s) ==
    /\ \A f \in Alive : Speed(f) <= s
    /\ s = 0 \/ \E f \in Alive : Speed(f) = s

\* initSpeedBar; the bar stays 0 when it fails.
InitSpeedBar ==
    \E s \in Speeds \cup {0} : IsMaxSpeed(s) /\ speedBar' = BarFactor * s

\* steploadingEnd: without a fighter that moves, the battle is in its rounds
\* but none begins.
StepLoadingEnd ==
    /\ call = "steploadingEnd"
    /\ step' = "round"
    /\ InitSpeedBar
    /\ IF speedBar' > 0
       THEN campState' = [c \in Camps |-> "operate_end"] /\ call' = "roundStart"
       ELSE call' = "none" /\ UNCHANGED campState
    /\ UNCHANGED <<state, round, given, hp, places, cur, target, result, turns>>

-----------------------------------------------------------------------------
\* Faulty: rounded down.
TimesRoundedDown(f) == SafeSub(speedBar, Total(f)) \div Speed(f)

\* The strides fighter f still needs to fill the bar.
Times(f) == CeilDiv(SafeSub(speedBar, Total(f)), Speed(f))

\* The strides of this round, runMinTimes: the least that fills a bar.
RunMinTimes ==
    LET found == {Times(f) : f \in {g \in Alive : Speed(g) > 0}} \cup {RunInvalid} IN
    CHOOSE n \in found : \A t \in found : n <= t

\* Where fighter f is after n strides.
Moved(f, n) == n * Speed(f) + Total(f)

\* Faulty: what runs over the bar is lost.
AdvanceWithoutOverflow(n) ==
    /\ bar' = [f \in Fighters |->
                  IF f \in Alive
                  THEN IF Moved(f, n) > speedBar THEN speedBar ELSE Moved(f, n)
                  ELSE bar[f]]
    /\ UNCHANGED overflow

\* The second loop of runSpeedBar: all the living advance.
Advance(n) ==
    /\ bar' = [f \in Fighters |->
                  IF f \in Alive
                  THEN IF Moved(f, n) > speedBar THEN speedBar ELSE Moved(f, n)
                  ELSE bar[f]]
    /\ overflow' = [f \in Fighters |->
                       IF f \in Alive THEN SafeSub(Moved(f, n), speedBar) ELSE overflow[f]]

\* compareSpeedBar, after n strides: is f behind g?
Behind(f, g, n) ==
    \/ Moved(f, n) < Moved(g, n)
    \/ Moved(f, n) = Moved(g, n) /\ camp[f] < camp[g]
    \/ Moved(f, n) = Moved(g, n) /\ camp[f] = camp[g] /\ f <= g

\* runSpeedBar.
RunSpeedBar ==
    LET n == RunMinTimes
        reached == {f \in Alive : Moved(f, n) >= speedBar}
    IN  IF n = RunInvalid
        THEN UNCHANGED <<places, cur>>
        ELSE /\ Advance(n)
             /\ ticks' = ticks + n
             /\ IF reached = {}
                THEN UNCHANGED cur
                ELSE cur' = CHOOSE f \in reached : \A g \in reached \ {f} : Behind(g, f, n)

\* The camp getDefaultSkillTarget attacks.
TargetCamp(f) == IF camp[f] = 1 THEN 2 ELSE 1

\* Faulty: any living fighter is a target.
ChooseTargetAnywhere(f) == target' \in Alive

\* getDefaultSkillTarget: one of the living of the other camp, if any.
ChooseTarget(f) ==
    LET enemies == AliveIn(TargetCamp(f)) IN
    IF enemies = {} THEN target' = NoFighter ELSE target' \in enemies

\* Faulty: a robot's camp is not set to have operated.
AutoFightKeepsState ==
    IF cur' = NoFighter
    THEN UNCHANGED target /\ campState' = [c \in Camps |-> "operate_end"]
    ELSE /\ campState' = [c \in Camps |-> IF c = camp[cur'] THEN "operate" ELSE "operate_end"]
         /\ IF type[camp[cur']] = "user" THEN UNCHANGED target ELSE ChooseTarget(cur')

\* autoFight, with the acting camp's state "operate" just set by roundStart:
\* a robot's fighter chooses its target, a user's is waited for.
AutoFight ==
    IF cur' = NoFighter
    THEN UNCHANGED target /\ campState' = [c \in Camps |-> "operate_end"]
    ELSE IF type[camp[cur']] = "user"
    THEN /\ UNCHANGED target
         /\ campState' = [c \in Camps |-> IF c = camp[cur'] THEN "operate" ELSE "operate_end"]
    ELSE ChooseTarget(cur') /\ campState' = [c \in Camps |-> "operate_end"]

\* roundStart.
RoundStart ==
    /\ call = "roundStart"
    /\ round' = round + 1
    /\ RunSpeedBar
    /\ state' = "waiting_operate"
    /\ AutoFight
    /\ call' = IF AllCamps(campState', "operate_end") THEN "roundFight" ELSE "none"
    /\ UNCHANGED <<step, given, hp, speedBar, result, turns>>

-----------------------------------------------------------------------------
Damage(f, g) == SafeSub((attr[f].atk * AtkPercent) \div 100, attr[g].def)

\* Faulty: the difference is not saturated, a strong defence heals.
DoOperateUnsaturated ==
    IF cur = NoFighter \/ target = NoFighter
    THEN UNCHANGED hp
    ELSE hp' = [hp EXCEPT ![target] =
                   SafeSub(@, (attr[cur].atk * AtkPercent) \div 100 - attr[target].def)]

\* CombatCalc::doOperate with the only skill there is: elementNormalAtk.
DoOperate ==
    IF cur = NoFighter \/ target = NoFighter
    THEN UNCHANGED hp
    ELSE hp' = [hp EXCEPT ![target] = SafeSub(@, Damage(cur, target))]

\* roundFight.
RoundFight ==
    /\ call = "roundFight"
    /\ DoOperate
    /\ state' = "playing"
    /\ campState' = [c \in Camps |-> IF type[c] = "user" THEN "play" ELSE "play_end"]
    /\ call' = IF AllCamps(campState', "play_end") THEN "roundEnd" ELSE "none"
    /\ UNCHANGED <<step, round, given, places, speedBar, cur, target, result, turns>>

\* Faulty: the rounds are counted first.
OutcomeByRounds ==
    CASE round >= MaxRound -> "timeout"
      [] AliveIn(1) = {} /\ AliveIn(2) # {} -> "camp1_defeat"
      [] AliveIn(1) # {} /\ AliveIn(2) = {} -> "camp2_defeat"
      [] OTHER -> "none"

\* checkCombatEnd.
Outcome ==
    CASE AliveIn(1) = {} /\ AliveIn(2) = {} -> "all_defeat"
      [] AliveIn(1) = {} /\ AliveIn(2) # {} -> "camp1_defeat"
      [] AliveIn(1) # {} /\ AliveIn(2) = {} -> "camp2_defeat"
      [] AliveIn(1) # {} /\ AliveIn(2) # {} /\ round >= MaxRound -> "timeout"
      [] OTHER -> "none"

\* roundEnd, and combatEnd.  Without a fighter its first line follows a null
\* pointer.  The overflow of the fighter stays for its next run.
RoundEnd ==
    /\ call = "roundEnd"
    /\ IF cur = NoFighter
       THEN call' = "crashed" /\ UNCHANGED <<step, bar, cur, target, result, turns>>
       ELSE /\ bar' = [bar EXCEPT ![cur] = 0]
            /\ turns' = [turns EXCEPT ![cur] = @ + 1]
            /\ cur' = NoFighter
            /\ target' = NoFighter
            /\ result' = Outcome
            /\ IF Outcome = "none"
               THEN call' = "roundStart" /\ UNCHANGED step
               ELSE call' = "none" /\ step' = "end"
    /\ UNCHANGED <<state, round, given, hp, overflow, ticks, campState, speedBar>>

-----------------------------------------------------------------------------
\* What runs by itself once it was called.
Run == StepLoadingEnd \/ RoundStart \/ RoundFight \/ RoundEnd

Next == InitCombat \/ Run \/ \E c \in Camps : SetLoadingEnd(c)

\* A call that was made returns.
Spec == Init /\ [][Next]_vars /\ WF_vars(InitCombat) /\ WF_vars(Run)

-----------------------------------------------------------------------------
(* Every round has a fighter to act: the one that fills the bar first.     *)
(* roundEnd follows m_curOpearteUnit without a test, and runSpeedBar finds *)
(* nobody when no living fighter moves, so that whoever moves must survive *)
(* its own attacks and the strides must be rounded the right way.          *)
SomeoneActs ==
    /\ call # "crashed"
    /\ step = "round" /\ state # "init" /\ call # "roundStart" => cur # NoFighter

(* Turns follow speed: what a living fighter ran, the bars it filled and   *)
(* used and the place it has now, is its speed times the strides of the    *)
(* battle.  Nothing is lost where a fighter runs over the bar or where     *)
(* two fill it at once.                                                    *)
TurnsFollowSpeed ==
    \A f \in Alive : turns[f] * speedBar + Total(f) = ticks * Speed(f)

(* Hit points only fall, only those of the target, an enemy of a living    *)
(* fighter that has filled its bar.                                        *)
OnlyEnemiesAreHurt ==
    [][\A f \in Fighters : hp'[f] # hp[f] =>
          /\ hp'[f] < hp[f]
          /\ cur \in Alive
          /\ camp[cur] # camp[f]
          /\ bar[cur] = speedBar]_vars

(* The result tells what happened: the camp that is dead has lost, a camp  *)
(* is never told to be lost with a fighter alive, both never die, and time *)
(* is out only at the last round with both alive.                          *)
ResultIsHonest ==
    step = "end" =>
        /\ result \in {"camp1_defeat", "camp2_defeat", "timeout"}
        /\ (result = "camp1_defeat") <=> (AliveIn(1) = {})
        /\ (result = "camp2_defeat") <=> (AliveIn(2) = {})
        /\ result = "timeout" => round = MaxRound

CombatInv == TypeOK /\ SomeoneActs /\ ResultIsHonest

(* A battle of robots in which someone moves comes to its end.             *)
RobotBattleEnds ==
    (step = "round" /\ speedBar > 0 /\ \A c \in Camps : type[c] = "robot") ~> (step = "end")

-----------------------------------------------------------------------------
(* The inductive strengthening of the safety properties.                   *)

\* Before the rounds nobody has moved, and no round is called.
BeforeRounds ==
    step \in {"init", "loading"} =>
        /\ state = "init" /\ round = 0 /\ speedBar = 0 /\ ticks = 0
        /\ cur = NoFighter /\ target = NoFighter
        /\ \A f \in Fighters : bar[f] = 0 /\ overflow[f] = 0 /\ turns[f] = 0
        /\ call = "none" \/ (step = "loading" /\ call = "steploadingEnd")

\* What runs in the rounds: while a call is open, somebody alive can move.
InRounds ==
    /\ step = "round" =>
          /\ call \in {"none", "roundStart", "roundFight", "roundEnd"}
          /\ state = "init" => call \in {"none", "roundStart"}
          /\ call # "none" => speedBar > 0 /\ \E f \in Alive : Speed(f) > 0
          /\ call = "roundStart" => cur = NoFighter /\ target = NoFighter /\ round < MaxRound
    /\ step = "end" => call = "none"

\* The acting fighter is alive, moves, has filled its bar and aims at an enemy.
Acting ==
    cur # NoFighter =>
        /\ cur \in Alive /\ Speed(cur) > 0 /\ bar[cur] = speedBar
        /\ target # NoFighter => camp[target] # camp[cur]

SpeedBarFits == speedBar = 0 \/ \E s \in Speeds : speedBar = BarFactor * s

BattleInv ==
    CombatInv /\ TurnsFollowSpeed /\ BeforeRounds /\ InRounds /\ Acting /\ SpeedBarFits

=============================================================================
