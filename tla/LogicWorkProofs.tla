--------------------------- MODULE LogicWorkProofs ---------------------------
(***************************************************************************)
(* Proofs about the two halves of logic_work: Combat, for any fighters and *)
(* attributes, and NineMap, for grids of any size.                         *)
(***************************************************************************)
EXTENDS Combat, NineMap, FiniteSetTheorems, TLAPS

-----------------------------------------------------------------------------
(* Numbers and orders.                                                     *)

LEMMA MulMonotone ==
    ASSUME NEW a \in Int, NEW b \in Int, a <= b, NEW c \in Nat
    PROVE  a * c <= b * c /\ a * c \in Int /\ b * c \in Int
  OBVIOUS

LEMMA MulNat ==
    ASSUME NEW a \in Nat, NEW b \in Nat
    PROVE  a * b \in Nat
  OBVIOUS

LEMMA Division ==
    ASSUME NEW a \in Nat, NEW b \in Nat, NEW q \in Nat, NEW r \in Nat, r < b, a = b * q + r
    PROVE  a \div b = q /\ a % b = r
  <1>1. a % b = r
    BY Z3
  <1>2. a \div b = q
    <2>1. b > 0 /\ b * q <= a /\ a < b * q + b
      BY MulNat
    <2> QED
      BY ONLY <2>1, a \in Nat, b \in Nat, q \in Nat
  <1> QED
    BY <1>1, <1>2

\* CeilDiv is the least number of parts of b that make up a.
LEMMA CeilDivides ==
    ASSUME NEW a \in Nat, NEW b \in Nat \ {0}
    PROVE  /\ CeilDiv(a, b) \in Nat
           /\ a <= CeilDiv(a, b) * b
           /\ CeilDiv(a, b) * b <= a + b - 1
  <1> DEFINE q == (a + b - 1) \div b
  <1>1. q \in Nat /\ q * b <= a + b - 1 /\ a + b - 1 < q * b + b
    OBVIOUS
  <1>2. q * b \in Nat
    BY <1>1, MulNat
  <1> HIDE DEF q
  <1>3. a <= q * b
    BY <1>1, <1>2
  <1> QED
    BY <1>1, <1>3 DEF CeilDiv, q

LEMMA CeilDivBound ==
    ASSUME NEW a \in Nat, NEW b \in Nat \ {0}, NEW r \in Nat, a <= (r - 1) * b
    PROVE  CeilDiv(a, b) < r
  <1> DEFINE q == CeilDiv(a, b)
  <1>1. q \in Nat /\ q * b <= a + b - 1
    BY CeilDivides
  <1> HIDE DEF q
  <1>2. (r - 1) * b + b = r * b /\ r * b \in Nat /\ (r - 1) * b \in Int
    OBVIOUS
  <1>3. SUFFICES ASSUME q >= r PROVE FALSE
    BY <1>1 DEF q
  <1>4. r * b <= q * b /\ q * b \in Int
    BY <1>1, <1>3, MulMonotone
  <1> QED
    BY <1>1, <1>2, <1>4

\* A finite set has an element that comes last in a total order.
LEMMA LastOfOrder ==
    ASSUME NEW S, IsFiniteSet(S), S # {}, NEW R,
           \A x, y \in S : x = y \/ <<x, y>> \in R \/ <<y, x>> \in R,
           \A x, y, z \in S : <<x, y>> \in R /\ <<y, z>> \in R => <<x, z>> \in R
    PROVE  \E m \in S : \A y \in S \ {m} : <<y, m>> \in R
  <1> DEFINE Last(T, m) == \A y \in T \ {m} : <<y, m>> \in R
             Bad == {T \in FiniteSubsetsOf(S) : T # {} /\ ~ \E m \in T : Last(T, m)}
  <1>1. IsWellFoundedOn(StrictSubsetOrdering(S), FiniteSubsetsOf(S))
    BY FS_StrictSubsetOrderingWellFounded
  <1>2. Bad = {}
    <2>1. SUFFICES ASSUME Bad # {} PROVE FALSE
      OBVIOUS
    <2>2. Bad \subseteq FiniteSubsetsOf(S)
      OBVIOUS
    <2> HIDE DEF Bad
    <2>3. PICK T \in Bad : \A U \in Bad : ~ (<<U, T>> \in StrictSubsetOrdering(S))
      BY <1>1, <2>1, <2>2, WFMin
    <2>4. /\ T \in SUBSET S /\ IsFiniteSet(T) /\ T # {}
          /\ ~ \E m \in T : Last(T, m)
      BY <2>3 DEF Bad, FiniteSubsetsOf
    <2>5. PICK x \in T : TRUE
      BY <2>4
    <2> DEFINE U == T \ {x}
    <2>6. U \in SUBSET S /\ IsFiniteSet(U) /\ U # T
      BY <2>4, <2>5, FS_RemoveElement
    <2>7. <<U, T>> \in StrictSubsetOrdering(S)
      BY <2>4, <2>6 DEF StrictSubsetOrdering
    <2>8. U = {} \/ \E m \in U : Last(U, m)
      BY <2>3, <2>6, <2>7 DEF Bad, FiniteSubsetsOf
    <2>9. CASE U = {}
      BY <2>4, <2>5, <2>9
    <2>5a. ASSUME NEW m \in U, Last(U, m) PROVE FALSE
      <3>1. CASE <<x, m>> \in R
        BY <2>4, <2>5a, <3>1
      <3>2. CASE <<m, x>> \in R
        <4>1. \A y \in T \ {x} : <<y, x>> \in R
          BY <2>4, <2>5, <2>5a, <3>2
        <4> QED
          BY <2>4, <2>5, <4>1
      <3> QED
        BY <2>4, <2>5, <3>1, <3>2
    <2> QED
      BY <2>8, <2>9, <2>5a
  <1>3. S \in FiniteSubsetsOf(S)
    BY DEF FiniteSubsetsOf
  <1> QED
    BY <1>2, <1>3

LEMMA LeastOfNumbers ==
    ASSUME NEW S \in SUBSET Nat, IsFiniteSet(S), S # {}
    PROVE  \E n \in S : \A m \in S : n <= m
  <1> DEFINE R == {p \in Nat \X Nat : p[1] >= p[2]}
  <1>1. \A x, y \in Nat : <<x, y>> \in R <=> x >= y
    OBVIOUS
  <1> HIDE DEF R
  <1>2. \A x, y \in S : x \in Nat /\ y \in Nat /\ (<<x, y>> \in R <=> x >= y)
    BY <1>1, Zenon
  <1>a. \A x, y \in Nat : x >= y \/ y >= x
    OBVIOUS
  <1>b. \A x, y, z \in Nat : x >= y /\ y >= z => x >= z
    OBVIOUS
  <1>3. \A x, y \in S : x = y \/ <<x, y>> \in R \/ <<y, x>> \in R
    BY <1>2, <1>a, Zenon
  <1>4. \A x, y, z \in S : <<x, y>> \in R /\ <<y, z>> \in R => <<x, z>> \in R
    BY <1>2, <1>b, Zenon
  <1>5. PICK m \in S : \A y \in S \ {m} : <<y, m>> \in R
    BY <1>3, <1>4, LastOfOrder
  <1>6. \A y \in S : m <= y
    <2> TAKE y \in S
    <2>1. m \in Nat /\ y \in Nat
      OBVIOUS
    <2>2. m = y \/ m <= y
      <3>1. m = y \/ <<y, m>> \in R
        BY <1>5
      <3> QED
        BY <1>2, <2>1, <3>1
    <2> QED
      BY <2>1, <2>2
  <1> QED
    BY <1>6

-----------------------------------------------------------------------------
(* Combat: a round has a fighter.                                          *)

LEMMA NumbersFit ==
    ASSUME TypeOK, NEW f \in Fighters
    PROVE  /\ Speed(f) \in Nat /\ Speed(f) \in Speeds /\ hp[f] \in Nat
           /\ bar[f] \in Nat /\ overflow[f] \in Nat /\ Total(f) \in Nat
           /\ \A n \in Nat : n * Speed(f) \in Nat /\ Moved(f, n) \in Nat
  <1>1. Speed(f) \in Speeds /\ Speed(f) \in Nat
    BY AttributeAssumption DEF TypeOK, Speed
  <1>2. speedBar \in Nat /\ bar[f] \in 0 .. speedBar /\ overflow[f] \in Nat /\ hp[f] \in Nat
    BY DEF TypeOK
  <1>3. bar[f] \in Nat /\ Total(f) \in Nat
    BY <1>2 DEF Total
  <1>4. \A n \in Nat : n * Speed(f) \in Nat
    BY <1>1, MulNat
  <1> QED
    BY <1>1, <1>2, <1>3, <1>4 DEF Moved

\* The strides of Times fill the bar, and they are fewer than RunInvalid.
LEMMA TimesFill ==
    ASSUME TypeOK, SpeedBarFits, NEW f \in Fighters, Speed(f) > 0
    PROVE  Times(f) \in Nat /\ Moved(f, Times(f)) >= speedBar /\ Times(f) < RunInvalid
  <1> DEFINE a == SafeSub(speedBar, Total(f))
             s == Speed(f)
  <1>1. s \in Nat \ {0} /\ s \in Speeds /\ Total(f) \in Nat /\ speedBar \in Nat
    BY NumbersFit DEF TypeOK
  <1>2. a \in Nat /\ a <= speedBar /\ a + Total(f) >= speedBar
    BY <1>1 DEF SafeSub
  <1>3. RunInvalid \in Nat /\ speedBar <= (RunInvalid - 1) * s
    <2>1. CASE speedBar = 0
      <3>1. BarFactor * s <= (RunInvalid - 1) * s /\ BarFactor * s \in Nat
        BY <1>1, SpeedAssumption, AttributeAssumption
      <3> QED
        BY <1>1, <2>1, <3>1, AttributeAssumption
    <2>2. CASE \E t \in Speeds : speedBar = BarFactor * t
      BY <1>1, <2>2, SpeedAssumption, AttributeAssumption
    <2> QED
      BY <2>1, <2>2 DEF SpeedBarFits
  <1> HIDE DEF a, s
  <1>4. Times(f) = CeilDiv(a, s)
    BY DEF Times, a, s
  <1>5. a <= (RunInvalid - 1) * s
    <2>1. (RunInvalid - 1) * s \in Int
      BY <1>1, <1>3
    <2> QED
      BY <1>1, <1>2, <1>3, <2>1
  <1>6. CeilDiv(a, s) < RunInvalid
    BY <1>1, <1>2, <1>3, <1>5, CeilDivBound
  <1>7. CeilDiv(a, s) \in Nat /\ a <= CeilDiv(a, s) * s
    BY <1>1, <1>2, CeilDivides
  <1>8. Moved(f, Times(f)) = Times(f) * s + Total(f)
    BY DEF Moved, s
  <1>9. Times(f) * s \in Nat
    BY <1>1, <1>4, <1>7, MulNat
  <1> QED
    BY <1>1, <1>2, <1>4, <1>6, <1>7, <1>8, <1>9

\* With someone who moves, the strides of a round are those of one fighter.
LEMMA StrideIsTaken ==
    ASSUME TypeOK, SpeedBarFits, NEW g \in Alive, Speed(g) > 0
    PROVE  /\ RunMinTimes \in Nat /\ RunMinTimes # RunInvalid
           /\ \E f \in Alive : Moved(f, RunMinTimes) >= speedBar
  <1> DEFINE movers == {f \in Alive : Speed(f) > 0}
             times  == {Times(f) : f \in movers}
             found  == times \cup {RunInvalid}
             LeastOf(n) == \A t \in found : n <= t
  <1>1. \A f \in movers : f \in Fighters /\ f \in Alive /\ Speed(f) > 0
    BY DEF Alive
  <1>2. \A f \in movers : Times(f) \in Nat /\ Moved(f, Times(f)) >= speedBar /\ Times(f) < RunInvalid
    BY <1>1, TimesFill
  <1>3. RunInvalid \in Nat
    BY AttributeAssumption
  <1>4. found \subseteq Nat /\ found # {}
    BY <1>2, <1>3
  <1>5. IsFiniteSet(found)
    <2>1. movers \in SUBSET Fighters
      BY <1>1
    <2>2. IsFiniteSet(movers)
      BY <2>1, AttributeAssumption, FS_Subset
    <2> DEFINE time == [f \in movers |-> Times(f)]
    <2>3. IsFiniteSet(times)
      <3>1. time \in [movers -> times] /\ \A t \in times : \E f \in movers : time[f] = t
        OBVIOUS
      <3> HIDE DEF movers, times, time
      <3>2. time \in Surjection(movers, times)
        BY <3>1 DEF Surjection
      <3> QED
        BY <2>2, <3>2, FS_Surjection
    <2> HIDE DEF times
    <2> QED
      BY <2>3, FS_AddElement
  <1>6. \E n \in found : LeastOf(n)
    <2>1. found \in SUBSET Nat
      BY <1>4
    <2> HIDE DEF found
    <2> QED
      BY <1>4, <1>5, <2>1, LeastOfNumbers
  <1>7. RunMinTimes = CHOOSE n \in found : LeastOf(n)
    BY DEF RunMinTimes
  <1>8. g \in movers
    OBVIOUS
  <1>9. Times(g) \in found
    BY <1>8
  <1>10. Times(g) < RunInvalid /\ Times(g) \in Nat
    BY <1>2, <1>8
  <1>11. RunMinTimes \in found /\ RunMinTimes <= Times(g)
    <2> HIDE DEF found
    <2> QED
      BY <1>6, <1>7, <1>9
  <1>12. RunMinTimes \in Nat /\ RunMinTimes # RunInvalid
    BY <1>3, <1>4, <1>10, <1>11
  <1>13. PICK f \in movers : RunMinTimes = Times(f)
    BY <1>11, <1>12
  <1> QED
    BY <1>1, <1>2, <1>12, <1>13

\* Of those that reach the end of the bar one comes first.
LEMMA FirstOfReached ==
    ASSUME TypeOK, NEW n \in Nat, NEW S \in SUBSET Fighters, S # {}
    PROVE  \E f \in S : \A g \in S \ {f} : Behind(g, f, n)
  <1> DEFINE R == {p \in Fighters \X Fighters : Behind(p[1], p[2], n)}
  <1>1. \A x, y \in Fighters : <<x, y>> \in R <=> Behind(x, y, n)
    OBVIOUS
  <1> HIDE DEF R
  <1>2. \A x \in Fighters : Moved(x, n) \in Nat /\ camp[x] \in Nat /\ x \in Nat
    <2>1. \A x \in Fighters : Moved(x, n) \in Nat
      BY NumbersFit
    <2>2. \A x \in Fighters : camp[x] \in Nat /\ x \in Nat
      BY AttributeAssumption DEF TypeOK, Camps
    <2> QED
      BY <2>1, <2>2
  <1>a. \A x, y \in Fighters : x = y \/ Behind(x, y, n) \/ Behind(y, x, n)
    BY <1>2 DEF Behind
  <1>b. \A x, y, z \in Fighters : Behind(x, y, n) /\ Behind(y, z, n) => Behind(x, z, n)
    BY <1>2 DEF Behind
  <1>3. \A x, y \in S : x = y \/ <<x, y>> \in R \/ <<y, x>> \in R
    BY <1>1, <1>a, Zenon
  <1>4. \A x, y, z \in S : <<x, y>> \in R /\ <<y, z>> \in R => <<x, z>> \in R
    BY <1>1, <1>b, Zenon
  <1>5. IsFiniteSet(S)
    BY AttributeAssumption, FS_Subset
  <1>6. \E m \in S : \A y \in S \ {m} : <<y, m>> \in R
    BY <1>3, <1>4, <1>5, LastOfOrder
  <1> QED
    BY <1>1, <1>6

\* runSpeedBar, while somebody can move: all advance by the same strides, and
\* one that is alive and has filled its bar is the next to act.
LEMMA RunSpeedBarFinds ==
    ASSUME TypeOK, SpeedBarFits, RunSpeedBar, \E g \in Alive : Speed(g) > 0
    PROVE  \E n \in Nat : /\ Advance(n) /\ ticks' = ticks + n
                          /\ cur' \in Alive /\ Moved(cur', n) >= speedBar
  <1> DEFINE n == RunMinTimes
             reached == {f \in Alive : Moved(f, n) >= speedBar}
  <1>1. n \in Nat /\ n # RunInvalid /\ reached # {}
    BY StrideIsTaken
  <1>2. /\ Advance(n) /\ ticks' = ticks + n
        /\ cur' = CHOOSE f \in reached : \A g \in reached \ {f} : Behind(g, f, n)
    BY <1>1 DEF RunSpeedBar
  <1>3. reached \in SUBSET Fighters
    BY DEF Alive
  <1> HIDE DEF reached
  <1>4. \E f \in reached : \A g \in reached \ {f} : Behind(g, f, n)
    BY <1>1, <1>3, FirstOfReached
  <1>5. cur' \in reached
    BY <1>2, <1>4
  <1> QED
    BY <1>1, <1>2, <1>5 DEF reached

-----------------------------------------------------------------------------
(* Combat: the steps keep BattleInv.                                       *)

LEMMA FightersDiffer == NoFighter \notin Fighters /\ \A f \in Fighters : f # NoFighter
  BY AttributeAssumption DEF NoFighter

LEMMA InitialBattle == Init => BattleInv
  <1> SUFFICES ASSUME Init PROVE BattleInv
    OBVIOUS
  <1>1. TypeOK
    <2>1. hp \in [Fighters -> Nat]
      <3>1. \A f \in Fighters : attr[f].hp \in Nat
        BY AttributeAssumption DEF Init
      <3> QED
        BY <3>1 DEF Init
    <2>2. bar \in [Fighters -> 0 .. speedBar]
      BY DEF Init
    <2>3. /\ campState \in [Camps -> CampStates]
          /\ camp \in [Fighters -> Camps] /\ round \in 0 .. MaxRound
      BY AttributeAssumption DEF Init, CampStates
    <2> QED
      BY <2>1, <2>2, <2>3 DEF Init, TypeOK, Steps, States
  <1>2. SomeoneActs /\ ResultIsHonest
    BY DEF Init, SomeoneActs, ResultIsHonest
  <1>3. TurnsFollowSpeed
    <2> SUFFICES ASSUME NEW f \in Alive PROVE turns[f] * speedBar + Total(f) = ticks * Speed(f)
      BY DEF TurnsFollowSpeed
    <2>1. f \in Fighters
      BY DEF Alive
    <2>2. Speed(f) \in Nat
      BY <1>1, <2>1, NumbersFit
    <2>3. turns[f] = 0 /\ speedBar = 0 /\ Total(f) = 0 /\ ticks = 0
      BY <2>1 DEF Init, Total
    <2> QED
      BY <2>2, <2>3
  <1>4. BeforeRounds /\ InRounds /\ Acting /\ SpeedBarFits
    BY DEF Init, BeforeRounds, InRounds, Acting, SpeedBarFits
  <1> QED
    BY <1>1, <1>2, <1>3, <1>4 DEF BattleInv, CombatInv

\* Before the rounds: init, setLoadingEnd.
LEMMA SetupStep ==
    ASSUME BattleInv, InitCombat \/ \E c \in Camps : SetLoadingEnd(c)
    PROVE  BattleInv'
  <1> USE DEF given, places
  <1>1. /\ step \in {"init", "loading"} /\ step' = "loading"
        /\ call' \in {"none", "steploadingEnd"}
        /\ UNCHANGED <<state, round, given, hp, places, speedBar, cur, target, result, turns>>
    BY DEF InitCombat, SetLoadingEnd
  <1>2. campState' \in [Camps -> CampStates]
    BY DEF BattleInv, CombatInv, TypeOK, InitCombat, SetLoadingEnd, CampStates
  <1>3. TypeOK'
    BY <1>1, <1>2 DEF BattleInv, CombatInv, TypeOK, Steps
  <1>4. Alive' = Alive /\ \A f \in Fighters : Total(f)' = Total(f) /\ Speed(f)' = Speed(f)
    BY <1>1 DEF Alive, Total, Speed
  <1>5. TurnsFollowSpeed'
    BY <1>1, <1>4 DEF BattleInv, TurnsFollowSpeed, Alive
  <1>6. BeforeRounds' /\ InRounds' /\ SomeoneActs' /\ ResultIsHonest'
    BY <1>1 DEF BattleInv, BeforeRounds, InRounds, SomeoneActs, ResultIsHonest
  <1>7. Acting' /\ SpeedBarFits'
    BY <1>1 DEF BattleInv, BeforeRounds, Acting, SpeedBarFits
  <1> QED
    BY <1>3, <1>5, <1>6, <1>7 DEF BattleInv, CombatInv

LEMMA LoadingEndStep ==
    ASSUME BattleInv, StepLoadingEnd
    PROVE  BattleInv'
  <1> USE DEF given, places
  <1>0. TypeOK /\ BeforeRounds /\ InRounds
    BY DEF BattleInv, CombatInv
  <1>1. /\ call = "steploadingEnd" /\ step' = "round"
        /\ UNCHANGED <<state, round, given, hp, places, cur, target, result, turns>>
        /\ campState' = campState \/ campState' = [c \in Camps |-> "operate_end"]
        /\ call' = IF speedBar' > 0 THEN "roundStart" ELSE "none"
    BY DEF StepLoadingEnd
  <1>2. step = "loading"
    BY <1>0, <1>1 DEF BeforeRounds, InRounds, TypeOK, Steps
  <1>3. /\ state = "init" /\ round = 0 /\ ticks = 0 /\ cur = NoFighter /\ target = NoFighter
        /\ \A f \in Fighters : bar[f] = 0 /\ overflow[f] = 0 /\ turns[f] = 0
    BY <1>0, <1>2 DEF BeforeRounds
  <1>4. PICK s \in Speeds \cup {0} : IsMaxSpeed(s) /\ speedBar' = BarFactor * s
    BY DEF StepLoadingEnd, InitSpeedBar
  <1>5. s \in Nat /\ BarFactor \in Nat \ {0} /\ speedBar' \in Nat /\ (s = 0 => speedBar' = 0)
    BY <1>4, AttributeAssumption, MulNat
  <1>6. TypeOK'
    <2>1. bar' \in [Fighters -> 0 .. speedBar']
      <3>1. bar \in [Fighters -> 0 .. speedBar]
        BY <1>0 DEF TypeOK
      <3> QED
        BY <1>1, <1>3, <1>5, <3>1
    <2>2. campState' \in [Camps -> CampStates]
      BY <1>0, <1>1 DEF TypeOK, CampStates
    <2> QED
      BY <1>0, <1>1, <1>5, <2>1, <2>2 DEF TypeOK, Steps
  <1>7. Alive' = Alive /\ \A f \in Fighters : Total(f)' = Total(f) /\ Speed(f)' = Speed(f)
    BY <1>1 DEF Alive, Total, Speed
  <1>8. TurnsFollowSpeed'
    <2> SUFFICES ASSUME NEW f \in Alive'
                 PROVE  (turns[f] * speedBar + Total(f) = ticks * Speed(f))'
      BY DEF TurnsFollowSpeed
    <2>1. f \in Fighters
      BY DEF Alive
    <2>2. Speed(f)' \in Nat
      BY <1>0, <1>7, <2>1, NumbersFit
    <2>3. turns'[f] = 0 /\ Total(f)' = 0 /\ ticks' = 0
      BY <1>1, <1>3, <1>7, <2>1 DEF Total
    <2> QED
      BY <1>5, <2>2, <2>3
  <1>9. SomeoneActs' /\ ResultIsHonest' /\ BeforeRounds' /\ Acting'
    BY <1>1, <1>3 DEF SomeoneActs, ResultIsHonest, BeforeRounds, Acting
  <1>10. InRounds'
    <2>1. speedBar' > 0 => \E f \in Alive : Speed(f) > 0
      BY <1>4, <1>5 DEF IsMaxSpeed
    <2>2. speedBar' > 0 => \E f \in Alive' : Speed(f)' > 0
      BY <1>7, <2>1 DEF Alive
    <2> QED
      BY <1>1, <1>3, <2>2, AttributeAssumption DEF InRounds
  <1>11. SpeedBarFits'
    BY <1>4, <1>5 DEF SpeedBarFits
  <1> QED
    BY <1>6, <1>8, <1>9, <1>10, <1>11 DEF BattleInv, CombatInv

\* The living advance by their speed, and nothing is lost at the bar.
LEMMA AdvanceMoves ==
    ASSUME TypeOK, NEW n \in Nat, Advance(n), UNCHANGED <<given, hp, speedBar>>
    PROVE  /\ bar' \in [Fighters -> 0 .. speedBar'] /\ overflow' \in [Fighters -> Nat]
           /\ \A f \in Alive : /\ (bar[f] + overflow[f])' = Moved(f, n)
                               /\ Moved(f, n) >= speedBar => bar'[f] = speedBar
  <1> USE DEF given
  <1>1. speedBar \in Nat /\ speedBar' = speedBar /\ Alive \subseteq Fighters
    BY DEF TypeOK, Alive
  <1>2. \A f \in Fighters : Moved(f, n) \in Nat /\ bar[f] \in 0 .. speedBar /\ overflow[f] \in Nat
    BY NumbersFit DEF TypeOK
  <1>3. \A f \in Fighters :
            /\ bar'[f] = IF f \in Alive
                         THEN IF Moved(f, n) > speedBar THEN speedBar ELSE Moved(f, n)
                         ELSE bar[f]
            /\ overflow'[f] = IF f \in Alive THEN SafeSub(Moved(f, n), speedBar) ELSE overflow[f]
    BY DEF Advance
  <1>4. \A f \in Fighters : bar'[f] \in 0 .. speedBar /\ overflow'[f] \in Nat
    BY <1>1, <1>2, <1>3 DEF SafeSub
  <1>5. bar' \in [Fighters -> 0 .. speedBar'] /\ overflow' \in [Fighters -> Nat]
    <2>1. bar' = [f \in Fighters |-> bar'[f]] /\ overflow' = [f \in Fighters |-> overflow'[f]]
      BY DEF Advance
    <2> QED
      BY <1>1, <1>4, <2>1
  <1>6. \A f \in Alive : /\ bar'[f] + overflow'[f] = Moved(f, n)
                         /\ Moved(f, n) >= speedBar => bar'[f] = speedBar
    BY <1>1, <1>2, <1>3 DEF SafeSub
  <1> QED
    BY <1>5, <1>6

LEMMA RoundStartStep ==
    ASSUME BattleInv, RoundStart
    PROVE  BattleInv'
  <1> USE DEF given
  <1>0. TypeOK /\ BeforeRounds /\ InRounds /\ TurnsFollowSpeed /\ SpeedBarFits
    BY DEF BattleInv, CombatInv
  <1>1. /\ call = "roundStart" /\ round' = round + 1 /\ state' = "waiting_operate"
        /\ RunSpeedBar /\ AutoFight
        /\ call' \in {"roundFight", "none"}
        /\ UNCHANGED <<step, given, hp, speedBar, result, turns>>
    BY DEF RoundStart
  <1>2. step = "round"
    BY <1>0, <1>1 DEF BeforeRounds, InRounds, TypeOK, Steps
  <1>3. /\ speedBar > 0 /\ speedBar \in Nat /\ \E f \in Alive : Speed(f) > 0
        /\ cur = NoFighter /\ target = NoFighter /\ round < MaxRound
    BY <1>0, <1>1, <1>2 DEF InRounds, TypeOK
  <1>4. PICK n \in Nat : /\ Advance(n) /\ ticks' = ticks + n
                         /\ cur' \in Alive /\ Moved(cur', n) >= speedBar
    BY <1>0, <1>1, <1>3, RunSpeedBarFinds
  <1>5. Alive' = Alive /\ Alive \subseteq Fighters /\ \A f \in Fighters : Speed(f)' = Speed(f)
    BY <1>1 DEF Alive, Speed
  <1>6. /\ bar' \in [Fighters -> 0 .. speedBar'] /\ overflow' \in [Fighters -> Nat]
        /\ \A f \in Alive : /\ (bar[f] + overflow[f])' = Moved(f, n)
                            /\ Moved(f, n) >= speedBar => bar'[f] = speedBar
    BY <1>0, <1>1, <1>4, AdvanceMoves
  <1>7. ASSUME NEW f \in Alive
        PROVE  /\ (turns[f] * speedBar + Total(f) = ticks * Speed(f))'
               /\ Moved(f, n) >= speedBar => Speed(f) > 0
    <2>1. f \in Fighters /\ ticks \in Nat /\ turns[f] \in Nat
      BY <1>0, <1>5 DEF TypeOK
    <2>2. Speed(f) \in Nat /\ Total(f) \in Nat /\ n * Speed(f) \in Nat /\ ticks * Speed(f) \in Nat
      BY <1>0, <2>1, NumbersFit
    <2>3. turns[f] * speedBar \in Nat
      BY <1>3, <2>1, MulNat
    <2>4. turns[f] * speedBar + Total(f) = ticks * Speed(f)
      BY <1>0, <1>7 DEF TurnsFollowSpeed
    <2>5. (ticks + n) * Speed(f) = ticks * Speed(f) + n * Speed(f)
      BY <2>1, <2>2
    <2>6. Moved(f, n) = n * Speed(f) + Total(f)
      BY DEF Moved
    <2>7. /\ Total(f)' = Moved(f, n) /\ turns'[f] = turns[f] /\ speedBar' = speedBar
          /\ ticks' = ticks + n /\ Speed(f)' = Speed(f)
      BY <1>1, <1>4, <1>5, <1>6, <2>1 DEF Total
    <2>8. turns[f] * speedBar + Moved(f, n) = (ticks + n) * Speed(f)
      BY <2>2, <2>3, <2>4, <2>5, <2>6
    <2>9. Speed(f) = 0 => Moved(f, n) = 0
      <3>1. Speed(f) = 0 => n * Speed(f) = 0 /\ ticks * Speed(f) = 0
        BY <2>1
      <3> QED
        BY <2>2, <2>3, <2>4, <2>6, <3>1
    <2>5a. Moved(f, n) >= speedBar => Speed(f) > 0
      BY <1>3, <2>2, <2>9
    <2> QED
      BY <2>7, <2>8, <2>5a
  <1>8. TurnsFollowSpeed'
    BY <1>5, <1>7 DEF TurnsFollowSpeed
  <1>9. /\ cur' \in Fighters /\ Speed(cur') > 0 /\ bar'[cur'] = speedBar
    BY <1>4, <1>5, <1>6, <1>7
  <1>10. /\ target' \in Fighters \cup {NoFighter}
         /\ target' # NoFighter => camp[target'] # camp[cur']
         /\ campState' \in [Camps -> CampStates]
    <2>1. \/ target' = NoFighter
          \/ target' \in AliveIn(TargetCamp(cur'))
      BY <1>1, <1>3 DEF AutoFight, ChooseTarget
    <2>2. \A f \in AliveIn(TargetCamp(cur')) : f \in Fighters /\ camp[f] # camp[cur']
      BY DEF AliveIn, Alive, TargetCamp
    <2>3. campState' \in [Camps -> CampStates]
      BY <1>1 DEF AutoFight, CampStates
    <2> QED
      BY <2>1, <2>2, <2>3
  <1>11. TypeOK'
    <2>1. round' \in 0 .. MaxRound /\ ticks' \in Nat
      BY <1>0, <1>1, <1>3, <1>4, AttributeAssumption DEF TypeOK
    <2> QED
      BY <1>0, <1>1, <1>6, <1>9, <1>10, <2>1 DEF TypeOK, States
  <1>12. Acting'
    <2>1. attr'[cur'].speed > 0
      BY <1>1, <1>9 DEF Speed
    <2>2. Speed(cur)' > 0
      BY <2>1 DEF Speed
    <2>3. cur' \in Alive' /\ bar'[cur'] = speedBar' /\ (target' # NoFighter => camp'[target'] # camp'[cur'])
      BY <1>1, <1>4, <1>5, <1>9, <1>10
    <2> QED
      BY <2>2, <2>3 DEF Acting
  <1>13. SomeoneActs' /\ ResultIsHonest' /\ BeforeRounds'
    <2>1. cur' # NoFighter
      BY <1>9, FightersDiffer
    <2> QED
      BY <1>1, <1>2, <2>1 DEF SomeoneActs, ResultIsHonest, BeforeRounds
  <1>14. InRounds'
    <2>1. \E f \in Alive' : Speed(f)' > 0
      BY <1>4, <1>5, <1>9
    <2> QED
      BY <1>1, <1>2, <1>3, <2>1 DEF InRounds
  <1>15. SpeedBarFits'
    BY <1>0, <1>1 DEF SpeedBarFits
  <1> QED
    BY <1>8, <1>11, <1>12, <1>13, <1>14, <1>15 DEF BattleInv, CombatInv

\* An attack hurts nobody but the target.
LEMMA AttackHurts ==
    ASSUME TypeOK, DoOperate
    PROVE  /\ hp' \in [Fighters -> Nat]
           /\ \A f \in Fighters : /\ hp'[f] <= hp[f]
                                  /\ hp'[f] # hp[f] => cur # NoFighter /\ target = f
  <1>1. hp \in [Fighters -> Nat]
    BY DEF TypeOK
  <1>2. CASE cur = NoFighter \/ target = NoFighter
    BY <1>1, <1>2 DEF DoOperate
  <1>3. CASE ~(cur = NoFighter \/ target = NoFighter)
    <2> DEFINE damage == Damage(cur, target)
    <2>1. cur \in Fighters /\ target \in Fighters
      BY <1>3 DEF TypeOK
    <2>2. damage \in Nat
      <3>1. attr[cur].atk \in Nat /\ attr[target].def \in Nat /\ AtkPercent \in Nat
        BY <2>1, AttributeAssumption DEF TypeOK
      <3>2. attr[cur].atk * AtkPercent \in Nat
        BY <3>1, MulNat
      <3>3. (attr[cur].atk * AtkPercent) \div 100 \in Nat
        BY <3>2
      <3> QED
        BY <3>1, <3>3 DEF Damage, SafeSub
    <2>3. hp' = [hp EXCEPT ![target] = SafeSub(@, damage)]
      BY <1>3 DEF DoOperate
    <2> HIDE DEF damage
    <2>4. \A a \in Nat : SafeSub(a, damage) \in Nat /\ SafeSub(a, damage) <= a
      BY <2>2 DEF SafeSub
    <2>5. SafeSub(hp[target], damage) \in Nat /\ SafeSub(hp[target], damage) <= hp[target]
      BY <1>1, <2>1, <2>4
    <2> QED
      BY <1>1, <1>3, <2>1, <2>3, <2>5
  <1> QED
    BY <1>2, <1>3

\* Who acts when the fight or the end of a round runs.
LEMMA ActorIsThere ==
    ASSUME BattleInv, call \in {"roundFight", "roundEnd"}
    PROVE  /\ step = "round" /\ speedBar > 0 /\ speedBar \in Nat
           /\ cur \in Fighters /\ cur # NoFighter /\ cur \in Alive
           /\ Speed(cur) > 0 /\ bar[cur] = speedBar
           /\ target # NoFighter => camp[target] # camp[cur]
  <1>0. TypeOK /\ BeforeRounds /\ InRounds /\ Acting /\ SomeoneActs
    BY DEF BattleInv, CombatInv
  <1>1. step = "round"
    BY <1>0 DEF BeforeRounds, InRounds, TypeOK, Steps
  <1>2. state # "init" /\ speedBar > 0
    BY <1>0, <1>1 DEF InRounds
  <1>3. cur # NoFighter
    BY <1>0, <1>1, <1>2 DEF SomeoneActs
  <1> QED
    BY <1>0, <1>1, <1>2, <1>3 DEF Acting, TypeOK

LEMMA RoundFightStep ==
    ASSUME BattleInv, RoundFight
    PROVE  BattleInv'
  <1> USE DEF given, places
  <1>0. TypeOK /\ InRounds /\ TurnsFollowSpeed /\ SpeedBarFits
    BY DEF BattleInv, CombatInv
  <1>1. /\ call = "roundFight" /\ DoOperate /\ state' = "playing"
        /\ call' \in {"roundEnd", "none"}
        /\ UNCHANGED <<step, round, given, places, speedBar, cur, target, result, turns>>
    BY DEF RoundFight
  <1>2. /\ step = "round" /\ speedBar > 0
        /\ cur \in Fighters /\ cur # NoFighter /\ cur \in Alive
        /\ Speed(cur) > 0 /\ bar[cur] = speedBar
        /\ target # NoFighter => camp[target] # camp[cur]
    BY <1>1, ActorIsThere
  <1>3. /\ hp' \in [Fighters -> Nat]
        /\ \A f \in Fighters : /\ hp'[f] <= hp[f]
                               /\ hp'[f] # hp[f] => cur # NoFighter /\ target = f
    BY <1>0, <1>1, AttackHurts
  <1>4. Alive' \subseteq Alive /\ Alive \subseteq Fighters
    BY <1>0, <1>3 DEF Alive, TypeOK
  <1>5. cur \in Alive'
    <2>1. hp'[cur] = hp[cur]
      BY <1>2, <1>3
    <2> QED
      BY <1>2, <2>1 DEF Alive
  <1>6. \A f \in Fighters : Speed(f)' = Speed(f) /\ Total(f)' = Total(f)
    BY <1>1 DEF Speed, Total
  <1>7. campState' \in [Camps -> CampStates]
    BY DEF RoundFight, CampStates
  <1>8. TypeOK'
    BY <1>0, <1>1, <1>3, <1>7 DEF TypeOK, States
  <1>9. TurnsFollowSpeed'
    BY <1>0, <1>1, <1>4, <1>6 DEF TurnsFollowSpeed
  <1>10. SomeoneActs' /\ ResultIsHonest' /\ BeforeRounds'
    BY <1>1, <1>2 DEF SomeoneActs, ResultIsHonest, BeforeRounds
  <1>11. InRounds'
    <2>1. \E f \in Alive' : Speed(f)' > 0
      BY <1>2, <1>5, <1>6
    <2> QED
      BY <1>1, <1>2, <2>1 DEF InRounds
  <1>12. Acting'
    BY <1>1, <1>2, <1>5 DEF Acting, Speed
  <1>13. SpeedBarFits'
    BY <1>0, <1>1 DEF SpeedBarFits
  <1> QED
    BY <1>8, <1>9, <1>10, <1>11, <1>12, <1>13 DEF BattleInv, CombatInv

LEMMA RoundEndStep ==
    ASSUME BattleInv, RoundEnd
    PROVE  BattleInv'
  <1> USE DEF given
  <1>0. TypeOK /\ TurnsFollowSpeed /\ SpeedBarFits
    BY DEF BattleInv, CombatInv
  <1>1. /\ step = "round" /\ speedBar > 0 /\ speedBar \in Nat
        /\ cur \in Fighters /\ cur # NoFighter /\ cur \in Alive
        /\ Speed(cur) > 0 /\ bar[cur] = speedBar
    BY ActorIsThere DEF RoundEnd
  <1>2. /\ bar' = [bar EXCEPT ![cur] = 0]
        /\ turns' = [turns EXCEPT ![cur] = @ + 1]
        /\ cur' = NoFighter /\ target' = NoFighter /\ result' = Outcome
        /\ IF Outcome = "none"
           THEN call' = "roundStart" /\ UNCHANGED step
           ELSE call' = "none" /\ step' = "end"
        /\ UNCHANGED <<state, round, given, hp, overflow, ticks, campState, speedBar>>
    BY <1>1 DEF RoundEnd
  <1>3. AliveIn(1) # {} \/ AliveIn(2) # {}
    BY <1>0, <1>1 DEF AliveIn, TypeOK, Camps
  <1>4. round \in 0 .. MaxRound /\ MaxRound \in Nat \ {0}
    BY <1>0, AttributeAssumption DEF TypeOK
  <1>5. /\ Outcome \in {"camp1_defeat", "camp2_defeat", "timeout", "none"}
        /\ Outcome = "camp1_defeat" <=> AliveIn(1) = {}
        /\ Outcome = "camp2_defeat" <=> AliveIn(2) = {}
        /\ Outcome = "timeout" => round = MaxRound
        /\ Outcome = "none" => round < MaxRound
    <2>1. CASE AliveIn(1) = {}
      BY <1>3, <2>1 DEF Outcome
    <2>2. CASE AliveIn(2) = {}
      BY <1>3, <2>2 DEF Outcome
    <2>3. CASE AliveIn(1) # {} /\ AliveIn(2) # {} /\ round >= MaxRound
      BY <1>4, <2>3 DEF Outcome
    <2>4. CASE AliveIn(1) # {} /\ AliveIn(2) # {} /\ ~(round >= MaxRound)
      BY <1>4, <2>4 DEF Outcome
    <2> QED
      BY <2>1, <2>2, <2>3, <2>4
  <1>6. Alive' = Alive /\ \A c : AliveIn(c)' = AliveIn(c)
    BY <1>2 DEF Alive, AliveIn
  <1>7. TypeOK'
    BY <1>0, <1>1, <1>2, <1>5 DEF TypeOK, Steps, Results
  <1>8. TurnsFollowSpeed'
    <2> SUFFICES ASSUME NEW f \in Alive
                 PROVE  (turns[f] * speedBar + Total(f) = ticks * Speed(f))'
      BY <1>6 DEF TurnsFollowSpeed
    <2>1. f \in Fighters /\ turns[f] \in Nat /\ bar[f] \in Nat /\ overflow[f] \in Nat
      BY <1>0, NumbersFit DEF Alive, TypeOK
    <2>2. turns[f] * speedBar + (bar[f] + overflow[f]) = ticks * Speed(f)
      BY <1>0 DEF TurnsFollowSpeed, Total
    <2>3. turns'[f] * speedBar + (bar'[f] + overflow[f]) = turns[f] * speedBar + (bar[f] + overflow[f])
      <3>1. CASE f = cur
        <4>1. turns'[f] = turns[f] + 1 /\ bar'[f] = 0 /\ bar[f] = speedBar
          BY <1>0, <1>1, <1>2, <3>1 DEF TypeOK
        <4>2. (turns[f] + 1) * speedBar = turns[f] * speedBar + speedBar /\ turns[f] * speedBar \in Nat
          BY <1>1, <2>1
        <4> QED
          BY <1>1, <2>1, <4>1, <4>2
      <3>2. CASE f # cur
        BY <1>0, <1>2, <2>1, <3>2 DEF TypeOK
      <3> QED
        BY <3>1, <3>2
    <2> QED
      BY <1>2, <2>2, <2>3 DEF Total, Speed
  <1>9. SomeoneActs'
    BY <1>1, <1>2 DEF SomeoneActs
  <1>10. ResultIsHonest'
    BY <1>1, <1>2, <1>5, <1>6 DEF ResultIsHonest
  <1>11. BeforeRounds' /\ Acting'
    BY <1>1, <1>2 DEF BeforeRounds, Acting
  <1>12. InRounds'
    <2>1. \E f \in Alive' : Speed(f)' > 0
      BY <1>1, <1>2, <1>6 DEF Speed
    <2> QED
      BY <1>1, <1>2, <1>5, <2>1 DEF InRounds
  <1>13. SpeedBarFits'
    BY <1>0, <1>2 DEF SpeedBarFits
  <1> QED
    BY <1>7, <1>8, <1>9, <1>10, <1>11, <1>12, <1>13 DEF BattleInv, CombatInv

LEMMA BattleStep == BattleInv /\ [Next]_vars => BattleInv'
  <1> SUFFICES ASSUME BattleInv, [Next]_vars PROVE BattleInv'
    OBVIOUS
  <1>1. CASE InitCombat \/ \E c \in Camps : SetLoadingEnd(c)
    BY <1>1, SetupStep
  <1>2. CASE StepLoadingEnd
    BY <1>2, LoadingEndStep
  <1>3. CASE RoundStart
    BY <1>3, RoundStartStep
  <1>4. CASE RoundFight
    BY <1>4, RoundFightStep
  <1>5. CASE RoundEnd
    BY <1>5, RoundEndStep
  <1>6. CASE UNCHANGED vars
    <2> USE DEF vars, given, places
    <2>1. TypeOK' /\ SomeoneActs' /\ ResultIsHonest'
      BY <1>6 DEF BattleInv, CombatInv, TypeOK, SomeoneActs, ResultIsHonest, AliveIn, Alive
    <2>2. TurnsFollowSpeed' /\ Acting' /\ SpeedBarFits'
      BY <1>6 DEF BattleInv, TurnsFollowSpeed, Acting, SpeedBarFits, Alive, Total, Speed
    <2>3. BeforeRounds' /\ InRounds'
      BY <1>6 DEF BattleInv, BeforeRounds, InRounds, Alive, Speed
    <2> QED
      BY <2>1, <2>2, <2>3 DEF BattleInv, CombatInv
  <1> QED
    BY <1>1, <1>2, <1>3, <1>4, <1>5, <1>6 DEF Next, Run

-----------------------------------------------------------------------------
(* Combat: the theorems.                                                   *)

\* The inductive invariant: with the safety properties, what is true before
\* and in the rounds, who acts, and how long the bar is.
THEOREM BattleInvariant == Spec => []BattleInv
  BY InitialBattle, BattleStep, PTL DEF Spec

\* Every round has a fighter to act, and the result tells what happened.
THEOREM CombatCorrect == Spec => []CombatInv
  <1>1. BattleInv => CombatInv
    BY DEF BattleInv
  <1> QED
    BY <1>1, BattleInvariant, PTL

\* What a living fighter ran is its speed times the strides of the battle.
THEOREM TurnsAreFair == Spec => []TurnsFollowSpeed
  <1>1. BattleInv => TurnsFollowSpeed
    BY DEF BattleInv
  <1> QED
    BY <1>1, BattleInvariant, PTL

\* Hit points only fall, those of an enemy of a living fighter at the end of
\* its bar.
THEOREM EnemiesAreHurt == Spec => OnlyEnemiesAreHurt
  <1> DEFINE Hurts == \A f \in Fighters : hp'[f] # hp[f] =>
                          /\ hp'[f] < hp[f]
                          /\ cur \in Alive
                          /\ camp[cur] # camp[f]
                          /\ bar[cur] = speedBar
  <1>1. ASSUME BattleInv, [Next]_vars PROVE Hurts \/ UNCHANGED vars
    <2>1. CASE RoundFight
      <3>1. TypeOK /\ DoOperate /\ call = "roundFight"
        BY <1>1, <2>1 DEF BattleInv, CombatInv, RoundFight
      <3>2. /\ hp' \in [Fighters -> Nat] /\ hp \in [Fighters -> Nat]
            /\ \A f \in Fighters : /\ hp'[f] <= hp[f]
                                   /\ hp'[f] # hp[f] => cur # NoFighter /\ target = f
        BY <3>1, AttackHurts DEF TypeOK
      <3>3. /\ cur \in Alive /\ bar[cur] = speedBar
            /\ target # NoFighter => camp[target] # camp[cur]
        BY <1>1, <3>1, ActorIsThere
      <3> QED
        BY <3>2, <3>3, FightersDiffer
    <2>2. CASE ~RoundFight
      <3>1. UNCHANGED hp
        BY <1>1, <2>2 DEF Next, Run, InitCombat, SetLoadingEnd, StepLoadingEnd, RoundStart, RoundEnd, vars
      <3> QED
        BY <3>1
    <2> QED
      BY <2>1, <2>2
  <1>2. BattleInv /\ [Next]_vars => [Hurts]_vars
    BY <1>1
  <1> QED
    BY <1>2, BattleInvariant, PTL DEF Spec, OnlyEnemiesAreHurt


-----------------------------------------------------------------------------
(* NineMap: cells and keys.                                                *)

DX(i) == nineIndexArray[i][1]
DY(i) == nineIndexArray[i][2]

LEMMA Ring ==
    /\ DX(0) =  0 /\ DY(0) = -1
    /\ DX(1) =  1 /\ DY(1) = -1
    /\ DX(2) =  1 /\ DY(2) =  0
    /\ DX(3) =  1 /\ DY(3) =  1
    /\ DX(4) =  0 /\ DY(4) =  1
    /\ DX(5) = -1 /\ DY(5) =  1
    /\ DX(6) = -1 /\ DY(6) =  0
    /\ DX(7) = -1 /\ DY(7) = -1
    /\ DX(8) =  0 /\ DY(8) =  0
  BY DEF DX, DY, nineIndexArray

LEMMA RingIsAround ==
    /\ \A i \in 0 .. 8 : DX(i) \in -1 .. 1 /\ DY(i) \in -1 .. 1
    /\ \A dx, dy \in -1 .. 1 : \E i \in 0 .. 8 : DX(i) = dx /\ DY(i) = dy
  <1>1. \A i \in 0 .. 8 : DX(i) \in -1 .. 1 /\ DY(i) \in -1 .. 1
    <2> TAKE i \in 0 .. 8
    <2>1. i = 0 \/ i = 1 \/ i = 2 \/ i = 3 \/ i = 4 \/ i = 5 \/ i = 6 \/ i = 7 \/ i = 8
      OBVIOUS
    <2> QED
      BY <2>1, Ring
  <1>2. \A dx, dy \in -1 .. 1 : \E i \in 0 .. 8 : DX(i) = dx /\ DY(i) = dy
    <2> TAKE dx, dy \in -1 .. 1
    <2>1. (dx = -1 \/ dx = 0 \/ dx = 1) /\ (dy = -1 \/ dy = 0 \/ dy = 1)
      OBVIOUS
    <2>2. {0, 1, 2, 3, 4, 5, 6, 7, 8} \subseteq 0 .. 8
      OBVIOUS
    <2> QED
      BY <2>1, <2>2, Ring
  <1> QED
    BY <1>1, <1>2

\* In front of a cell that was entered lies what is not next to the cell that
\* was left; behind the one that is left, what is not next to the one entered.
LEMMA FrontAndBack ==
    ASSUME NEW d \in Directions
    PROVE  /\ Front(d) \subseteq 0 .. 8 /\ Back(d) \subseteq 0 .. 8
           /\ \A i \in 0 .. 8 :
                 /\ i \in Front(d) <=> ~(DX(i) + DX(d) \in -1 .. 1 /\ DY(i) + DY(d) \in -1 .. 1)
                 /\ i \in Back(d) <=> ~(DX(i) - DX(d) \in -1 .. 1 /\ DY(i) - DY(d) \in -1 .. 1)
  <1> DEFINE Facing(e, front, back) ==
                /\ Front(e) = front /\ Back(e) = back
  <1>1. /\ Facing(0, {7, 0, 1}, {3, 4, 5}) /\ Facing(1, {7, 0, 1, 2, 3}, {3, 4, 5, 6, 7})
        /\ Facing(2, {1, 2, 3}, {5, 6, 7}) /\ Facing(3, {1, 2, 3, 4, 5}, {5, 6, 7, 0, 1})
        /\ Facing(4, {3, 4, 5}, {7, 0, 1}) /\ Facing(5, {3, 4, 5, 6, 7}, {7, 0, 1, 2, 3})
        /\ Facing(6, {5, 6, 7}, {1, 2, 3}) /\ Facing(7, {5, 6, 7, 0, 1}, {1, 2, 3, 4, 5})
    <2>1. /\ \A e \in {0, 2, 4, 6} : /\ Front(e) = {(7 + e) % 8, (8 + e) % 8, (9 + e) % 8}
                                     /\ Back(e) = {(3 + e) % 8, (4 + e) % 8, (5 + e) % 8}
          /\ \A e \in {1, 3, 5, 7} :
                /\ Front(e) = {(6 + e) % 8, (7 + e) % 8, (8 + e) % 8, (9 + e) % 8, (10 + e) % 8}
                /\ Back(e) = {(2 + e) % 8, (3 + e) % 8, (4 + e) % 8, (5 + e) % 8, (6 + e) % 8}
      <3>1. /\ 7 .. 9 = {7, 8, 9} /\ 3 .. 5 = {3, 4, 5}
            /\ 6 .. 10 = {6, 7, 8, 9, 10} /\ 2 .. 6 = {2, 3, 4, 5, 6}
        OBVIOUS
      <3>2. (\A e \in {0, 2, 4, 6} : ~Diagonal(e)) /\ (\A e \in {1, 3, 5, 7} : Diagonal(e))
        BY DEF Diagonal
      <3>3. ASSUME NEW e \in {0, 2, 4, 6}
            PROVE  /\ Front(e) = {(7 + e) % 8, (8 + e) % 8, (9 + e) % 8}
                   /\ Back(e) = {(3 + e) % 8, (4 + e) % 8, (5 + e) % 8}
        <4>1. ~Diagonal(e)
          BY <3>2
        <4>2. Front(e) = {(i + e) % 8 : i \in {7, 8, 9}} /\ Back(e) = {(i + e) % 8 : i \in {3, 4, 5}}
          BY ONLY <3>1, <4>1 DEF Front, Back
        <4> QED
          BY ONLY <4>2
      <3>4. ASSUME NEW e \in {1, 3, 5, 7}
            PROVE  /\ Front(e) = {(6 + e) % 8, (7 + e) % 8, (8 + e) % 8, (9 + e) % 8, (10 + e) % 8}
                   /\ Back(e) = {(2 + e) % 8, (3 + e) % 8, (4 + e) % 8, (5 + e) % 8, (6 + e) % 8}
        <4>1. Diagonal(e)
          BY <3>2
        <4>2. /\ Front(e) = {(i + e) % 8 : i \in {6, 7, 8, 9, 10}}
              /\ Back(e) = {(i + e) % 8 : i \in {2, 3, 4, 5, 6}}
          BY ONLY <3>1, <4>1 DEF Front, Back
        <4> QED
          BY ONLY <4>2
      <3> QED
        BY <3>3, <3>4
    <2> QED
      BY <2>1
  <1>2. d = 0 \/ d = 1 \/ d = 2 \/ d = 3 \/ d = 4 \/ d = 5 \/ d = 6 \/ d = 7
    BY DEF Directions
  <1>3. Front(d) \subseteq 0 .. 8 /\ Back(d) \subseteq 0 .. 8
    BY <1>1, <1>2
  <1>4. ASSUME NEW i \in 0 .. 8
        PROVE  /\ i \in Front(d) <=> ~(DX(i) + DX(d) \in -1 .. 1 /\ DY(i) + DY(d) \in -1 .. 1)
               /\ i \in Back(d) <=> ~(DX(i) - DX(d) \in -1 .. 1 /\ DY(i) - DY(d) \in -1 .. 1)
    <2>1. i = 0 \/ i = 1 \/ i = 2 \/ i = 3 \/ i = 4 \/ i = 5 \/ i = 6 \/ i = 7 \/ i = 8
      OBVIOUS
    <2>2. CASE d = 0
      BY <1>1, <2>1, <2>2, Ring
    <2>3. CASE d = 1
      BY <1>1, <2>1, <2>3, Ring
    <2>4. CASE d = 2
      BY <1>1, <2>1, <2>4, Ring
    <2>5. CASE d = 3
      BY <1>1, <2>1, <2>5, Ring
    <2>6. CASE d = 4
      BY <1>1, <2>1, <2>6, Ring
    <2>7. CASE d = 5
      BY <1>1, <2>1, <2>7, Ring
    <2>8. CASE d = 6
      BY <1>1, <2>1, <2>8, Ring
    <2>9. CASE d = 7
      BY <1>1, <2>1, <2>9, Ring
    <2> QED
      BY <1>2, <2>2, <2>3, <2>4, <2>5, <2>6, <2>7, <2>8, <2>9
  <1> QED
    BY <1>3, <1>4

\* In a grid that has a key for each cell, a key tells its cell.
LEMMA KeyTellsCell ==
    ASSUME NEW w \in Nat, NEW h \in Nat, w * h <= Word,
           NEW x \in 0 .. w - 1, NEW y \in 0 .. h - 1
    PROVE  /\ Key(x, y, w) \in 0 .. (w * h) - 1
           /\ Key(x, y, w) % w = x /\ Key(x, y, w) \div w = y
  <1> DEFINE k == y * w + x
  <1>1. w \in Nat \ {0} /\ x \in Nat /\ x < w /\ y \in Nat /\ y + 1 <= h /\ Word \in Nat
    BY GridAssumption
  <1>2. y * w \in Nat /\ w * h \in Nat /\ k \in Nat
    BY <1>1, MulNat
  <1>3. y * w + w <= w * h
    <2>1. (y + 1) * w <= h * w
      BY <1>1, MulMonotone
    <2>2. (y + 1) * w = y * w + w /\ h * w = w * h
      BY <1>1
    <2> QED
      BY <2>1, <2>2
  <1>4. k < w * h
    BY <1>1, <1>2, <1>3
  <1>5. Key(x, y, w) = k
    <2>1. k \in 0 .. Word - 1
      BY <1>1, <1>2, <1>4
    <2> HIDE DEF k
    <2>2. k % Word = k
      BY <1>1, <2>1
    <2> QED
      BY <2>2 DEF Key, k
  <1>6. k = w * y + x
    BY <1>1
  <1> HIDE DEF k
  <1>7. k % w = x /\ k \div w = y
    BY <1>1, <1>2, <1>6, Division
  <1> QED
    BY <1>1, <1>2, <1>4, <1>5, <1>7

\* The keys of the cells of a grid that touch a cell, itself included.
View(x, y, w, h) ==
    {Key(t, u, w) : t \in {v \in 0 .. w - 1 : Near(v, x)}, u \in {v \in 0 .. h - 1 : Near(v, y)}}

LEMMA InView ==
    ASSUME NEW w \in Nat, NEW h \in Nat, w * h <= Word,
           NEW x \in 0 .. w - 1, NEW y \in 0 .. h - 1,
           NEW t \in 0 .. w - 1, NEW u \in 0 .. h - 1
    PROVE  Key(t, u, w) \in View(x, y, w, h) <=> Near(t, x) /\ Near(u, y)
  <1>1. ASSUME Near(t, x), Near(u, y) PROVE Key(t, u, w) \in View(x, y, w, h)
    BY <1>1 DEF View
  <1>2. ASSUME Key(t, u, w) \in View(x, y, w, h) PROVE Near(t, x) /\ Near(u, y)
    <2>1. PICK a \in 0 .. w - 1, b \in 0 .. h - 1 :
              Near(a, x) /\ Near(b, y) /\ Key(t, u, w) = Key(a, b, w)
      BY <1>2 DEF View
    <2>2. /\ Key(t, u, w) % w = t /\ Key(t, u, w) \div w = u
          /\ Key(a, b, w) % w = a /\ Key(a, b, w) \div w = b
      BY KeyTellsCell
    <2> QED
      BY <2>1, <2>2
  <1> QED
    BY <1>1, <1>2

\* What Around collects at the indices of a set.
Collects(x, y, w, h, indices) ==
    /\ Around(x, y, w, h, indices) \subseteq View(x, y, w, h)
    /\ \A t \in 0 .. w - 1, u \in 0 .. h - 1 :
          Key(t, u, w) \in Around(x, y, w, h, indices)
              <=> \E i \in indices : t - x = DX(i) /\ u - y = DY(i)
    /\ \A k \in View(x, y, w, h) \cup Around(x, y, w, h, indices) :
          \E t \in 0 .. w - 1, u \in 0 .. h - 1 : k = Key(t, u, w)

LEMMA AroundIsOfView ==
    ASSUME NEW w \in Nat, NEW h \in Nat, w * h <= Word,
           NEW x \in 0 .. w - 1, NEW y \in 0 .. h - 1, NEW indices \in SUBSET (0 .. 8)
    PROVE  Collects(x, y, w, h, indices)
  <1>1. \A i \in indices : DX(i) \in -1 .. 1 /\ DY(i) \in -1 .. 1
    BY RingIsAround
  <1>2. Around(x, y, w, h, indices) =
            {Key(x + DX(i), y + DY(i), w) :
                i \in {j \in indices : x + DX(j) \in 0 .. w - 1 /\ y + DY(j) \in 0 .. h - 1}}
    BY DEF Around, DX, DY
  <1>3. ASSUME NEW k \in Around(x, y, w, h, indices)
        PROVE  \E i \in indices : /\ x + DX(i) \in 0 .. w - 1 /\ y + DY(i) \in 0 .. h - 1
                                  /\ k = Key(x + DX(i), y + DY(i), w)
    BY <1>2
  <1>4. ASSUME NEW i \in indices, x + DX(i) \in 0 .. w - 1, y + DY(i) \in 0 .. h - 1
        PROVE  /\ Key(x + DX(i), y + DY(i), w) \in Around(x, y, w, h, indices)
               /\ Key(x + DX(i), y + DY(i), w) \in View(x, y, w, h)
    <2>1. Near(x + DX(i), x) /\ Near(y + DY(i), y)
      BY <1>1 DEF Near
    <2> QED
      BY <1>2, <1>4, <2>1, InView
  <1>5. Around(x, y, w, h, indices) \subseteq View(x, y, w, h)
    BY <1>3, <1>4
  <1>6. \A k \in View(x, y, w, h) : \E t \in 0 .. w - 1, u \in 0 .. h - 1 : k = Key(t, u, w)
    BY DEF View
  <1>7. ASSUME NEW t \in 0 .. w - 1, NEW u \in 0 .. h - 1
        PROVE  Key(t, u, w) \in Around(x, y, w, h, indices)
                   <=> \E i \in indices : t - x = DX(i) /\ u - y = DY(i)
    <2>1. ASSUME NEW i \in indices, t - x = DX(i), u - y = DY(i)
          PROVE  Key(t, u, w) \in Around(x, y, w, h, indices)
      <3>1. x + DX(i) = t /\ y + DY(i) = u
        BY <2>1
      <3> QED
        BY <1>4, <3>1
    <2>2. ASSUME Key(t, u, w) \in Around(x, y, w, h, indices)
          PROVE  \E i \in indices : t - x = DX(i) /\ u - y = DY(i)
      <3>1. PICK i \in indices : /\ x + DX(i) \in 0 .. w - 1 /\ y + DY(i) \in 0 .. h - 1
                                 /\ Key(t, u, w) = Key(x + DX(i), y + DY(i), w)
        BY <1>3, <2>2
      <3> DEFINE a == x + DX(i)
                 b == y + DY(i)
      <3>2. a \in 0 .. w - 1 /\ b \in 0 .. h - 1 /\ Key(t, u, w) = Key(a, b, w)
        BY <3>1
      <3> HIDE DEF a, b
      <3>3. /\ Key(t, u, w) % w = t /\ Key(t, u, w) \div w = u
            /\ Key(a, b, w) % w = a /\ Key(a, b, w) \div w = b
        BY <3>2, KeyTellsCell
      <3>4. t = x + DX(i) /\ u = y + DY(i)
        BY <3>2, <3>3 DEF a, b
      <3> QED
        BY <1>1, <3>4
    <2> QED
      BY <2>1, <2>2
  <1> QED
    BY <1>5, <1>6, <1>7 DEF Collects

LEMMA AllAround ==
    ASSUME NEW w \in Nat, NEW h \in Nat, w * h <= Word,
           NEW x \in 0 .. w - 1, NEW y \in 0 .. h - 1
    PROVE  Around(x, y, w, h, 0 .. 8) = View(x, y, w, h)
  <1> DEFINE all == 0 .. 8
  <1>0. Collects(x, y, w, h, all)
    BY AroundIsOfView
  <1>1. Around(x, y, w, h, all) \subseteq View(x, y, w, h)
    BY <1>0 DEF Collects
  <1>2. ASSUME NEW k \in View(x, y, w, h) PROVE k \in Around(x, y, w, h, 0 .. 8)
    <2>1. PICK t \in 0 .. w - 1, u \in 0 .. h - 1 : k = Key(t, u, w)
      BY DEF View
    <2>2. Near(t, x) /\ Near(u, y)
      BY <1>2, <2>1, InView
    <2>3. t - x \in -1 .. 1 /\ u - y \in -1 .. 1
      BY <2>2 DEF Near
    <2>4. \E i \in 0 .. 8 : DX(i) = t - x /\ DY(i) = u - y
      BY <2>3, RingIsAround
    <2> QED
      BY <1>0, <2>1, <2>4 DEF Collects
  <1> QED
    BY <1>1, <1>2

\* One step in a direction: what comes into view, and what leaves it.
LEMMA StepIsExact ==
    ASSUME NEW w \in Nat, NEW h \in Nat, w * h <= Word,
           NEW x \in 0 .. w - 1, NEW y \in 0 .. h - 1, NEW d \in Directions,
           NEW tx \in 0 .. w - 1, NEW ty \in 0 .. h - 1, tx = x + DX(d), ty = y + DY(d)
    PROVE  /\ Around(tx, ty, w, h, Front(d)) = View(tx, ty, w, h) \ View(x, y, w, h)
           /\ Around(x, y, w, h, Back(d)) = View(x, y, w, h) \ View(tx, ty, w, h)
  <1>1. /\ Front(d) \in SUBSET (0 .. 8) /\ Back(d) \in SUBSET (0 .. 8)
        /\ \A i \in 0 .. 8 :
              /\ i \in Front(d) <=> ~(DX(i) + DX(d) \in -1 .. 1 /\ DY(i) + DY(d) \in -1 .. 1)
              /\ i \in Back(d) <=> ~(DX(i) - DX(d) \in -1 .. 1 /\ DY(i) - DY(d) \in -1 .. 1)
    BY FrontAndBack
  <1>2. DX(d) \in -1 .. 1 /\ DY(d) \in -1 .. 1 /\ \A i \in 0 .. 8 : DX(i) \in -1 .. 1 /\ DY(i) \in -1 .. 1
    BY RingIsAround DEF Directions
  <1>a. Collects(tx, ty, w, h, Front(d)) /\ Collects(x, y, w, h, Back(d))
    BY <1>1, AroundIsOfView
  <1>3. ASSUME NEW t \in 0 .. w - 1, NEW u \in 0 .. h - 1
        PROVE  /\ Key(t, u, w) \in Around(tx, ty, w, h, Front(d))
                      <=> Key(t, u, w) \in View(tx, ty, w, h) \ View(x, y, w, h)
               /\ Key(t, u, w) \in Around(x, y, w, h, Back(d))
                      <=> Key(t, u, w) \in View(x, y, w, h) \ View(tx, ty, w, h)
    <2>1. /\ Key(t, u, w) \in View(tx, ty, w, h) <=> t - tx \in -1 .. 1 /\ u - ty \in -1 .. 1
          /\ Key(t, u, w) \in View(x, y, w, h) <=> t - x \in -1 .. 1 /\ u - y \in -1 .. 1
      BY InView DEF Near
    <2>0. /\ t \in Int /\ u \in Int /\ x \in Int /\ y \in Int /\ DX(d) \in Int /\ DY(d) \in Int
          /\ tx = x + DX(d) /\ ty = y + DY(d)
      BY <1>2
    <2>2. t - x = (t - tx) + DX(d) /\ u - y = (u - ty) + DY(d)
      BY ONLY <2>0
    <2>3. t - tx = (t - x) - DX(d) /\ u - ty = (u - y) - DY(d)
      BY ONLY <2>0
    <2>4. Key(t, u, w) \in Around(tx, ty, w, h, Front(d))
              <=> \E i \in Front(d) : t - tx = DX(i) /\ u - ty = DY(i)
      BY <1>a DEF Collects
    <2>5. Key(t, u, w) \in Around(x, y, w, h, Back(d))
              <=> \E i \in Back(d) : t - x = DX(i) /\ u - y = DY(i)
      BY <1>a DEF Collects
    <2>6. (\E i \in Front(d) : t - tx = DX(i) /\ u - ty = DY(i))
              <=> /\ t - tx \in -1 .. 1 /\ u - ty \in -1 .. 1
                  /\ ~(t - x \in -1 .. 1 /\ u - y \in -1 .. 1)
      <3>1. ASSUME NEW i \in Front(d), t - tx = DX(i), u - ty = DY(i)
            PROVE  /\ t - tx \in -1 .. 1 /\ u - ty \in -1 .. 1
                   /\ ~(t - x \in -1 .. 1 /\ u - y \in -1 .. 1)
        BY <1>1, <1>2, <2>2, <3>1
      <3>2. ASSUME t - tx \in -1 .. 1, u - ty \in -1 .. 1, ~(t - x \in -1 .. 1 /\ u - y \in -1 .. 1)
            PROVE  \E i \in Front(d) : t - tx = DX(i) /\ u - ty = DY(i)
        <4>1. PICK i \in 0 .. 8 : DX(i) = t - tx /\ DY(i) = u - ty
          BY <3>2, RingIsAround
        <4> QED
          BY <1>1, <2>2, <3>2, <4>1
      <3> QED
        BY <3>1, <3>2
    <2>7. (\E i \in Back(d) : t - x = DX(i) /\ u - y = DY(i))
              <=> /\ t - x \in -1 .. 1 /\ u - y \in -1 .. 1
                  /\ ~(t - tx \in -1 .. 1 /\ u - ty \in -1 .. 1)
      <3>1. ASSUME NEW i \in Back(d), t - x = DX(i), u - y = DY(i)
            PROVE  /\ t - x \in -1 .. 1 /\ u - y \in -1 .. 1
                   /\ ~(t - tx \in -1 .. 1 /\ u - ty \in -1 .. 1)
        BY <1>1, <1>2, <2>3, <3>1
      <3>2. ASSUME t - x \in -1 .. 1, u - y \in -1 .. 1, ~(t - tx \in -1 .. 1 /\ u - ty \in -1 .. 1)
            PROVE  \E i \in Back(d) : t - x = DX(i) /\ u - y = DY(i)
        <4>1. PICK i \in 0 .. 8 : DX(i) = t - x /\ DY(i) = u - y
          BY <3>2, RingIsAround
        <4> QED
          BY <1>1, <2>3, <3>2, <4>1
      <3> QED
        BY <3>1, <3>2
    <2> QED
      BY <2>1, <2>4, <2>5, <2>6, <2>7
  <1>4. \A k \in View(x, y, w, h) \cup View(tx, ty, w, h) \cup Around(x, y, w, h, Back(d))
                    \cup Around(tx, ty, w, h, Front(d)) :
            \E t \in 0 .. w - 1, u \in 0 .. h - 1 : k = Key(t, u, w)
    <2>1. \A k \in View(x, y, w, h) \cup Around(x, y, w, h, Back(d)) :
              \E t \in 0 .. w - 1, u \in 0 .. h - 1 : k = Key(t, u, w)
      BY <1>a DEF Collects
    <2>2. \A k \in View(tx, ty, w, h) \cup Around(tx, ty, w, h, Front(d)) :
              \E t \in 0 .. w - 1, u \in 0 .. h - 1 : k = Key(t, u, w)
      BY <1>a DEF Collects
    <2> QED
      BY <2>1, <2>2
  <1> QED
    BY <1>3, <1>4

-----------------------------------------------------------------------------
(* NineMap: lengths, sectors and maps.                                     *)

LEMMA MadeAtKey ==
    ASSUME NEW w \in Nat, NEW h \in Nat, w * h <= Word,
           NEW x \in 0 .. w - 1, NEW y \in 0 .. h - 1, NEW indices
    PROVE  /\ Key(x, y, w) \in DOMAIN Made(w, h, indices)
           /\ Made(w, h, indices)[Key(x, y, w)] = Around(x, y, w, h, indices)
  <1> DEFINE k == Key(x, y, w)
             size == IF w * h < Word THEN w * h ELSE Word
  <1>1. k \in 0 .. (w * h) - 1 /\ k % w = x /\ k \div w = y
    BY KeyTellsCell
  <1>2. size = w * h
    <2>1. w * h \in Nat /\ Word \in Nat
      BY MulNat, GridAssumption
    <2> QED
      BY <2>1
  <1>3. Made(w, h, indices) = [j \in 0 .. size - 1 |-> Around(j % w, j \div w, w, h, indices)]
    BY DEF Made
  <1> HIDE DEF k, size
  <1>4. k \in 0 .. size - 1
    BY <1>1, <1>2
  <1> QED
    BY <1>1, <1>3, <1>4 DEF k

\* The keys of what init makes.
Keys(w, h) == 0 .. (IF w * h < Word THEN w * h ELSE Word) - 1

LEMMA MadeKeys ==
    ASSUME NEW w \in Nat, NEW h \in Nat, NEW indices
    PROVE  DOMAIN Made(w, h, indices) = Keys(w, h) /\ Keys(w, h) \subseteq 0 .. Word - 1
  <1>1. DOMAIN Made(w, h, indices) = Keys(w, h)
    BY DEF Made, Keys
  <1>2. w * h \in Nat /\ Word \in Nat
    BY MulNat, GridAssumption
  <1>3. Keys(w, h) \subseteq 0 .. Word - 1
    BY <1>2 DEF Keys
  <1> QED
    BY <1>1, <1>3

LEMMA SectorsFit ==
    ASSUME NEW length \in Lengths
    PROVE  Sectors(length) \in 0 .. Word - 1 /\ Sectors(length) \in Nat
  <1> DEFINE m == (length + Screen - 1) % Word
             q == m \div Screen
  <1>1. length \in Nat /\ Screen \in Nat \ {0} /\ Word \in Nat \ {0}
    BY GridAssumption
  <1>2. m \in 0 .. Word - 1
    BY <1>1
  <1> HIDE DEF m
  <1>3. q \in Nat /\ q * Screen <= m
    BY <1>1, <1>2
  <1> HIDE DEF q
  <1>4. q * 1 <= q * Screen
    BY <1>1, <1>3
  <1>5. q * Screen \in Nat
    BY <1>1, <1>3, MulNat
  <1>6. q <= m
    BY <1>2, <1>3, <1>4, <1>5
  <1> QED
    BY <1>1, <1>2, <1>3, <1>6 DEF Sectors, q, m

\* Where the numbers fit, the sectors of a length are its screens.
LEMMA SectorsAreScreens ==
    ASSUME NEW length \in Nat, length + Screen - 1 < Word
    PROVE  Screens(length) = 0 .. Sectors(length) - 1
  <1> DEFINE m == length + Screen - 1
             w == m \div Screen
  <1>1. Screen \in Nat \ {0} /\ Word \in Nat /\ m \in Nat /\ m < Word
    BY GridAssumption
  <1>2. m % Word = m
    <2> HIDE DEF m
    <2> QED
      BY <1>1, Z3
  <1>3. Sectors(length) = w
    BY <1>2 DEF Sectors
  <1>4. w \in Nat /\ w * Screen \in Nat /\ w * Screen <= m /\ m < w * Screen + Screen
    <2> HIDE DEF m
    <2>1. w \in Nat /\ Screen * w <= m /\ m < Screen * w + Screen
      BY <1>1
    <2> HIDE DEF w
    <2> QED
      BY <1>1, <2>1, MulNat
  <1> HIDE DEF w
  <1>5. ASSUME NEW p \in 0 .. length - 1 PROVE p \div Screen \in 0 .. w - 1
    <2> DEFINE q == p \div Screen
    <2>1. q \in Nat /\ q * Screen <= p
      BY <1>1
    <2> HIDE DEF q
    <2>2. q < w
      <3> SUFFICES ASSUME w <= q PROVE FALSE
        BY <1>4, <2>1
      <3>1. w * Screen <= q * Screen /\ q * Screen \in Int
        BY <1>1, <1>4, <2>1, MulMonotone
      <3>2. p < w * Screen
        BY <1>1, <1>4
      <3> QED
        BY <1>4, <2>1, <3>1, <3>2
    <2> QED
      BY <1>4, <2>1, <2>2 DEF q
  <1>6. ASSUME NEW v \in 0 .. w - 1 PROVE \E p \in 0 .. length - 1 : p \div Screen = v
    <2>1. v \in Nat /\ v + 1 <= w
      BY <1>4
    <2>2. (v + 1) * Screen <= w * Screen
      BY <1>1, <1>4, <2>1, MulMonotone
    <2>3. (v + 1) * Screen = v * Screen + Screen /\ v * Screen \in Nat
      BY <1>1, <2>1
    <2>4. v * Screen <= length - 1
      BY <1>1, <1>4, <2>2, <2>3
    <2> DEFINE p == v * Screen
    <2>5. p = Screen * v + 0
      BY <1>1, <2>1
    <2> HIDE DEF p
    <2>6. p \in Nat
      BY <2>3 DEF p
    <2>7. p \div Screen = v
      BY <1>1, <2>1, <2>5, <2>6, Division
    <2>8. p \in 0 .. length - 1
      BY <2>3, <2>4 DEF p
    <2> QED
      BY <2>7, <2>8
  <1>7. Screens(length) = {p \div Screen : p \in 0 .. length - 1}
    BY DEF Screens
  <1> QED
    BY <1>3, <1>5, <1>6, <1>7

\* insert adds the new keys, and leaves alone what is there.
LEMMA InsertedKeys ==
    ASSUME NEW f, NEW g
    PROVE  DOMAIN Inserted(f, g) = DOMAIN f \cup DOMAIN g
  BY DEF Inserted

LEMMA InsertedKeeps ==
    ASSUME NEW f, NEW g, NEW grid, Holds(f, grid)
    PROVE  Holds(Inserted(f, g), grid)
  BY DEF Inserted, Holds

LEMMA InsertedFirst ==
    ASSUME NEW f, NEW g, DOMAIN f = {}
    PROVE  Holds(Inserted(f, g), g)
  BY DEF Inserted, Holds

-----------------------------------------------------------------------------
(* NineMap: the theorems.                                                  *)

LEMMA InitialGrid == MapInit => GridInv
  <1> SUFFICES ASSUME MapInit PROVE GridInv
    OBVIOUS
  <1>1. sectorX \in 0 .. Word - 1 /\ sectorY \in 0 .. Word - 1
    BY GridAssumption DEF MapInit
  <1>2. DOMAIN nineMap = {} /\ \A d \in Directions : DOMAIN directMap[d] = {} /\ DOMAIN reverseMap[d] = {}
    BY DEF MapInit
  <1> QED
    BY <1>1, <1>2 DEF MapInit, GridInv, MapTypeOK

LEMMA GridStep == GridInv /\ [MapNext]_mapVars => GridInv'
  <1> SUFFICES ASSUME GridInv, [MapNext]_mapVars PROVE GridInv'
    OBVIOUS
  <1>1. CASE UNCHANGED mapVars
    BY <1>1 DEF mapVars, GridInv, MapTypeOK, HoldsFirst
  <1>2. ASSUME NEW x \in Lengths, NEW y \in Lengths, InitMap(x, y) PROVE GridInv'
    <2> DEFINE w == Sectors(x)
               h == Sectors(y)
               nine == Made(w, h, 0 .. 8)
               front(d) == Made(w, h, Front(d))
               back(d) == Made(w, h, Back(d))
    <2>1. /\ inits' = inits + 1 /\ maxX' = x /\ maxY' = y /\ sectorX' = w /\ sectorY' = h
          /\ nineMap' = Inserted(nineMap, nine)
          /\ directMap' = [d \in Directions |-> Inserted(directMap[d], front(d))]
          /\ reverseMap' = [d \in Directions |-> Inserted(reverseMap[d], back(d))]
          /\ first' = IF inits = 0 THEN <<w, h>> ELSE first
      BY <1>2 DEF InitMap
    <2>2. w \in Nat /\ h \in Nat /\ w \in 0 .. Word - 1 /\ h \in 0 .. Word - 1
      BY SectorsFit
    <2> HIDE DEF w, h
    <2>3. /\ DOMAIN nine = Keys(w, h) /\ Keys(w, h) \subseteq 0 .. Word - 1
          /\ \A d : DOMAIN front(d) = Keys(w, h) /\ DOMAIN back(d) = Keys(w, h)
      BY <2>2, MadeKeys
    <2>4. MapTypeOK /\ inits \in Nat
      BY DEF GridInv
    <2> HIDE DEF nine, front, back
    <2>5. \A d \in Directions : /\ directMap'[d] = Inserted(directMap[d], front(d))
                                /\ reverseMap'[d] = Inserted(reverseMap[d], back(d))
      BY <2>1
    <2>5a. nineMap' = Inserted(nineMap, nine)
      BY <2>1
    <2>6. DOMAIN nineMap' = DOMAIN nineMap \cup Keys(w, h)
      <3>1. DOMAIN Inserted(nineMap, nine) = DOMAIN nineMap \cup DOMAIN nine
        BY InsertedKeys
      <3>2. DOMAIN nine = Keys(w, h)
        BY <2>3
      <3> QED
        BY <2>5a, <3>1, <3>2
    <2>7. ASSUME NEW d \in Directions
          PROVE  /\ DOMAIN directMap'[d] = DOMAIN nineMap \cup Keys(w, h)
                 /\ DOMAIN reverseMap'[d] = DOMAIN nineMap \cup Keys(w, h)
      <3>1. DOMAIN directMap[d] = DOMAIN nineMap /\ DOMAIN reverseMap[d] = DOMAIN nineMap
        BY <2>4 DEF MapTypeOK
      <3>2. /\ DOMAIN Inserted(directMap[d], front(d)) = DOMAIN directMap[d] \cup DOMAIN front(d)
            /\ DOMAIN Inserted(reverseMap[d], back(d)) = DOMAIN reverseMap[d] \cup DOMAIN back(d)
        BY InsertedKeys
      <3> QED
        BY <2>3, <2>5, <3>1, <3>2
    <2>8. MapTypeOK'
      BY <2>1, <2>2, <2>3, <2>4, <2>6, <2>7 DEF MapTypeOK
    <2>9. HoldsFirst'
      <3>1. CASE inits = 0
        <4>1. first'[1] = w /\ first'[2] = h
          BY <2>1, <3>1
        <4>2. DOMAIN nineMap = {}
          BY <3>1 DEF GridInv
        <4>3. \A d \in Directions : DOMAIN directMap[d] = {} /\ DOMAIN reverseMap[d] = {}
          BY <2>4, <4>2 DEF MapTypeOK
        <4>4. Holds(nineMap', nine)
          <5>1. Holds(Inserted(nineMap, nine), nine)
            BY <4>2, InsertedFirst
          <5> QED
            BY <2>5a, <5>1
        <4>5. \A d \in Directions : Holds(directMap'[d], front(d)) /\ Holds(reverseMap'[d], back(d))
          <5> SUFFICES ASSUME NEW d \in Directions
                       PROVE  Holds(directMap'[d], front(d)) /\ Holds(reverseMap'[d], back(d))
            OBVIOUS
          <5>1. Holds(Inserted(directMap[d], front(d)), front(d))
            BY <4>3, InsertedFirst
          <5>2. Holds(Inserted(reverseMap[d], back(d)), back(d))
            BY <4>3, InsertedFirst
          <5> QED
            BY <2>5, <5>1, <5>2
        <4> QED
          BY <4>1, <4>4, <4>5 DEF HoldsFirst, nine, front, back
      <3>2. CASE inits # 0
        <4>1. first' = first /\ HoldsFirst
          BY <2>1, <2>4, <3>2 DEF GridInv
        <4>2. Holds(nineMap', Made(first[1], first[2], 0 .. 8))
          <5>1. Holds(nineMap, Made(first[1], first[2], 0 .. 8))
            BY <4>1 DEF HoldsFirst
          <5>2. Holds(Inserted(nineMap, nine), Made(first[1], first[2], 0 .. 8))
            BY <5>1, InsertedKeeps
          <5> QED
            BY <2>5a, <5>2
        <4>3. \A d \in Directions : /\ Holds(directMap'[d], Made(first[1], first[2], Front(d)))
                                    /\ Holds(reverseMap'[d], Made(first[1], first[2], Back(d)))
          <5> SUFFICES ASSUME NEW d \in Directions
                       PROVE  /\ Holds(directMap'[d], Made(first[1], first[2], Front(d)))
                              /\ Holds(reverseMap'[d], Made(first[1], first[2], Back(d)))
            OBVIOUS
          <5>1. /\ Holds(directMap[d], Made(first[1], first[2], Front(d)))
                /\ Holds(reverseMap[d], Made(first[1], first[2], Back(d)))
            BY <4>1 DEF HoldsFirst
          <5>2. Holds(Inserted(directMap[d], front(d)), Made(first[1], first[2], Front(d)))
            BY <5>1, InsertedKeeps
          <5>3. Holds(Inserted(reverseMap[d], back(d)), Made(first[1], first[2], Back(d)))
            BY <5>1, InsertedKeeps
          <5> QED
            BY <2>5, <5>2, <5>3
        <4> QED
          BY <4>1, <4>2, <4>3 DEF HoldsFirst
      <3> QED
        BY <3>1, <3>2
    <2> QED
      BY <2>1, <2>4, <2>8, <2>9 DEF GridInv, w, h
  <1> QED
    BY <1>1, <1>2 DEF MapNext

LEMMA GridIsRight == GridInv => MapInv
  <1> SUFFICES ASSUME GridInv PROVE MapInv
    OBVIOUS
  <1>1. MapTypeOK
    BY DEF GridInv
  <1>2. SUFFICES ASSUME Fits32, Unmixed PROVE EveryPixelIsCovered /\ CrossingIsExact
    BY <1>1 DEF MapInv, EveryPixelIsCovered, CrossingIsExact
  <1> DEFINE w == sectorX
             h == sectorY
  <1>3. /\ maxX \in Lengths /\ maxY \in Lengths
        /\ w = Sectors(maxX) /\ h = Sectors(maxY) /\ HoldsFirst
    BY <1>2 DEF GridInv, Unmixed
  <1>4. w \in Nat /\ h \in Nat /\ w * h <= Word
    BY <1>2, <1>3, SectorsFit DEF Fits32
  <1>5. first[1] = w /\ first[2] = h
    <2>1. <<sectorX, sectorY>> = first
      BY <1>2 DEF Unmixed
    <2> QED
      BY <2>1
  <1>6. Screens(maxX) = 0 .. w - 1 /\ Screens(maxY) = 0 .. h - 1
    <2>1. /\ maxX \in Nat /\ maxX + Screen - 1 < Word
          /\ maxY \in Nat /\ maxY + Screen - 1 < Word
      BY <1>2, <1>3, GridAssumption DEF Fits32
    <2> QED
      BY <1>3, <2>1, SectorsAreScreens
  <1>7. /\ Holds(nineMap, Made(w, h, 0 .. 8))
        /\ \A d \in Directions : /\ Holds(directMap[d], Made(w, h, Front(d)))
                                 /\ Holds(reverseMap[d], Made(w, h, Back(d)))
    BY <1>3, <1>5 DEF HoldsFirst
  <1>8. ASSUME NEW x \in 0 .. w - 1, NEW y \in 0 .. h - 1
        PROVE  /\ Key(x, y, w) \in DOMAIN nineMap
               /\ nineMap[Key(x, y, w)] = View(x, y, w, h)
               /\ \A d \in Directions :
                     /\ directMap[d][Key(x, y, w)] = Around(x, y, w, h, Front(d))
                     /\ reverseMap[d][Key(x, y, w)] = Around(x, y, w, h, Back(d))
    <2> HIDE DEF w, h
    <2>1. \A indices : /\ Key(x, y, w) \in DOMAIN Made(w, h, indices)
                       /\ Made(w, h, indices)[Key(x, y, w)] = Around(x, y, w, h, indices)
      BY <1>4, MadeAtKey
    <2>2. Around(x, y, w, h, 0 .. 8) = View(x, y, w, h)
      BY <1>4, AllAround
    <2> QED
      BY <1>7, <2>1, <2>2 DEF Holds
  <1>9. EveryPixelIsCovered
    <2> SUFFICES ASSUME NEW sx \in 0 .. w - 1, NEW sy \in 0 .. h - 1
                 PROVE  /\ Key(sx, sy, w) \in DOMAIN nineMap
                        /\ nineMap[Key(sx, sy, w)] =
                              {Key(t, u, w) : t \in {v \in 0 .. w - 1 : Near(v, sx)},
                                              u \in {v \in 0 .. h - 1 : Near(v, sy)}}
      BY <1>6 DEF EveryPixelIsCovered
    <2> QED
      BY <1>8 DEF View
  <1>10. CrossingIsExact
    <2> SUFFICES ASSUME NEW x \in 0 .. w - 1, NEW y \in 0 .. h - 1, NEW d \in Directions,
                        x + DX(d) \in 0 .. w - 1, y + DY(d) \in 0 .. h - 1
                 PROVE  /\ directMap[d][Key(x + DX(d), y + DY(d), w)] =
                              nineMap[Key(x + DX(d), y + DY(d), w)] \ nineMap[Key(x, y, w)]
                        /\ reverseMap[d][Key(x, y, w)] =
                              nineMap[Key(x, y, w)] \ nineMap[Key(x + DX(d), y + DY(d), w)]
      BY DEF CrossingIsExact, DX, DY
    <2> DEFINE tx == x + DX(d)
               ty == y + DY(d)
    <2>1. tx \in 0 .. w - 1 /\ ty \in 0 .. h - 1 /\ tx = x + DX(d) /\ ty = y + DY(d)
      OBVIOUS
    <2> HIDE DEF tx, ty, w, h
    <2>2. /\ Around(tx, ty, w, h, Front(d)) = View(tx, ty, w, h) \ View(x, y, w, h)
          /\ Around(x, y, w, h, Back(d)) = View(x, y, w, h) \ View(tx, ty, w, h)
      BY <1>4, <2>1, StepIsExact
    <2>3. /\ directMap[d][Key(tx, ty, w)] = nineMap[Key(tx, ty, w)] \ nineMap[Key(x, y, w)]
          /\ reverseMap[d][Key(x, y, w)] = nineMap[Key(x, y, w)] \ nineMap[Key(tx, ty, w)]
      BY <1>8, <2>1, <2>2
    <2> QED
      BY <2>3 DEF tx, ty, w, h
  <1> QED
    BY <1>9, <1>10

\* The inductive invariant: the grid that was made first is never changed.
THEOREM GridInvariant == MapSpec => []GridInv
  BY InitialGrid, GridStep, PTL DEF MapSpec

\* Every pixel lies in a cell that knows its neighbours, and a step into the
\* next cell tells exactly what comes into view and what leaves it.
THEOREM MapCorrect == MapSpec => []MapInv
  BY GridInvariant, GridIsRight, PTL

=============================================================================
