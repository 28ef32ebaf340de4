\* Three fighters of all attributes, camps of users and of robots, six rounds;
\* grids of no screen, of one, of several and of more than keys can number,
\* each made twice.
SPECIFICATION MCSpec
CONSTANTS
    Fighters = {1, 2, 3}
    Hps = {2, 3}
    Atks = {0, 2}
    Defs = {1}
    Speeds = {0, 2, 3}
    BarFactor = 7
    AtkPercent = 150
    MaxRound = 6
    RunInvalid = 99999
    Screen = 3
    Word = 32
    Lengths = {0, 1, 4, 6, 11, 29, 30}
    MaxInits = 2
INVARIANTS
    CombatInv
    TurnsFollowSpeed
    MapInv
PROPERTIES
    OnlyEnemiesAreHurt
    RobotBattleEnds
CHECK_DEADLOCK FALSE
