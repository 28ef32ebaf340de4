\* Two workers, two functions and a call of cancelUnits, one direct task.
SPECIFICATION DBSpec
CONSTANTS
    Workers = {1, 2}
    Funcs = {f1, f2}
    Callbacks = {c1}
    Tasks = {t1}
    Setups <- MCSetups
    MinConnections = 1
    MinThreads = 1
    IntWord = 4
    LongWord = 16
    NotANumber = NotANumber
    Thrown = Thrown
INVARIANTS
    AccessMeansOwned
    DBInv
    InitIsHonest
    NumbersArrive
PROPERTIES
    UnlockedSwapIsPrivate
    CancelIsLast
    ImplementsStrand
    NoneDenied
    EveryJobEnds
CHECK_DEADLOCK FALSE
