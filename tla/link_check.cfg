\* The code's constants, a quarter of a second per unit.
SPECIFICATION LinkSpec
CONSTANTS
    Second = 4
    During = 4
    Late = 1
    Answer = 12
    Interval = 5
    ActiveTime = 10
    LinkTimeout = 15
    MaxTime = 160
INVARIANTS
    LinkInv
PROPERTIES
    AnsweredInTime
CHECK_DEADLOCK FALSE
