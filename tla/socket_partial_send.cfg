\* Partial sends allowed: close() does not drain (finding).
SPECIFICATION Spec
CONSTANTS
    m1 = m1
    m2 = m2
    m3 = m3
    m4 = m4
    Msgs <- MCMsgs
    Size <- MCSize
    HeadSize = 1
    MaxBody = 2
    BaseSize = 3
    PartialSend = TRUE
    MaxCloses = 1
    MaxReads = 1
INVARIANTS
    DrainedBeforeClose
CHECK_DEADLOCK FALSE
