\* Two workers, a task, an event and two timers over two seconds.
SPECIFICATION Spec
CONSTANTS
    Workers = {w1, w2}
    Tasks = {p1}
    Events = {e1}
    SecTimers = {s1}
    MsTimers = {m1}
    Second = 2
    Delays = {2}
    MaxTime = 2
INVARIANTS
    LeaderInv
PROPERTIES
    EveryUnitRuns
CHECK_DEADLOCK FALSE
