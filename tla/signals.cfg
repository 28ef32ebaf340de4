\* Two workers, a task and two signals, start() and stop() at any moment.
SPECIFICATION SigSpec
CONSTANTS
    Workers = {w1, w2}
    Tasks = {t1, s1, s2}
    Signals = {s1, s2}
INVARIANTS
    SignalInv
PROPERTIES
    TasksAndSignalsRun
    StartAndStopReach
CHECK_DEADLOCK FALSE
