\* One descriptor, one thread or three, the peer gone or not, cancelled or not.
SPECIFICATION Spec
CONSTANTS
    ThreadCounts = {1, 3}
INVARIANTS
    ReactorInv
    NoReadLost
PROPERTIES
    ReadsComplete
CHECK_DEADLOCK FALSE
