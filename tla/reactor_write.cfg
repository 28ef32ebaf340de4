\* One descriptor, one thread: a write stays waiting (finding).
SPECIFICATION Spec
CONSTANTS
    ThreadCounts = {1}
PROPERTIES
    WritesComplete
CHECK_DEADLOCK FALSE
