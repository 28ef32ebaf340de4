\* The Connector as constructed, and with m_startSign set so that all of
\* reconnect() runs.
SPECIFICATION FairSpec
CONSTANTS
    Socks = {s1, s2}
    ReconnectTime = 10
    StartSigns = {FALSE, TRUE}
INVARIANTS
    ConnectorInv
PROPERTIES
    ShutdownEndsUnlessLate
CHECK_DEADLOCK FALSE
