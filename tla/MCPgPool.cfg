\* Three clients and a limit of two: the limit can be exceeded, and with a
\* leak two clients wait for one connection.
SPECIFICATION LiveSpec
CONSTANTS
    Clients = {d1, d2, d3}
    Conns = {c1, c2, c3}
    NoConn = NoConn
    Dead = Dead
    m_max_connections = 2
    MaxLine = 4
    MaxLeaks = 1
CHECK_DEADLOCK FALSE
INVARIANTS
    CountExact
    Exclusive
    LiveBound
    InLineOnce
    NoStrandedWaiter
PROPERTY WaiterServed
