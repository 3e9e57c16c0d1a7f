\* Two clients connect at once under the default limit of one.
SPECIFICATION Spec
CONSTANTS
    Clients = {d1, d2}
    Conns = {c1, c2}
    NoConn = NoConn
    Dead = Dead
    m_max_connections = 1
    MaxLine = 2
    MaxLeaks = 0
CHECK_DEADLOCK FALSE
INVARIANT ConnLimit
