\* Enough descriptors for a listening socket, two connections and one more, so
\* that lost ones can use them up.
SPECIFICATION Spec
CONSTANTS
    Noop = Noop
    Fds = {f1, f2, f3, f4}
    Handlers = {h1, h2, h3}
    Coroutines = {d1}
    Peers = {p1, p2}
    Loop = Loop
    Accept = Accept
    NoFd = NoFd
    MaxStale = 1
CHECK_DEADLOCK FALSE
INVARIANTS
    OneHolder
    LostExactly
    ResumesLive
PROPERTIES
    HandlerIndependent
    PeerServed
