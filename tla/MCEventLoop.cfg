\* Three coroutines, two listeners and a signal; three constructions, so that
\* storage is used again; a ring of two entries, so that it overflows.
SPECIFICATION Spec
CONSTANTS
    Coroutines = {d1, d2, d3}
    Listeners = {l1, l2}
    Signals = {s1}
    OpIds = {o1, o2, o3}
    Noop = Noop
    NoStatus = NoStatus
    NoCallback = NoCallback
    MaxConstructs = 3
    SQ_ENTRIES = 2
    KernelFaults = TRUE
SYMMETRY Symmetry
CHECK_DEADLOCK FALSE
INVARIANTS
    TypeOK
    BusConsistent
    NoMisdelivery
    NoSleepOnStatus
    WaiterKnown
    HandleLive
    NoLostCompletion
    OwnCompletion
    NoDuplicate
    OverflowNeedsLoad
