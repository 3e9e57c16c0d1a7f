\* A kernel that does not fail.  No symmetry: it is not sound for liveness.
SPECIFICATION LiveSpec
CONSTANTS
    Coroutines = {d1, d2}
    Listeners = {l1}
    Signals = {s1, s2}
    OpIds = {o1, o2}
    Noop = Noop
    NoStatus = NoStatus
    NoCallback = NoCallback
    MaxConstructs = 3
    SQ_ENTRIES = 2
    KernelFaults = FALSE
CHECK_DEADLOCK FALSE
PROPERTIES
    IoServed
    SignalServed
