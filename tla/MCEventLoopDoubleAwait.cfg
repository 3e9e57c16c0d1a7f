\* A second coroutine awaits a callback that has a waiter.
SPECIFICATION Spec
CONSTANTS
    Coroutines = {d1, d2}
    Listeners = {l1}
    Signals = {s1}
    OpIds = {o1, o2}
    Noop = Noop
    NoStatus = NoStatus
    NoCallback = NoCallback
    MaxConstructs = 2
    SQ_ENTRIES = 2
    KernelFaults = FALSE
CHECK_DEADLOCK FALSE
INVARIANT NoForgottenWaiter
