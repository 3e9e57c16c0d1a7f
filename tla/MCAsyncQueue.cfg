\* Four items and four events: the queue empties and fills several times
\* before an event is delivered.
SPECIFICATION Spec
CONSTANTS
    Coroutines = {k}
    Consumer = k
    Items = {i1, i2}
    Noop = Noop
    NoStatus = NoStatus
    Capacity = 4
    MaxEvents = 4
INVARIANT NoLostWakeup
PROPERTY IsChannel
