\* Selects only: a payload left unread is that of a row.
SPECIFICATION Spec
CONSTANTS
    Kinds = {"select"}
    MaxRows = 1
    MaxStatements = 1
    Limits = {0}
    Methods = {"trust"}
    SaltOctets = {0}
    MaxSalt = 0
CHECK_DEADLOCK FALSE
INVARIANT InStep
