\* Two statements, so that results are told apart; two rows with a limit of
\* one and two, so that a portal suspends in the middle and at its end; salts
\* of every length modulo 3.
SPECIFICATION Spec
CONSTANTS
    Kinds = {"select", "command", "notice", "set", "fail"}
    MaxRows = 2
    MaxStatements = 2
    Limits = {0, 1, 2}
    Methods = {"trust", "password", "scram", "other_sasl", "md5"}
    SaltOctets = {90, 251}
    MaxSalt = 4
CHECK_DEADLOCK FALSE
INVARIANTS
    ResultsMatch
    ReadyMeansIdle
    AuthDecides
    SaltAgrees
PROPERTY CallEnds
