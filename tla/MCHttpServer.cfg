\* One connection: any calls of the endpoints, over every scenario.
SPECIFICATION Spec
CONSTANTS
    Scenarios <- MCScenarios
    Sizes = {1, 3}
    MaxCalls = 3
INVARIANTS
    AtBoundary
    BodyInOrder
    RightEndpoint
    ResponseFramed
    NoRequestDropped
\* A connection ends.
CHECK_DEADLOCK FALSE
