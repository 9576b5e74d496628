SPECIFICATION OperationsSpec
CONSTANTS
    Handlers = {h1, h2}
    TransferAmounts = {1, 2, 3}
    Thresholds <- MCThresholds
    ResolveLimit = 1
    Window = 1
    Retention = 1
    Funds = 1
    MaxOperations = 3
    MaxNow = 2
    MaxMishaps = 1
INVARIANTS
    VelocityBounded
    AttemptsBounded
    DebitsAccounted
CHECK_DEADLOCK FALSE
