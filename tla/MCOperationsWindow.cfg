SPECIFICATION OperationsSpec
CONSTANTS
    Handlers = {h1}
    TransferAmounts = {1, 2, 3}
    Thresholds <- MCThresholds
    ResolveLimit = 1
    Window = 2
    Retention = 0
    Funds = 1
    MaxOperations = 3
    MaxNow = 2
    MaxMishaps = 1
INVARIANT LimitHolds
CHECK_DEADLOCK FALSE
