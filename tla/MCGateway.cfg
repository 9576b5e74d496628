SPECIFICATION GatewayFairSpec
CONSTANTS
    ann = ann
    ben = ben
    None = None
    Self = g1
    Peers = {g2}
    Accounts = {"a1", "a2"}
    Owner <- MCOwner
    AccountLog <- MCAccountLog
    TransferEvents <- MCTransferEvents
    MaxDials = 2
    Tokens = {ann, ben, None}
    MaxConns = 1
    MaxMessages = 1
    MaxMishaps = 1
INVARIANTS
    OnlyParties
PROPERTIES
    DeadPeersReaped
    SignalsArrive
CHECK_DEADLOCK FALSE
