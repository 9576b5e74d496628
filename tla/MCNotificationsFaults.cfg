SPECIFICATION FairSpec
CONSTANTS
    ann = ann
    ben = ben
    Users = {ann, ben}
    Linked = {ann, ben}
    Transfers <- MCTransfers
    Published <- MCPublished
    MaxAttempts = 2
    Budget = 1
    MaxLog <- MCMaxLogTransfers
    MaxFaults = 4
    None = None
INVARIANTS
    DuplicatesNeedFaults
PROPERTIES
    ImplementsAtLeastOnce
CHECK_DEADLOCK FALSE
