SPECIFICATION FairSpec
CONSTANTS
    ann = ann
    ben = ben
    Users = {ann, ben}
    Linked = {ann, ben}
    Transfers <- MCTransfers
    Published <- MCPublished
    MaxAttempts = 2
    Budget = 1
    MaxLog <- MCMaxLogTransfers
    MaxFaults = 2
    None = None
PROPERTIES
    SentIsFinal
CHECK_DEADLOCK FALSE
