SPECIFICATION FairSpec
CONSTANTS
    ann = ann
    ben = ben
    Users = {ann, ben}
    Linked = {ann}
    Transfers <- MCTransfers
    Published <- MCPublished
    MaxAttempts = 2
    Budget = 1
    MaxLog <- MCMaxLog
    MaxFaults = 1
    None = None
INVARIANTS
    DuplicatesNeedFaults
    DeadLettersAreEarned
    ContactsFollowEvents
PROPERTIES
    ImplementsAtLeastOnce
    EventuallySettled
CHECK_DEADLOCK FALSE
