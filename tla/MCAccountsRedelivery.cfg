SPECIFICATION FairSpec
CONSTANTS
    ann = ann
    ben = ben
    old = old
    Users = {ann, ben, old}
    Numbers <- MCNumbers
    Legacy <- MCLegacy
    BankCode <- MCBankCode
    MaxDraws = 2
    MaxEvents = 3
    MaxFaults = 1
    MaxChanges = 1
    None = None
PROPERTY RedeliveredAfterError
CHECK_DEADLOCK FALSE
