SPECIFICATION LiveSpec
CONSTANTS
  MaxEvents = 3
  Key <- MCKey
  Relays = {r1, r2}
  BatchSize = 2
  MaxFaults = 2
INVARIANTS
  NothingLost
  DuplicatesNeedFaults
PROPERTY EventuallyPublished
CHECK_DEADLOCK FALSE
