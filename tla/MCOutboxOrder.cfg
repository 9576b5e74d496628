SPECIFICATION Spec
CONSTANTS
  MaxEvents = 3
  Key <- MCKey
  Relays = {r1, r2}
  BatchSize = 2
  MaxFaults = 0
INVARIANT KeyOrder
CHECK_DEADLOCK FALSE
