SPECIFICATION Spec
CONSTANTS
  MaxEvents = 3
  Key <- MCKey
  Relays = {r1}
  BatchSize = 2
  MaxFaults = 2
INVARIANT KeyOrder
CHECK_DEADLOCK FALSE
