SPECIFICATION Spec
CONSTANTS
  Accounts = {1, 2, 3}
  Opened = {1, 2, 3}
  Genesis = 1
  Amounts = {1, 2}
  Opening <- MCOpening
  k1 = k1
  k2 = k2
  Keys = {k1}
  NoKey = NoKey
  Requests <- MCOneTransfer
  Handlers = {h1}
  Reconcilers = {r1}
  Lasting = {}
  MaxRequests = 1
INVARIANTS
  UnresolvedNeverMoved
  FailedNeverMoved
CHECK_DEADLOCK FALSE
