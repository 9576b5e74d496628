SPECIFICATION Spec
CONSTANTS
  Accounts = {1, 2, 3, 4}
  Opened = {1, 2, 3}
  Genesis = 1
  Amounts = {1, 2}
  Opening <- MCOpening
  k1 = k1
  k2 = k2
  Keys = {k1, k2}
  NoKey = NoKey
  Requests <- MCRequests
  Handlers = {h1, h2}
  Reconcilers = {r1, r2}
  Lasting = {}
  MaxRequests = 3
INVARIANTS
  TypeOK
  StatusMatchesLedger
  OneVerdict
  RepliesAreOwn
CHECK_DEADLOCK FALSE
SYMMETRY MCSymmetry
