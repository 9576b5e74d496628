SPECIFICATION LiveSpec
CONSTANTS
  Accounts <- MCAccounts
  Genesis <- MCGenesis
  Refs = {r1, r2}
  NoRef = NoRef
  Amounts = {0, 1, 2}
  Requests <- MCRequests
  Keys = {k1}
  HashText <- MCHashText
  Workers = {w1, w2}
  NoWorker = NoWorker
  MaxCalls = 3
INVARIANTS
  CacheMatchesLog
  Solvent
  OncePerReference
  ReplyHonest
PROPERTIES
  ImplementsBank
  CallsReturn
