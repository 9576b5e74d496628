SPECIFICATION LiveSpec
CONSTANTS
  Deposits = {d1}
  Accounts = {1, 2}
  Genesis = 1
  Owner <- MCOwner
  Amount <- MCAmount
  MinAmount = 1
  MaxAmount = 1
  Declined = {d1}
  Refundable = {d1}
  Webhooks = {w1}
  Workers = {r1, r2}
  Lasting = {r1}
INVARIANT BooksBackedByStripe
PROPERTIES
  AttachedNotAbandoned
  PollingRecovers
