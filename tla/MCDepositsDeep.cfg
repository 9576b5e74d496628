SPECIFICATION Spec
CONSTANTS
  Deposits = {d1}
  Accounts = {1, 2}
  Genesis = 1
  Owner <- MCOwner
  Amount <- MCAmount
  MinAmount = 1
  MaxAmount = 1
  Declined = {d1}
  Refundable = {d1}
  Webhooks = {w1, w2}
  Workers = {r1, r2}
  Lasting = {}
INVARIANTS
  TypeOK
  BooksBackedByStripe
PROPERTY AttachedNotAbandoned
SYMMETRY MCSymmetry
