SPECIFICATION Spec
CONSTANTS
  Deposits = {d1}
  Accounts = {1, 2}
  Genesis = 1
  Owner <- MCOwner
  Amount <- MCAmount
  MinAmount = 1
  MaxAmount = 1
  Declined = {}
  Refundable = {d1}
  Webhooks = {w1}
  Workers = {r1}
  Lasting = {}
INVARIANTS
  CreditedEventOnce
  BooksReflectRefund
