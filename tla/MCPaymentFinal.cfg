SPECIFICATION Spec
CONSTANTS
  buyer = buyer
  User = {buyer}
  Chapter = {}
  Invoice = {i1}
  Request = {r1, r2}
  Owner <- MCOwner
  InvoiceAmount <- MCInvoiceAmount
  Amount = {1}
  Price = {}
  Free = Free
  None = None
  PendingLimit = 2
  MaxDeposits = 0
PROPERTY ProcessedIsFinal
