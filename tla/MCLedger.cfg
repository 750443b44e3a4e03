SPECIFICATION FairSpec
CONSTANTS
  buyer = buyer
  User = {buyer}
  Chapter = {c1}
  Invoice = {i1}
  Request = {r1, r2}
  Owner <- MCOwner
  InvoiceAmount <- MCInvoiceAmount
  Amount = {1}
  Price = {0, 2}
  Free = Free
  None = None
  PendingLimit = 2
  MaxDeposits = 1
INVARIANT TypeOK
INVARIANT LedgerBalances
INVARIANT ChargedOnce
INVARIANT PaidIsOwned
INVARIANT CreditedOnce
PROPERTY FailedNeverCredits
PROPERTY ImplementsLedger
PROPERTY RequestsFinish
