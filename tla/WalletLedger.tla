----------------------------- MODULE WalletLedger -----------------------------
(***************************************************************************)
(* Wallets, chapter purchases and payment callbacks of the Readory server  *)
(* (wallets.service.ts, chapters.service.ts, payments.service.ts).         *)
(*                                                                         *)
(* A Request is one HTTP request in flight.  Every statement a handler     *)
(* sends to PostgreSQL outside a transaction is a step of its own; inside  *)
(* a READ COMMITTED transaction an UPDATE takes the row's lock and keeps   *)
(* it until the transaction commits or rolls back.  The last INSERT of a   *)
(* transaction and its COMMIT are one step: nothing another request does   *)
(* between them is visible.  What a transaction has written is in its job  *)
(* until it commits.                                                       *)
(***************************************************************************)
EXTENDS Integers, FiniteSets

CONSTANTS User, Chapter, Invoice, Request,
          Owner,          \* the user an invoice is created for
          InvoiceAmount,  \* the amount an invoice is created with
          Amount,         \* the amounts an administrator may credit or debit
          Price,          \* the prices a chapter may be given (0 is possible)
          Free,           \* the chapter has no price, or isFree is set
          None,           \* no chapter, invoice, request or job
          PendingLimit,   \* RATE_LIMITS.payment.pending.limit
          MaxDeposits     \* model bound: administrators stop crediting here

ASSUME LedgerAssumption ==
  /\ Owner \in [Invoice -> User]
  /\ InvoiceAmount \in [Invoice -> Nat \ {0}]
  /\ Amount \subseteq Nat \ {0}
  /\ Price \subseteq Nat
  /\ Free \notin Nat
  /\ None \notin Chapter \cup Invoice \cup Request
  /\ PendingLimit \in Nat
  /\ MaxDeposits \in Nat

VARIABLES
  wallets,      \* the users that have a Wallet row
  balance,      \* Wallet.balance, committed
  deposits,     \* sum of the CREDIT rows of the user's wallet (getWallet totals)
  withdrawals,  \* sum of the DEBIT rows of the user's wallet
  walletLock,   \* the request whose transaction has updated the Wallet row
  chapter,      \* the Chapter row: status and price
  access,       \* AccessRecord rows, as <<user, chapter>>
  paid,         \* number of DEBIT rows written to purchase a chapter
  invoice,      \* PaymentInvoice.status, "ABSENT" before the row exists
  credits,      \* number of CREDIT rows written for an invoice
  invoiceLock,  \* the request whose transaction has updated the invoice row
  pc,           \* where each request is
  job           \* its arguments and what it has read or computed

ledgerVars == <<wallets, balance, deposits, withdrawals, walletLock>>
chapterVars == <<chapter, access, paid>>
invoiceVars == <<invoice, credits, invoiceLock>>
vars == <<ledgerVars, chapterVars, invoiceVars, pc, job>>

ChapterStatus == {"ABSENT", "DRAFT", "PUBLISHED", "DELETED"}
InvoiceStatus == {"ABSENT", "PENDING", "SUCCESS", "FAILED"}
Pc == {"idle", "findAccess", "grant", "debit", "debitRow", "credit",
       "creditRow", "createInvoice", "verify", "settle", "markFailed"}

\* amount: what to credit or debit, or the price read with the chapter;
\* after: the balance the transaction's own UPDATE returned.
Job == [user : User, amount : Nat \cup {Free}, chapter : Chapter \cup {None},
        invoice : Invoice \cup {None}, after : Int]

NewJob(u, amount, c, i) ==
  [user |-> u, amount |-> amount, chapter |-> c, invoice |-> i, after |-> 0]

Init == /\ wallets \in SUBSET User
        /\ balance = [u \in User |-> 0]
        /\ deposits = [u \in User |-> 0]
        /\ withdrawals = [u \in User |-> 0]
        /\ walletLock = [u \in User |-> None]
        /\ chapter = [c \in Chapter |-> [status |-> "ABSENT", price |-> Free]]
        /\ access = {}
        /\ paid = [uc \in User \X Chapter |-> 0]
        /\ invoice = [i \in Invoice |-> "ABSENT"]
        /\ credits = [i \in Invoice |-> 0]
        /\ invoiceLock = [i \in Invoice |-> None]
        /\ pc = [r \in Request |-> "idle"]
        /\ job = [r \in Request |-> None]

(***************************************************************************)
(* Request bookkeeping                                                     *)
(***************************************************************************)
Begin(r, step, j) == /\ pc[r] = "idle"
                     /\ pc' = [pc EXCEPT ![r] = step]
                     /\ job' = [job EXCEPT ![r] = j]

GoTo(r, step) == /\ pc' = [pc EXCEPT ![r] = step]
                 /\ UNCHANGED job

Finish(r) == /\ pc' = [pc EXCEPT ![r] = "idle"]
             /\ job' = [job EXCEPT ![r] = None]

\* COMMIT and ROLLBACK release every row lock of the transaction.
ReleaseLocks(r) ==
  /\ walletLock' = [u \in User |-> IF walletLock[u] = r THEN None ELSE walletLock[u]]
  /\ invoiceLock' = [i \in Invoice |-> IF invoiceLock[i] = r THEN None ELSE invoiceLock[i]]

Rollback(r) == /\ Finish(r)
               /\ ReleaseLocks(r)
               /\ UNCHANGED <<wallets, balance, deposits, withdrawals, chapterVars,
                              invoice, credits>>

(***************************************************************************)
(* Wallets: ensureWallet, credit and debit                                 *)
(***************************************************************************)
EnsureWallet(u) ==
  /\ wallets' = wallets \cup {u}
  /\ UNCHANGED <<balance, deposits, withdrawals, walletLock, chapterVars, invoiceVars, pc, job>>

AdminCredit(r, u, amount) ==
  /\ deposits[u] + amount <= MaxDeposits
  /\ Begin(r, "credit", NewJob(u, amount, None, None))
  /\ UNCHANGED <<ledgerVars, chapterVars, invoiceVars>>

AdminDebit(r, u, amount) ==
  /\ Begin(r, "debit", NewJob(u, amount, None, None))
  /\ UNCHANGED <<ledgerVars, chapterVars, invoiceVars>>

\* Mutant: the balance is read, computed and written back without the row lock.
LockWalletUnlocked(r, after) ==
  /\ walletLock' = walletLock
  /\ job' = [job EXCEPT ![r].after = after]
  /\ UNCHANGED <<wallets, balance, deposits, withdrawals, chapterVars, invoiceVars>>

\* UPDATE of a wallet row: it waits for the lock, then computes on the
\* committed row and keeps the lock.
LockWallet(r, after) ==
  LET u == job[r].user IN
  /\ walletLock[u] = None
  /\ walletLock' = [walletLock EXCEPT ![u] = r]
  /\ job' = [job EXCEPT ![r].after = after]
  /\ UNCHANGED <<wallets, balance, deposits, withdrawals, chapterVars, invoiceVars>>

CreditUpdate(r) ==
  LET u == job[r].user IN
  /\ pc[r] = "credit"
  /\ u \in wallets
  /\ pc' = [pc EXCEPT ![r] = "creditRow"]
  /\ LockWallet(r, balance[u] + job[r].amount)

\* Mutant: the exception leaves the transaction open.
CreditNotFoundLeaksLock(r) ==
  /\ pc[r] = "credit"
  /\ job[r].user \notin wallets
  /\ Finish(r)
  /\ UNCHANGED <<ledgerVars, chapterVars, invoiceVars>>

CreditNotFound(r) ==
  /\ pc[r] = "credit"
  /\ job[r].user \notin wallets
  /\ Rollback(r)

\* walletTransaction.create and COMMIT, of the outer transaction when the
\* credit settles an invoice.
CreditCommit(r) ==
  LET u == job[r].user
      i == job[r].invoice
  IN
  /\ pc[r] = "creditRow"
  /\ balance' = [balance EXCEPT ![u] = job[r].after]
  /\ deposits' = [deposits EXCEPT ![u] = @ + job[r].amount]
  /\ IF i = None
       THEN UNCHANGED <<invoice, credits>>
       ELSE /\ invoice' = [invoice EXCEPT ![i] = "SUCCESS"]
            /\ credits' = [credits EXCEPT ![i] = @ + 1]
  /\ Finish(r)
  /\ ReleaseLocks(r)
  /\ UNCHANGED <<wallets, withdrawals, chapterVars>>

\* The amount check precedes the transaction; the row must exist.
DebitAllowed(r) == job[r].amount > 0 /\ job[r].user \in wallets

\* Mutant: purchaseChapter calls debit without its transaction, so the charge
\* commits on its own.
DebitUpdateOwnTransaction(r) ==
  LET u == job[r].user
      c == job[r].chapter
  IN
  /\ pc[r] = "debit"
  /\ DebitAllowed(r)
  /\ walletLock[u] = None
  /\ balance[u] >= job[r].amount
  /\ IF c = None THEN UNCHANGED <<paid, balance, withdrawals>>
     ELSE /\ paid' = [paid EXCEPT ![<<u, c>>] = @ + 1]
          /\ balance' = [balance EXCEPT ![u] = @ - job[r].amount]
          /\ withdrawals' = [withdrawals EXCEPT ![u] = @ + job[r].amount]
  /\ pc' = [pc EXCEPT ![r] = IF c = None THEN "debitRow" ELSE "grant"]
  /\ job' = [job EXCEPT ![r].after = balance[u] - job[r].amount]
  /\ walletLock' = IF c = None THEN [walletLock EXCEPT ![u] = r] ELSE walletLock
  /\ UNCHANGED <<wallets, deposits, chapter, access, invoiceVars>>

DebitUpdate(r) ==
  LET after == balance[job[r].user] - job[r].amount IN
  /\ pc[r] = "debit"
  /\ DebitAllowed(r)
  /\ after >= 0
  /\ pc' = [pc EXCEPT ![r] = "debitRow"]
  /\ LockWallet(r, after)

\* The decrement went below zero, after waiting for the lock.
DebitInsufficient(r) ==
  /\ pc[r] = "debit"
  /\ DebitAllowed(r)
  /\ walletLock[job[r].user] = None
  /\ balance[job[r].user] < job[r].amount
  /\ Rollback(r)

DebitRefused(r) ==
  /\ pc[r] = "debit"
  /\ ~DebitAllowed(r)
  /\ Rollback(r)

\* Mutant: no unique index on (userId, chapterId).
CanInsertAccessTwice(u, c) == chapter[c].status \in {"DRAFT", "PUBLISHED"}

\* AccessRecord has a unique (userId, chapterId) and a foreign key to Chapter.
CanInsertAccess(u, c) == /\ <<u, c>> \notin access
                         /\ chapter[c].status \in {"DRAFT", "PUBLISHED"}

\* walletTransaction.create, for a purchase accessRecord.create, and COMMIT.
DebitCommit(r) ==
  LET u == job[r].user
      c == job[r].chapter
  IN
  /\ pc[r] = "debitRow"
  /\ IF c = None
       THEN UNCHANGED <<access, paid>>
       ELSE /\ CanInsertAccess(u, c)
            /\ access' = access \cup {<<u, c>>}
            /\ paid' = [paid EXCEPT ![<<u, c>>] = @ + 1]
  /\ balance' = [balance EXCEPT ![u] = job[r].after]
  /\ withdrawals' = [withdrawals EXCEPT ![u] = @ + job[r].amount]
  /\ Finish(r)
  /\ ReleaseLocks(r)
  /\ UNCHANGED <<wallets, deposits, chapter, invoice, credits>>

PurchaseConflict(r) ==
  /\ pc[r] = "debitRow"
  /\ job[r].chapter # None
  /\ ~CanInsertAccess(job[r].user, job[r].chapter)
  /\ Rollback(r)

(***************************************************************************)
(* Chapters: purchaseChapter, and what an administrator does meanwhile     *)
(***************************************************************************)
PurchaseChapter(r, u, c) ==
  /\ chapter[c].status = "PUBLISHED"
  /\ Begin(r, "findAccess", NewJob(u, chapter[c].price, c, None))
  /\ UNCHANGED <<ledgerVars, chapterVars, invoiceVars>>

FindAccess(r) ==
  /\ pc[r] = "findAccess"
  /\ IF <<job[r].user, job[r].chapter>> \in access
       THEN Finish(r)
       ELSE GoTo(r, IF job[r].amount = Free THEN "grant" ELSE "debit")
  /\ UNCHANGED <<ledgerVars, chapterVars, invoiceVars>>

\* Mutant: the two identifiers of the access row are swapped.
GrantFreeSwapped(r) ==
  /\ pc[r] = "grant"
  /\ access' = access \cup {<<job[r].chapter, job[r].user>>}
  /\ Finish(r)
  /\ UNCHANGED <<ledgerVars, chapter, paid, invoiceVars>>

\* The free path never touches the wallet; a duplicate insert is an error.
GrantFree(r) ==
  LET u == job[r].user
      c == job[r].chapter
  IN
  /\ pc[r] = "grant"
  /\ access' = IF CanInsertAccess(u, c) THEN access \cup {<<u, c>>} ELSE access
  /\ Finish(r)
  /\ UNCHANGED <<ledgerVars, chapter, paid, invoiceVars>>

\* createChapter, updateChapter and the publication of a scheduled chapter.
\* updateChapter computes the next price from a row it read earlier, so any
\* price may be written back.
SaveChapter(c, status, price) ==
  /\ chapter[c].status # "DELETED"
  /\ chapter' = [chapter EXCEPT ![c] = [status |-> status, price |-> price]]
  /\ UNCHANGED <<ledgerVars, access, paid, invoiceVars, pc, job>>

\* The foreign key of AccessRecord deletes the access rows with the chapter.
DeleteChapter(c) ==
  /\ chapter[c].status \in {"DRAFT", "PUBLISHED"}
  /\ chapter' = [chapter EXCEPT ![c].status = "DELETED"]
  /\ access' = {uc \in access : uc[2] # c}
  /\ UNCHANGED <<ledgerVars, paid, invoiceVars, pc, job>>

(***************************************************************************)
(* Payments: initializePayment and the gateway's callbacks                 *)
(***************************************************************************)
PendingInvoices(u) == {i \in Invoice : Owner[i] = u /\ invoice[i] = "PENDING"}

\* assertPaymentAllowed (the Redis limits before it can only refuse), then the
\* driver returns an authority no other invoice has.
InitializePayment(r, i) ==
  /\ invoice[i] = "ABSENT"
  /\ \A q \in Request : pc[q] = "createInvoice" => job[q].invoice # i
  /\ Cardinality(PendingInvoices(Owner[i])) < PendingLimit
  /\ Begin(r, "createInvoice", NewJob(Owner[i], InvoiceAmount[i], None, i))
  /\ UNCHANGED <<ledgerVars, chapterVars, invoiceVars>>

CreateInvoice(r) ==
  /\ pc[r] = "createInvoice"
  /\ invoice' = [invoice EXCEPT ![job[r].invoice] = "PENDING"]
  /\ Finish(r)
  /\ UNCHANGED <<ledgerVars, chapterVars, credits, invoiceLock>>

\* verifyPayment reads the invoice; the gateway, or the browser it redirects,
\* may call back any number of times.
VerifyPayment(r, i) ==
  /\ invoice[i] = "PENDING"
  /\ Begin(r, "verify", NewJob(Owner[i], InvoiceAmount[i], None, i))
  /\ UNCHANGED <<ledgerVars, chapterVars, invoiceVars>>

\* driver.verify answers; each callback may be answered differently.
GatewayAnswers(r, success) ==
  /\ pc[r] = "verify"
  /\ GoTo(r, IF success THEN "settle" ELSE "markFailed")
  /\ UNCHANGED <<ledgerVars, chapterVars, invoiceVars>>

\* The update is by id alone; it only waits for a transaction on the row.
MarkFailed(r) ==
  LET i == job[r].invoice IN
  /\ pc[r] = "markFailed"
  /\ invoiceLock[i] = None
  /\ invoice' = [invoice EXCEPT ![i] = "FAILED"]
  /\ Finish(r)
  /\ UNCHANGED <<ledgerVars, chapterVars, credits, invoiceLock>>

\* Mutant: the claim does not look at the status.
SettleInvoiceUnguarded(r) ==
  LET i == job[r].invoice IN
  /\ pc[r] = "settle"
  /\ invoiceLock[i] = None
  /\ invoiceLock' = [invoiceLock EXCEPT ![i] = r]
  /\ GoTo(r, "credit")
  /\ UNCHANGED <<ledgerVars, chapterVars, invoice, credits>>

\* Mutant: the claim only refuses an invoice that already succeeded.
SettleInvoiceAfterFailure(r) ==
  LET i == job[r].invoice IN
  /\ pc[r] = "settle"
  /\ invoiceLock[i] = None
  /\ IF invoice[i] # "SUCCESS"
       THEN /\ invoiceLock' = [invoiceLock EXCEPT ![i] = r]
            /\ GoTo(r, "credit")
       ELSE /\ UNCHANGED invoiceLock
            /\ Finish(r)
  /\ UNCHANGED <<ledgerVars, chapterVars, invoice, credits>>

\* updateMany where the status is PENDING: the row is claimed, or the
\* transaction throws.
SettleInvoice(r) ==
  LET i == job[r].invoice IN
  /\ pc[r] = "settle"
  /\ invoiceLock[i] = None
  /\ IF invoice[i] = "PENDING"
       THEN /\ invoiceLock' = [invoiceLock EXCEPT ![i] = r]
            /\ GoTo(r, "credit")
       ELSE /\ UNCHANGED invoiceLock
            /\ Finish(r)
  /\ UNCHANGED <<ledgerVars, chapterVars, invoice, credits>>

\* A request dies: the process stops, the connection is lost, or Prisma's
\* transaction timeout expires.
Abort(r) == pc[r] # "idle" /\ Rollback(r)

-----------------------------------------------------------------------------
Step(r) ==
  \/ CreditUpdate(r) \/ CreditNotFound(r) \/ CreditCommit(r)
  \/ DebitUpdate(r) \/ DebitInsufficient(r) \/ DebitRefused(r)
  \/ DebitCommit(r) \/ PurchaseConflict(r)
  \/ FindAccess(r) \/ GrantFree(r)
  \/ CreateInvoice(r)
  \/ \E success \in BOOLEAN : GatewayAnswers(r, success)
  \/ MarkFailed(r) \/ SettleInvoice(r)

Arrive(r) ==
  \/ \E u \in User, amount \in Amount : AdminCredit(r, u, amount) \/ AdminDebit(r, u, amount)
  \/ \E u \in User, c \in Chapter : PurchaseChapter(r, u, c)
  \/ \E i \in Invoice : InitializePayment(r, i) \/ VerifyPayment(r, i)

Admin ==
  \/ \E u \in User : EnsureWallet(u)
  \/ \E c \in Chapter : DeleteChapter(c)
  \/ \E c \in Chapter, status \in {"DRAFT", "PUBLISHED"}, price \in Price \cup {Free} :
       SaveChapter(c, status, price)

Next == Admin \/ \E r \in Request : Arrive(r) \/ Step(r) \/ Abort(r)

Spec == Init /\ [][Next]_vars

\* A request that has arrived keeps running, and PostgreSQL grants a row lock
\* in the order it was asked for.  Nothing forces an arrival or an abort.
FairSpec == Spec /\ \A r \in Request : SF_vars(Step(r))
-----------------------------------------------------------------------------
(***************************************************************************)
(* Properties                                                              *)
(***************************************************************************)
TypeOK ==
  /\ wallets \subseteq User
  /\ balance \in [User -> Int]
  /\ deposits \in [User -> Nat]
  /\ withdrawals \in [User -> Nat]
  /\ walletLock \in [User -> Request \cup {None}]
  /\ chapter \in [Chapter -> [status : ChapterStatus, price : Price \cup {Free}]]
  /\ access \subseteq User \X Chapter
  /\ paid \in [User \X Chapter -> Nat]
  /\ invoice \in [Invoice -> InvoiceStatus]
  /\ credits \in [Invoice -> Nat]
  /\ invoiceLock \in [Invoice -> Request \cup {None}]
  /\ pc \in [Request -> Pc]
  /\ job \in [Request -> Job \cup {None}]

\* The balance a user sees is what the totals shown next to it add up to, and
\* no interleaving of debits overdraws a wallet (debit checks the balance its
\* own update returned, getWallet sums the rows).
LedgerBalances ==
  \A u \in User : balance[u] = deposits[u] - withdrawals[u] /\ balance[u] >= 0

\* However often a purchase is sent, the user is charged for a chapter at most
\* once (the existing-access check precedes the transaction and can be stale).
ChargedOnce == \A uc \in User \X Chapter : paid[uc] <= 1

\* A user who was charged for a chapter has access to it for as long as the
\* chapter exists.
PaidIsOwned ==
  \A u \in User, c \in Chapter :
    paid[<<u, c>>] > 0 => <<u, c>> \in access \/ chapter[c].status = "DELETED"

\* An invoice is credited at most once, whatever the number of callbacks, and
\* is SUCCESS only if its amount is in the wallet.
CreditedOnce ==
  \A i \in Invoice : /\ credits[i] <= 1
                     /\ invoice[i] = "SUCCESS" => credits[i] = 1
                     /\ invoice[i] \in {"ABSENT", "PENDING"} => credits[i] = 0

\* Access is lost only when the chapter is deleted, and then by every user.
AccessIsKept ==
  [][\A uc \in access : uc \in access' \/ chapter'[uc[2]].status = "DELETED"]_vars

\* A step that charges for a chapter grants the access the user did not have:
\* nobody pays for a chapter that was granted or deleted in the meantime.
ChargeGrantsAccess ==
  [][\A uc \in User \X Chapter : paid'[uc] > paid[uc] => uc \in access' \ access]_vars

\* An invoice marked FAILED before it was credited never credits a wallet: a
\* callback that was verified earlier loses the claim.
FailedNeverCredits ==
  [][\A i \in Invoice : invoice[i] = "FAILED" => credits'[i] = credits[i]]_vars

\* The handlers implement the atomic ledger: transactions, locks and stale
\* reads are invisible in the balances, accesses, charges and credits.
Abs == INSTANCE LedgerAbs WITH money <- balance, owned <- access, charges <- paid,
                               credited <- credits
ImplementsLedger == Abs!AbsSpec

\* No request waits for ever on the locks of the others: every request that
\* arrives is answered (wallet and invoice rows are locked in one order).
RequestsFinish == \A r \in Request : pc[r] # "idle" ~> pc[r] = "idle"

\* 'Payment invoice is already processed': once an invoice is SUCCESS or
\* FAILED no callback changes it.
ProcessedIsFinal ==
  [][\A i \in Invoice : invoice[i] \in {"SUCCESS", "FAILED"} => invoice'[i] = invoice[i]]_vars
=============================================================================
