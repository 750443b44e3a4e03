-------------------------- MODULE WalletLedgerProofs --------------------------
(***************************************************************************)
(* Proofs about WalletLedger for every number of users, chapters, invoices *)
(* and requests, and every price and amount.                               *)
(***************************************************************************)
EXTENDS WalletLedger, TLAPS

(***************************************************************************)
(* The inductive invariant.  The safety properties alone are not inductive *)
(* because a transaction computes the new balance in one step and commits  *)
(* it in another: JobOK says what each request carries, and the other two  *)
(* that while a transaction holds a row what it read there is current.     *)
(***************************************************************************)
ForInvoice(j) == /\ j.invoice \in Invoice
                 /\ j.user = Owner[j.invoice]
                 /\ j.amount = InvoiceAmount[j.invoice]

JobOK ==
  \A r \in Request :
    /\ pc[r] # "idle" => job[r] \in Job
    /\ pc[r] \in {"findAccess", "grant"} => job[r].chapter \in Chapter
    /\ pc[r] \in {"debit", "debitRow"} => job[r].amount \in Nat
    /\ pc[r] \in {"credit", "creditRow"} => job[r].amount \in Nat \ {0}
    /\ pc[r] \in {"createInvoice", "verify", "settle", "markFailed"} => ForInvoice(job[r])
    /\ pc[r] \in {"credit", "creditRow"} /\ job[r].invoice # None => ForInvoice(job[r])

WalletLocksOK ==
  \A r \in Request :
    /\ pc[r] \in {"creditRow", "debitRow"} => walletLock[job[r].user] = r
    /\ pc[r] = "creditRow" => job[r].after = balance[job[r].user] + job[r].amount
    /\ pc[r] = "debitRow" => /\ job[r].after = balance[job[r].user] - job[r].amount
                             /\ job[r].after >= 0
                             /\ job[r].amount > 0

InvoiceLocksOK ==
  \A r \in Request :
    /\ pc[r] \in {"credit", "creditRow"} /\ job[r].invoice # None =>
         /\ invoiceLock[job[r].invoice] = r
         /\ invoice[job[r].invoice] = "PENDING"
    /\ pc[r] = "createInvoice" => invoice[job[r].invoice] = "ABSENT"
    /\ pc[r] \in {"verify", "settle", "markFailed"} => invoice[job[r].invoice] # "ABSENT"

\* The driver never returns one authority to two requests.
FreshAuthority ==
  \A r, q \in Request :
    pc[r] = "createInvoice" /\ pc[q] = "createInvoice" /\ job[r].invoice = job[q].invoice
      => r = q

IInv == /\ TypeOK
        /\ JobOK
        /\ WalletLocksOK
        /\ InvoiceLocksOK
        /\ FreshAuthority
        /\ LedgerBalances
        /\ ChargedOnce
        /\ PaidIsOwned
        /\ CreditedOnce

-----------------------------------------------------------------------------
\* The invariant holds initially.
LEMMA InitIInv == Init => IInv
  <1> SUFFICES ASSUME Init PROVE IInv
    OBVIOUS
  <1> USE LedgerAssumption DEF Init
  <1>1. TypeOK
    BY DEF TypeOK, ChapterStatus, InvoiceStatus, Pc
  <1>2. JobOK /\ WalletLocksOK /\ InvoiceLocksOK /\ FreshAuthority
    BY DEF JobOK, WalletLocksOK, InvoiceLocksOK, FreshAuthority
  <1>3. LedgerBalances /\ ChargedOnce /\ PaidIsOwned /\ CreditedOnce
    BY DEF LedgerBalances, ChargedOnce, PaidIsOwned, CreditedOnce
  <1>4. QED
    BY <1>1, <1>2, <1>3 DEF IInv

(***************************************************************************)
(* Every action preserves the invariant: one lemma per action, one step    *)
(* per conjunct.                                                           *)
(***************************************************************************)
\* CreditUpdate preserves the invariant.
LEMMA CreditUpdateIInv ==
  ASSUME IInv, NEW r \in Request, CreditUpdate(r)
  PROVE  IInv'
  <1> USE LedgerAssumption DEF CreditUpdate, LockWallet, IInv, ledgerVars, chapterVars,
      invoiceVars
  <1>1. TypeOK'
    <2> USE DEF TypeOK, JobOK
    <2>a. job[r] \in Job /\ job[r].user \in User /\ balance[job[r].user] + job[r].amount \in Int
      BY DEF Job
    <2>1. job' \in [Request -> Job \cup {None}]
      BY <2>a DEF Job
    <2>2. pc' \in [Request -> Pc]
      BY DEF Pc
    <2>3. walletLock' \in [User -> Request \cup {None}] /\ invoiceLock' \in [Invoice -> Request \cup {None}]
      BY <2>a
    <2>4. QED
      BY <2>1, <2>2, <2>3
  <1>2. JobOK'
    BY DEF TypeOK, JobOK, Job, ForInvoice
  <1>3. WalletLocksOK'
    BY DEF TypeOK, JobOK, Job, WalletLocksOK, ForInvoice
  <1>4. InvoiceLocksOK'
    BY DEF TypeOK, JobOK, Job, InvoiceLocksOK, ForInvoice, FreshAuthority
  <1>5. FreshAuthority'
    BY DEF TypeOK, FreshAuthority
  <1>6. LedgerBalances'
    BY DEF TypeOK, JobOK, Job, WalletLocksOK, LedgerBalances
  <1>7. ChargedOnce'
    BY DEF TypeOK, JobOK, Job, PaidIsOwned, ChargedOnce
  <1>8. PaidIsOwned'
    BY DEF TypeOK, JobOK, Job, PaidIsOwned
  <1>9. CreditedOnce'
    BY DEF TypeOK, JobOK, Job, ForInvoice, InvoiceLocksOK, CreditedOnce
  <1>10. QED
    BY <1>1, <1>2, <1>3, <1>4, <1>5, <1>6, <1>7, <1>8, <1>9

\* CreditCommit preserves the invariant.
LEMMA CreditCommitIInv ==
  ASSUME IInv, NEW r \in Request, CreditCommit(r)
  PROVE  IInv'
  <1> USE LedgerAssumption DEF CreditCommit, Finish, ReleaseLocks, IInv, ledgerVars,
      chapterVars, invoiceVars
  <1>1. TypeOK'
    <2> USE DEF TypeOK, JobOK
    <2>a. job[r] \in Job /\ job[r].user \in User /\ job[r].after \in Int /\ job[r].amount \in Nat
      BY DEF Job
    <2>1. job' \in [Request -> Job \cup {None}]
      BY <2>a DEF Job
    <2>2. pc' \in [Request -> Pc]
      BY DEF Pc
    <2>3. walletLock' \in [User -> Request \cup {None}] /\ invoiceLock' \in [Invoice -> Request \cup {None}]
      BY <2>a
    <2>4. balance' \in [User -> Int] /\ deposits' \in [User -> Nat]
      BY <2>a
    <2>5. invoice' \in [Invoice -> InvoiceStatus] /\ credits' \in [Invoice -> Nat]
      <3>1. CASE job[r].invoice = None
        BY <3>1
      <3>2. CASE job[r].invoice # None
        <4>1. job[r].invoice \in Invoice
          BY <3>2 DEF ForInvoice
        <4>2. /\ invoice' = [invoice EXCEPT ![job[r].invoice] = "SUCCESS"]
              /\ credits' = [credits EXCEPT ![job[r].invoice] = @ + 1]
          BY <3>2
        <4>3. QED
          BY <4>1, <4>2 DEF InvoiceStatus
      <3>3. QED
        BY <3>1, <3>2
    <2>6. QED
      BY <2>1, <2>2, <2>3, <2>4, <2>5
  <1>2. JobOK'
    BY DEF TypeOK, JobOK, Job, ForInvoice
  <1>3. WalletLocksOK'
    BY DEF TypeOK, JobOK, Job, WalletLocksOK, ForInvoice
  <1>4. InvoiceLocksOK'
    BY DEF TypeOK, JobOK, Job, InvoiceLocksOK, ForInvoice, FreshAuthority
  <1>5. FreshAuthority'
    BY DEF TypeOK, FreshAuthority
  <1>6. LedgerBalances'
    BY DEF TypeOK, JobOK, Job, WalletLocksOK, LedgerBalances
  <1>7. ChargedOnce'
    BY DEF TypeOK, JobOK, Job, PaidIsOwned, ChargedOnce
  <1>8. PaidIsOwned'
    BY DEF TypeOK, JobOK, Job, PaidIsOwned
  <1>9. CreditedOnce'
    BY DEF TypeOK, JobOK, Job, ForInvoice, InvoiceLocksOK, CreditedOnce
  <1>10. QED
    BY <1>1, <1>2, <1>3, <1>4, <1>5, <1>6, <1>7, <1>8, <1>9

\* DebitUpdate preserves the invariant.
LEMMA DebitUpdateIInv ==
  ASSUME IInv, NEW r \in Request, DebitUpdate(r)
  PROVE  IInv'
  <1> USE LedgerAssumption DEF DebitUpdate, LockWallet, DebitAllowed, IInv, ledgerVars,
      chapterVars, invoiceVars
  <1>1. TypeOK'
    <2> USE DEF TypeOK, JobOK
    <2>a. job[r] \in Job /\ job[r].user \in User /\ balance[job[r].user] - job[r].amount \in Int
      BY DEF Job
    <2>1. job' \in [Request -> Job \cup {None}]
      BY <2>a DEF Job
    <2>2. pc' \in [Request -> Pc]
      BY DEF Pc
    <2>3. walletLock' \in [User -> Request \cup {None}] /\ invoiceLock' \in [Invoice -> Request \cup {None}]
      BY <2>a
    <2>4. QED
      BY <2>1, <2>2, <2>3
  <1>2. JobOK'
    BY DEF TypeOK, JobOK, Job, ForInvoice
  <1>3. WalletLocksOK'
    BY DEF TypeOK, JobOK, Job, WalletLocksOK, ForInvoice
  <1>4. InvoiceLocksOK'
    BY DEF TypeOK, JobOK, Job, InvoiceLocksOK, ForInvoice, FreshAuthority
  <1>5. FreshAuthority'
    BY DEF TypeOK, FreshAuthority
  <1>6. LedgerBalances'
    BY DEF TypeOK, JobOK, Job, WalletLocksOK, LedgerBalances
  <1>7. ChargedOnce'
    BY DEF TypeOK, JobOK, Job, PaidIsOwned, ChargedOnce
  <1>8. PaidIsOwned'
    BY DEF TypeOK, JobOK, Job, PaidIsOwned
  <1>9. CreditedOnce'
    BY DEF TypeOK, JobOK, Job, ForInvoice, InvoiceLocksOK, CreditedOnce
  <1>10. QED
    BY <1>1, <1>2, <1>3, <1>4, <1>5, <1>6, <1>7, <1>8, <1>9

\* DebitCommit preserves the invariant.
LEMMA DebitCommitIInv ==
  ASSUME IInv, NEW r \in Request, DebitCommit(r)
  PROVE  IInv'
  <1> USE LedgerAssumption DEF DebitCommit, Finish, ReleaseLocks, CanInsertAccess, IInv,
      ledgerVars, chapterVars, invoiceVars
  <1>1. TypeOK'
    <2> USE DEF TypeOK, JobOK
    <2>a. job[r] \in Job /\ job[r].user \in User /\ job[r].after \in Int /\ job[r].amount \in Nat
      BY DEF Job
    <2>1. job' \in [Request -> Job \cup {None}]
      BY <2>a DEF Job
    <2>2. pc' \in [Request -> Pc]
      BY DEF Pc
    <2>3. walletLock' \in [User -> Request \cup {None}] /\ invoiceLock' \in [Invoice -> Request \cup {None}]
      BY <2>a
    <2>4. balance' \in [User -> Int] /\ withdrawals' \in [User -> Nat]
      BY <2>a
    <2>5. access' \subseteq User \X Chapter /\ paid' \in [User \X Chapter -> Nat]
      <3>1. CASE job[r].chapter = None
        BY <3>1
      <3>2. CASE job[r].chapter # None
        <4> DEFINE uc == <<job[r].user, job[r].chapter>>
        <4>1. uc \in User \X Chapter
          BY <2>a, <3>2 DEF Job
        <4>2. access' = access \cup {uc} /\ paid' = [paid EXCEPT ![uc] = @ + 1]
          BY <3>2
        <4>3. QED
          BY <4>1, <4>2
      <3>3. QED
        BY <3>1, <3>2
    <2>6. QED
      BY <2>1, <2>2, <2>3, <2>4, <2>5
  <1>2. JobOK'
    BY DEF TypeOK, JobOK, Job, ForInvoice
  <1>3. WalletLocksOK'
    BY DEF TypeOK, JobOK, Job, WalletLocksOK, ForInvoice
  <1>4. InvoiceLocksOK'
    BY DEF TypeOK, JobOK, Job, InvoiceLocksOK, ForInvoice, FreshAuthority
  <1>5. FreshAuthority'
    BY DEF TypeOK, FreshAuthority
  <1>6. LedgerBalances'
    BY DEF TypeOK, JobOK, Job, WalletLocksOK, LedgerBalances
  <1>7. ChargedOnce'
    <2> USE DEF TypeOK, ChargedOnce
    <2>1. CASE job[r].chapter = None
      BY <2>1
    <2>2. CASE job[r].chapter # None
      <3> DEFINE uc == <<job[r].user, job[r].chapter>>
      <3>1. uc \in User \X Chapter /\ job[r].chapter \in Chapter
        BY <2>2 DEF JobOK, Job
      <3>2. paid[uc] = 0
        BY <2>2, <3>1 DEF PaidIsOwned
      <3>3. paid' = [paid EXCEPT ![uc] = @ + 1]
        BY <2>2
      <3>4. QED
        BY <3>1, <3>2, <3>3
    <2>3. QED
      BY <2>1, <2>2
  <1>8. PaidIsOwned'
    BY DEF TypeOK, JobOK, Job, PaidIsOwned
  <1>9. CreditedOnce'
    BY DEF TypeOK, JobOK, Job, ForInvoice, InvoiceLocksOK, CreditedOnce
  <1>10. QED
    BY <1>1, <1>2, <1>3, <1>4, <1>5, <1>6, <1>7, <1>8, <1>9

\* Rollback preserves the invariant.
LEMMA RollbackIInv ==
  ASSUME IInv, NEW r \in Request, Rollback(r)
  PROVE  IInv'
  <1> USE LedgerAssumption DEF Rollback, Finish, ReleaseLocks, IInv, ledgerVars,
      chapterVars, invoiceVars
  <1>1. TypeOK'
    BY DEF TypeOK, JobOK, Job, ForInvoice, Pc, InvoiceStatus
  <1>2. JobOK'
    BY DEF TypeOK, JobOK, Job, ForInvoice
  <1>3. WalletLocksOK'
    BY DEF TypeOK, JobOK, Job, WalletLocksOK, ForInvoice
  <1>4. InvoiceLocksOK'
    BY DEF TypeOK, JobOK, Job, InvoiceLocksOK, ForInvoice, FreshAuthority
  <1>5. FreshAuthority'
    BY DEF TypeOK, FreshAuthority
  <1>6. LedgerBalances'
    BY DEF TypeOK, JobOK, Job, WalletLocksOK, LedgerBalances
  <1>7. ChargedOnce'
    BY DEF TypeOK, JobOK, Job, PaidIsOwned, ChargedOnce
  <1>8. PaidIsOwned'
    BY DEF TypeOK, JobOK, Job, PaidIsOwned
  <1>9. CreditedOnce'
    BY DEF TypeOK, JobOK, Job, ForInvoice, InvoiceLocksOK, CreditedOnce
  <1>10. QED
    BY <1>1, <1>2, <1>3, <1>4, <1>5, <1>6, <1>7, <1>8, <1>9

\* FindAccess preserves the invariant.
LEMMA FindAccessIInv ==
  ASSUME IInv, NEW r \in Request, FindAccess(r)
  PROVE  IInv'
  <1> USE LedgerAssumption DEF FindAccess, Finish, GoTo, IInv, ledgerVars, chapterVars,
      invoiceVars
  <1>1. TypeOK'
    <2> USE DEF TypeOK, JobOK
    <2>a. job[r] \in Job /\ job[r].user \in User
      BY DEF Job
    <2>1. job' \in [Request -> Job \cup {None}]
      BY <2>a DEF Job
    <2>2. pc' \in [Request -> Pc]
      BY DEF Pc
    <2>3. QED
      BY <2>1, <2>2
  <1>2. JobOK'
    BY DEF TypeOK, JobOK, Job, ForInvoice
  <1>3. WalletLocksOK'
    BY DEF TypeOK, JobOK, Job, WalletLocksOK, ForInvoice
  <1>4. InvoiceLocksOK'
    BY DEF TypeOK, JobOK, Job, InvoiceLocksOK, ForInvoice, FreshAuthority
  <1>5. FreshAuthority'
    BY DEF TypeOK, FreshAuthority
  <1>6. LedgerBalances'
    BY DEF TypeOK, JobOK, Job, WalletLocksOK, LedgerBalances
  <1>7. ChargedOnce'
    BY DEF TypeOK, JobOK, Job, PaidIsOwned, ChargedOnce
  <1>8. PaidIsOwned'
    BY DEF TypeOK, JobOK, Job, PaidIsOwned
  <1>9. CreditedOnce'
    BY DEF TypeOK, JobOK, Job, ForInvoice, InvoiceLocksOK, CreditedOnce
  <1>10. QED
    BY <1>1, <1>2, <1>3, <1>4, <1>5, <1>6, <1>7, <1>8, <1>9

\* GrantFree preserves the invariant.
LEMMA GrantFreeIInv ==
  ASSUME IInv, NEW r \in Request, GrantFree(r)
  PROVE  IInv'
  <1> USE LedgerAssumption DEF GrantFree, Finish, CanInsertAccess, IInv, ledgerVars,
      chapterVars, invoiceVars
  <1>1. TypeOK'
    BY DEF TypeOK, JobOK, Job, ForInvoice, Pc, InvoiceStatus
  <1>2. JobOK'
    BY DEF TypeOK, JobOK, Job, ForInvoice
  <1>3. WalletLocksOK'
    BY DEF TypeOK, JobOK, Job, WalletLocksOK, ForInvoice
  <1>4. InvoiceLocksOK'
    BY DEF TypeOK, JobOK, Job, InvoiceLocksOK, ForInvoice, FreshAuthority
  <1>5. FreshAuthority'
    BY DEF TypeOK, FreshAuthority
  <1>6. LedgerBalances'
    BY DEF TypeOK, JobOK, Job, WalletLocksOK, LedgerBalances
  <1>7. ChargedOnce'
    BY DEF TypeOK, JobOK, Job, PaidIsOwned, ChargedOnce
  <1>8. PaidIsOwned'
    BY DEF TypeOK, JobOK, Job, PaidIsOwned
  <1>9. CreditedOnce'
    BY DEF TypeOK, JobOK, Job, ForInvoice, InvoiceLocksOK, CreditedOnce
  <1>10. QED
    BY <1>1, <1>2, <1>3, <1>4, <1>5, <1>6, <1>7, <1>8, <1>9

\* CreateInvoice preserves the invariant.
LEMMA CreateInvoiceIInv ==
  ASSUME IInv, NEW r \in Request, CreateInvoice(r)
  PROVE  IInv'
  <1> USE LedgerAssumption DEF CreateInvoice, Finish, IInv, ledgerVars, chapterVars,
      invoiceVars
  <1>1. TypeOK'
    BY DEF TypeOK, JobOK, Job, ForInvoice, Pc, InvoiceStatus
  <1>2. JobOK'
    BY DEF TypeOK, JobOK, Job, ForInvoice
  <1>3. WalletLocksOK'
    BY DEF TypeOK, JobOK, Job, WalletLocksOK, ForInvoice
  <1>4. InvoiceLocksOK'
    BY DEF TypeOK, JobOK, Job, InvoiceLocksOK, ForInvoice, FreshAuthority
  <1>5. FreshAuthority'
    BY DEF TypeOK, FreshAuthority
  <1>6. LedgerBalances'
    BY DEF TypeOK, JobOK, Job, WalletLocksOK, LedgerBalances
  <1>7. ChargedOnce'
    BY DEF TypeOK, JobOK, Job, PaidIsOwned, ChargedOnce
  <1>8. PaidIsOwned'
    BY DEF TypeOK, JobOK, Job, PaidIsOwned
  <1>9. CreditedOnce'
    BY DEF TypeOK, JobOK, Job, ForInvoice, InvoiceLocksOK, CreditedOnce
  <1>10. QED
    BY <1>1, <1>2, <1>3, <1>4, <1>5, <1>6, <1>7, <1>8, <1>9

\* GatewayAnswers preserves the invariant.
LEMMA GatewayAnswersIInv ==
  ASSUME IInv, NEW r \in Request, NEW success \in BOOLEAN, GatewayAnswers(r, success)
  PROVE  IInv'
  <1> USE LedgerAssumption DEF GatewayAnswers, GoTo, IInv, ledgerVars, chapterVars,
      invoiceVars
  <1>1. TypeOK'
    BY DEF TypeOK, JobOK, Job, ForInvoice, Pc, InvoiceStatus
  <1>2. JobOK'
    BY DEF TypeOK, JobOK, Job, ForInvoice
  <1>3. WalletLocksOK'
    BY DEF TypeOK, JobOK, Job, WalletLocksOK, ForInvoice
  <1>4. InvoiceLocksOK'
    BY DEF TypeOK, JobOK, Job, InvoiceLocksOK, ForInvoice, FreshAuthority
  <1>5. FreshAuthority'
    BY DEF TypeOK, FreshAuthority
  <1>6. LedgerBalances'
    BY DEF TypeOK, JobOK, Job, WalletLocksOK, LedgerBalances
  <1>7. ChargedOnce'
    BY DEF TypeOK, JobOK, Job, PaidIsOwned, ChargedOnce
  <1>8. PaidIsOwned'
    BY DEF TypeOK, JobOK, Job, PaidIsOwned
  <1>9. CreditedOnce'
    BY DEF TypeOK, JobOK, Job, ForInvoice, InvoiceLocksOK, CreditedOnce
  <1>10. QED
    BY <1>1, <1>2, <1>3, <1>4, <1>5, <1>6, <1>7, <1>8, <1>9

\* MarkFailed preserves the invariant.
LEMMA MarkFailedIInv ==
  ASSUME IInv, NEW r \in Request, MarkFailed(r)
  PROVE  IInv'
  <1> USE LedgerAssumption DEF MarkFailed, Finish, IInv, ledgerVars, chapterVars,
      invoiceVars
  <1>1. TypeOK'
    BY DEF TypeOK, JobOK, Job, ForInvoice, Pc, InvoiceStatus
  <1>2. JobOK'
    BY DEF TypeOK, JobOK, Job, ForInvoice
  <1>3. WalletLocksOK'
    BY DEF TypeOK, JobOK, Job, WalletLocksOK, ForInvoice
  <1>4. InvoiceLocksOK'
    BY DEF TypeOK, JobOK, Job, InvoiceLocksOK, ForInvoice, FreshAuthority
  <1>5. FreshAuthority'
    BY DEF TypeOK, FreshAuthority
  <1>6. LedgerBalances'
    BY DEF TypeOK, JobOK, Job, WalletLocksOK, LedgerBalances
  <1>7. ChargedOnce'
    BY DEF TypeOK, JobOK, Job, PaidIsOwned, ChargedOnce
  <1>8. PaidIsOwned'
    BY DEF TypeOK, JobOK, Job, PaidIsOwned
  <1>9. CreditedOnce'
    BY DEF TypeOK, JobOK, Job, ForInvoice, InvoiceLocksOK, CreditedOnce
  <1>10. QED
    BY <1>1, <1>2, <1>3, <1>4, <1>5, <1>6, <1>7, <1>8, <1>9

\* SettleInvoice preserves the invariant.
LEMMA SettleInvoiceIInv ==
  ASSUME IInv, NEW r \in Request, SettleInvoice(r)
  PROVE  IInv'
  <1> USE LedgerAssumption DEF SettleInvoice, Finish, GoTo, IInv, ledgerVars,
      chapterVars, invoiceVars
  <1>1. TypeOK'
    <2> USE DEF TypeOK, JobOK
    <2>a. job[r] \in Job /\ job[r].user \in User
      BY DEF Job
    <2>1. job' \in [Request -> Job \cup {None}]
      BY <2>a DEF Job
    <2>2. pc' \in [Request -> Pc]
      BY DEF Pc
    <2>3. \/ invoiceLock' = invoiceLock
          \/ \E i \in Invoice : invoiceLock' = [invoiceLock EXCEPT ![i] = r]
      BY DEF ForInvoice
    <2>4. invoiceLock' \in [Invoice -> Request \cup {None}]
      BY <2>3
    <2>5. QED
      BY <2>1, <2>2, <2>3, <2>4
  <1>2. JobOK'
    BY DEF TypeOK, JobOK, Job, ForInvoice
  <1>3. WalletLocksOK'
    BY DEF TypeOK, JobOK, Job, WalletLocksOK, ForInvoice
  <1>4. InvoiceLocksOK'
    BY DEF TypeOK, JobOK, Job, InvoiceLocksOK, ForInvoice, FreshAuthority
  <1>5. FreshAuthority'
    BY DEF TypeOK, FreshAuthority
  <1>6. LedgerBalances'
    BY DEF TypeOK, JobOK, Job, WalletLocksOK, LedgerBalances
  <1>7. ChargedOnce'
    BY DEF TypeOK, JobOK, Job, PaidIsOwned, ChargedOnce
  <1>8. PaidIsOwned'
    BY DEF TypeOK, JobOK, Job, PaidIsOwned
  <1>9. CreditedOnce'
    BY DEF TypeOK, JobOK, Job, ForInvoice, InvoiceLocksOK, CreditedOnce
  <1>10. QED
    BY <1>1, <1>2, <1>3, <1>4, <1>5, <1>6, <1>7, <1>8, <1>9

\* AdminCredit preserves the invariant.
LEMMA AdminCreditIInv ==
  ASSUME IInv, NEW r \in Request, NEW u \in User, NEW amount \in Amount, AdminCredit(r, u, amount)
  PROVE  IInv'
  <1> USE LedgerAssumption DEF AdminCredit, Begin, NewJob, IInv, ledgerVars,
      chapterVars, invoiceVars
  <1>1. TypeOK'
    BY DEF TypeOK, JobOK, Job, ForInvoice, Pc, InvoiceStatus
  <1>2. JobOK'
    BY DEF TypeOK, JobOK, Job, ForInvoice
  <1>3. WalletLocksOK'
    BY DEF TypeOK, JobOK, Job, WalletLocksOK, ForInvoice
  <1>4. InvoiceLocksOK'
    BY DEF TypeOK, JobOK, Job, InvoiceLocksOK, ForInvoice, FreshAuthority
  <1>5. FreshAuthority'
    BY DEF TypeOK, FreshAuthority
  <1>6. LedgerBalances'
    BY DEF TypeOK, JobOK, Job, WalletLocksOK, LedgerBalances
  <1>7. ChargedOnce'
    BY DEF TypeOK, JobOK, Job, PaidIsOwned, ChargedOnce
  <1>8. PaidIsOwned'
    BY DEF TypeOK, JobOK, Job, PaidIsOwned
  <1>9. CreditedOnce'
    BY DEF TypeOK, JobOK, Job, ForInvoice, InvoiceLocksOK, CreditedOnce
  <1>10. QED
    BY <1>1, <1>2, <1>3, <1>4, <1>5, <1>6, <1>7, <1>8, <1>9

\* AdminDebit preserves the invariant.
LEMMA AdminDebitIInv ==
  ASSUME IInv, NEW r \in Request, NEW u \in User, NEW amount \in Amount, AdminDebit(r, u, amount)
  PROVE  IInv'
  <1> USE LedgerAssumption DEF AdminDebit, Begin, NewJob, IInv, ledgerVars, chapterVars,
      invoiceVars
  <1>1. TypeOK'
    BY DEF TypeOK, JobOK, Job, ForInvoice, Pc, InvoiceStatus
  <1>2. JobOK'
    BY DEF TypeOK, JobOK, Job, ForInvoice
  <1>3. WalletLocksOK'
    BY DEF TypeOK, JobOK, Job, WalletLocksOK, ForInvoice
  <1>4. InvoiceLocksOK'
    BY DEF TypeOK, JobOK, Job, InvoiceLocksOK, ForInvoice, FreshAuthority
  <1>5. FreshAuthority'
    BY DEF TypeOK, FreshAuthority
  <1>6. LedgerBalances'
    BY DEF TypeOK, JobOK, Job, WalletLocksOK, LedgerBalances
  <1>7. ChargedOnce'
    BY DEF TypeOK, JobOK, Job, PaidIsOwned, ChargedOnce
  <1>8. PaidIsOwned'
    BY DEF TypeOK, JobOK, Job, PaidIsOwned
  <1>9. CreditedOnce'
    BY DEF TypeOK, JobOK, Job, ForInvoice, InvoiceLocksOK, CreditedOnce
  <1>10. QED
    BY <1>1, <1>2, <1>3, <1>4, <1>5, <1>6, <1>7, <1>8, <1>9

\* PurchaseChapter preserves the invariant.
LEMMA PurchaseChapterIInv ==
  ASSUME IInv, NEW r \in Request, NEW u \in User, NEW c \in Chapter, PurchaseChapter(r, u, c)
  PROVE  IInv'
  <1> USE LedgerAssumption DEF PurchaseChapter, Begin, NewJob, IInv, ledgerVars,
      chapterVars, invoiceVars
  <1>1. TypeOK'
    <2>1. NewJob(u, chapter[c].price, c, None) \in Job
      <3>1. chapter[c].price \in Price \cup {Free}
        BY DEF TypeOK
      <3>2. chapter[c].price \in Nat \cup {Free}
        BY <3>1
      <3> HIDE DEF PurchaseChapter, IInv
      <3>3. QED
        BY <3>2 DEF Job
    <2>2. job' \in [Request -> Job \cup {None}]
      BY <2>1 DEF TypeOK
    <2>3. pc' \in [Request -> Pc]
      BY DEF TypeOK, Pc
    <2>4. QED
      BY <2>2, <2>3 DEF TypeOK
  <1>2. JobOK'
    <2>1. NewJob(u, chapter[c].price, c, None) \in Job
      <3>1. chapter[c].price \in Price \cup {Free}
        BY DEF TypeOK
      <3>2. chapter[c].price \in Nat \cup {Free}
        BY <3>1
      <3> HIDE DEF PurchaseChapter, IInv
      <3>3. QED
        BY <3>2 DEF Job
    <2>2. QED
      BY <2>1 DEF TypeOK, JobOK, ForInvoice
  <1>3. WalletLocksOK'
    BY DEF TypeOK, JobOK, Job, WalletLocksOK, ForInvoice
  <1>4. InvoiceLocksOK'
    BY DEF TypeOK, JobOK, Job, InvoiceLocksOK, ForInvoice, FreshAuthority
  <1>5. FreshAuthority'
    BY DEF TypeOK, FreshAuthority
  <1>6. LedgerBalances'
    BY DEF TypeOK, JobOK, Job, WalletLocksOK, LedgerBalances
  <1>7. ChargedOnce'
    BY DEF TypeOK, JobOK, Job, PaidIsOwned, ChargedOnce
  <1>8. PaidIsOwned'
    BY DEF TypeOK, JobOK, Job, PaidIsOwned
  <1>9. CreditedOnce'
    BY DEF TypeOK, JobOK, Job, ForInvoice, InvoiceLocksOK, CreditedOnce
  <1>10. QED
    BY <1>1, <1>2, <1>3, <1>4, <1>5, <1>6, <1>7, <1>8, <1>9

\* InitializePayment preserves the invariant.
LEMMA InitializePaymentIInv ==
  ASSUME IInv, NEW r \in Request, NEW i \in Invoice, InitializePayment(r, i)
  PROVE  IInv'
  <1> USE LedgerAssumption DEF InitializePayment, Begin, NewJob, IInv, ledgerVars,
      chapterVars, invoiceVars
  <1>1. TypeOK'
    BY DEF TypeOK, JobOK, Job, ForInvoice, Pc, InvoiceStatus
  <1>2. JobOK'
    BY DEF TypeOK, JobOK, Job, ForInvoice
  <1>3. WalletLocksOK'
    BY DEF TypeOK, JobOK, Job, WalletLocksOK, ForInvoice
  <1>4. InvoiceLocksOK'
    BY DEF TypeOK, JobOK, Job, InvoiceLocksOK, ForInvoice, FreshAuthority
  <1>5. FreshAuthority'
    BY DEF TypeOK, FreshAuthority
  <1>6. LedgerBalances'
    BY DEF TypeOK, JobOK, Job, WalletLocksOK, LedgerBalances
  <1>7. ChargedOnce'
    BY DEF TypeOK, JobOK, Job, PaidIsOwned, ChargedOnce
  <1>8. PaidIsOwned'
    BY DEF TypeOK, JobOK, Job, PaidIsOwned
  <1>9. CreditedOnce'
    BY DEF TypeOK, JobOK, Job, ForInvoice, InvoiceLocksOK, CreditedOnce
  <1>10. QED
    BY <1>1, <1>2, <1>3, <1>4, <1>5, <1>6, <1>7, <1>8, <1>9

\* VerifyPayment preserves the invariant.
LEMMA VerifyPaymentIInv ==
  ASSUME IInv, NEW r \in Request, NEW i \in Invoice, VerifyPayment(r, i)
  PROVE  IInv'
  <1> USE LedgerAssumption DEF VerifyPayment, Begin, NewJob, IInv, ledgerVars,
      chapterVars, invoiceVars
  <1>1. TypeOK'
    BY DEF TypeOK, JobOK, Job, ForInvoice, Pc, InvoiceStatus
  <1>2. JobOK'
    BY DEF TypeOK, JobOK, Job, ForInvoice
  <1>3. WalletLocksOK'
    BY DEF TypeOK, JobOK, Job, WalletLocksOK, ForInvoice
  <1>4. InvoiceLocksOK'
    BY DEF TypeOK, JobOK, Job, InvoiceLocksOK, ForInvoice, FreshAuthority
  <1>5. FreshAuthority'
    BY DEF TypeOK, FreshAuthority
  <1>6. LedgerBalances'
    BY DEF TypeOK, JobOK, Job, WalletLocksOK, LedgerBalances
  <1>7. ChargedOnce'
    BY DEF TypeOK, JobOK, Job, PaidIsOwned, ChargedOnce
  <1>8. PaidIsOwned'
    BY DEF TypeOK, JobOK, Job, PaidIsOwned
  <1>9. CreditedOnce'
    BY DEF TypeOK, JobOK, Job, ForInvoice, InvoiceLocksOK, CreditedOnce
  <1>10. QED
    BY <1>1, <1>2, <1>3, <1>4, <1>5, <1>6, <1>7, <1>8, <1>9

\* EnsureWallet preserves the invariant.
LEMMA EnsureWalletIInv ==
  ASSUME IInv, NEW u \in User, EnsureWallet(u)
  PROVE  IInv'
  <1> USE LedgerAssumption DEF EnsureWallet, IInv, ledgerVars, chapterVars, invoiceVars
  <1>1. TypeOK'
    BY DEF TypeOK, JobOK, Job, ForInvoice, Pc, InvoiceStatus
  <1>2. JobOK'
    BY DEF TypeOK, JobOK, Job, ForInvoice
  <1>3. WalletLocksOK'
    BY DEF TypeOK, JobOK, Job, WalletLocksOK, ForInvoice
  <1>4. InvoiceLocksOK'
    BY DEF TypeOK, JobOK, Job, InvoiceLocksOK, ForInvoice, FreshAuthority
  <1>5. FreshAuthority'
    BY DEF TypeOK, FreshAuthority
  <1>6. LedgerBalances'
    BY DEF TypeOK, JobOK, Job, WalletLocksOK, LedgerBalances
  <1>7. ChargedOnce'
    BY DEF TypeOK, JobOK, Job, PaidIsOwned, ChargedOnce
  <1>8. PaidIsOwned'
    BY DEF TypeOK, JobOK, Job, PaidIsOwned
  <1>9. CreditedOnce'
    BY DEF TypeOK, JobOK, Job, ForInvoice, InvoiceLocksOK, CreditedOnce
  <1>10. QED
    BY <1>1, <1>2, <1>3, <1>4, <1>5, <1>6, <1>7, <1>8, <1>9

\* SaveChapter preserves the invariant.
LEMMA SaveChapterIInv ==
  ASSUME IInv, NEW c \in Chapter, NEW status \in {"DRAFT", "PUBLISHED"}, NEW price \in Price \cup {Free}, SaveChapter(c, status, price)
  PROVE  IInv'
  <1> USE LedgerAssumption DEF SaveChapter, IInv, ledgerVars, chapterVars, invoiceVars
  <1>1. TypeOK'
    <2>1. [status |-> status, price |-> price] \in [status : ChapterStatus, price : Price \cup {Free}]
      BY DEF ChapterStatus
    <2>2. QED
      BY <2>1 DEF TypeOK
  <1>2. JobOK'
    BY DEF TypeOK, JobOK, Job, ForInvoice
  <1>3. WalletLocksOK'
    BY DEF TypeOK, JobOK, Job, WalletLocksOK, ForInvoice
  <1>4. InvoiceLocksOK'
    BY DEF TypeOK, JobOK, Job, InvoiceLocksOK, ForInvoice, FreshAuthority
  <1>5. FreshAuthority'
    BY DEF TypeOK, FreshAuthority
  <1>6. LedgerBalances'
    BY DEF TypeOK, JobOK, Job, WalletLocksOK, LedgerBalances
  <1>7. ChargedOnce'
    BY DEF TypeOK, JobOK, Job, PaidIsOwned, ChargedOnce
  <1>8. PaidIsOwned'
    BY DEF TypeOK, JobOK, Job, PaidIsOwned
  <1>9. CreditedOnce'
    BY DEF TypeOK, JobOK, Job, ForInvoice, InvoiceLocksOK, CreditedOnce
  <1>10. QED
    BY <1>1, <1>2, <1>3, <1>4, <1>5, <1>6, <1>7, <1>8, <1>9

\* DeleteChapter preserves the invariant.
LEMMA DeleteChapterIInv ==
  ASSUME IInv, NEW c \in Chapter, DeleteChapter(c)
  PROVE  IInv'
  <1> USE LedgerAssumption DEF DeleteChapter, IInv, ledgerVars, chapterVars, invoiceVars
  <1>1. TypeOK'
    <2>1. chapter' \in [Chapter -> [status : ChapterStatus, price : Price \cup {Free}]]
      BY SMTT(30) DEF TypeOK, ChapterStatus
    <2>2. access' \subseteq User \X Chapter
      BY DEF TypeOK
    <2>3. QED
      BY <2>1, <2>2 DEF TypeOK
  <1>2. JobOK'
    BY DEF TypeOK, JobOK, Job, ForInvoice
  <1>3. WalletLocksOK'
    BY DEF TypeOK, JobOK, Job, WalletLocksOK, ForInvoice
  <1>4. InvoiceLocksOK'
    BY DEF TypeOK, JobOK, Job, InvoiceLocksOK, ForInvoice, FreshAuthority
  <1>5. FreshAuthority'
    BY DEF TypeOK, FreshAuthority
  <1>6. LedgerBalances'
    BY DEF TypeOK, JobOK, Job, WalletLocksOK, LedgerBalances
  <1>7. ChargedOnce'
    BY DEF TypeOK, JobOK, Job, PaidIsOwned, ChargedOnce
  <1>8. PaidIsOwned'
    BY DEF TypeOK, JobOK, Job, PaidIsOwned
  <1>9. CreditedOnce'
    BY DEF TypeOK, JobOK, Job, ForInvoice, InvoiceLocksOK, CreditedOnce
  <1>10. QED
    BY <1>1, <1>2, <1>3, <1>4, <1>5, <1>6, <1>7, <1>8, <1>9

\* A stuttering step preserves the invariant.
LEMMA StutterIInv ==
  ASSUME IInv, UNCHANGED vars
  PROVE  IInv'
  <1> USE DEF vars, ledgerVars, chapterVars, invoiceVars, IInv
  <1>1. TypeOK' /\ JobOK' /\ WalletLocksOK'
    BY DEF TypeOK, JobOK, WalletLocksOK
  <1>2. InvoiceLocksOK' /\ FreshAuthority' /\ LedgerBalances'
    BY DEF InvoiceLocksOK, FreshAuthority, LedgerBalances
  <1>3. ChargedOnce' /\ PaidIsOwned' /\ CreditedOnce'
    BY DEF ChargedOnce, PaidIsOwned, CreditedOnce
  <1>4. QED
    BY <1>1, <1>2, <1>3

\* Hence every step does.
LEMMA NextIInv == IInv /\ [Next]_vars => IInv'
  <1> SUFFICES ASSUME IInv, [Next]_vars PROVE IInv'
    OBVIOUS
  <1>1. CASE Admin
    BY <1>1, EnsureWalletIInv, DeleteChapterIInv, SaveChapterIInv DEF Admin
  <1>2. ASSUME NEW r \in Request, Arrive(r)
        PROVE  IInv'
    <2>1. ASSUME NEW u \in User, NEW amount \in Amount,
                 AdminCredit(r, u, amount) \/ AdminDebit(r, u, amount)
          PROVE  IInv'
      BY <2>1, AdminCreditIInv, AdminDebitIInv
    <2>2. ASSUME NEW u \in User, NEW c \in Chapter, PurchaseChapter(r, u, c)
          PROVE  IInv'
      BY <2>2, PurchaseChapterIInv
    <2>3. ASSUME NEW i \in Invoice, InitializePayment(r, i) \/ VerifyPayment(r, i)
          PROVE  IInv'
      BY <2>3, InitializePaymentIInv, VerifyPaymentIInv
    <2>4. QED
      BY <1>2, <2>1, <2>2, <2>3 DEF Arrive
  <1>3. ASSUME NEW r \in Request, Step(r)
        PROVE  IInv'
    <2>1. ASSUME \/ CreditNotFound(r) \/ DebitInsufficient(r) \/ DebitRefused(r)
                 \/ PurchaseConflict(r)
          PROVE  IInv'
      BY <2>1, RollbackIInv
         DEF CreditNotFound, DebitInsufficient, DebitRefused, PurchaseConflict
    <2>2. ASSUME NEW success \in BOOLEAN, GatewayAnswers(r, success)
          PROVE  IInv'
      BY <2>2, GatewayAnswersIInv
    <2>3. QED
      BY <1>3, <2>1, <2>2, CreditUpdateIInv, CreditCommitIInv, DebitUpdateIInv,
         DebitCommitIInv, FindAccessIInv, GrantFreeIInv, CreateInvoiceIInv,
         MarkFailedIInv, SettleInvoiceIInv
         DEF Step
  <1>4. ASSUME NEW r \in Request, Abort(r)
        PROVE  IInv'
    BY <1>4, RollbackIInv DEF Abort
  <1>5. CASE UNCHANGED vars
    BY <1>5, StutterIInv
  <1>6. QED
    BY <1>1, <1>2, <1>3, <1>4, <1>5 DEF Next

\* The invariant holds in every reachable state of the handlers.
THEOREM Invariance == Spec => []IInv
  BY InitIInv, NextIInv, PTL DEF Spec

-----------------------------------------------------------------------------
(***************************************************************************)
(* What follows from the invariant                                         *)
(***************************************************************************)

\* Every variable has its type in every reachable state.
THEOREM TypeCorrect == Spec => []TypeOK
  BY Invariance, PTL DEF IInv

\* Balances are the sum of the ledger rows and never negative (credit, debit).
THEOREM BalancesAreLedgers == Spec => []LedgerBalances
  BY Invariance, PTL DEF IInv

\* No user pays twice for a chapter (purchaseChapter).
THEOREM NoDoubleCharge == Spec => []ChargedOnce
  BY Invariance, PTL DEF IInv

\* Whoever paid for a chapter can read it while it exists (purchaseChapter).
THEOREM PaidChaptersAreOwned == Spec => []PaidIsOwned
  BY Invariance, PTL DEF IInv

\* No invoice is credited twice, SUCCESS means credited (verifyPayment).
THEOREM NoDoubleCredit == Spec => []CreditedOnce
  BY Invariance, PTL DEF IInv

\* A charge and the access it pays for are one step (purchaseChapter).
THEOREM ChargesGrantAccess == Spec => ChargeGrantsAccess
  <1>1. IInv /\ [Next]_vars =>
          [\A uc \in User \X Chapter : paid'[uc] > paid[uc] => uc \in access' \ access]_vars
    <2> SUFFICES ASSUME IInv, Next, NEW uc \in User \X Chapter, paid'[uc] > paid[uc]
                 PROVE  uc \in access' \ access
      OBVIOUS
    <2> USE DEF IInv, TypeOK
    <2>1. ASSUME paid' = paid
          PROVE  FALSE
      BY <2>1
    <2>2. PICK r \in Request : DebitCommit(r)
      BY <2>1 DEF Next, Admin, Arrive, Step, Abort, Rollback, EnsureWallet, DeleteChapter,
         SaveChapter, AdminCredit, AdminDebit, PurchaseChapter, InitializePayment,
         VerifyPayment, CreditUpdate, LockWallet, CreditNotFound, CreditCommit, DebitUpdate,
         DebitInsufficient, DebitRefused, PurchaseConflict, FindAccess, GrantFree,
         CreateInvoice, GatewayAnswers, MarkFailed, SettleInvoice, chapterVars
    <2> DEFINE bought == <<job[r].user, job[r].chapter>>
    <2>3. /\ job[r].chapter # None
          /\ bought \notin access
          /\ access' = access \cup {bought}
          /\ paid' = [paid EXCEPT ![bought] = @ + 1]
      BY <2>1, <2>2 DEF DebitCommit, CanInsertAccess
    <2>4. uc = bought
      BY <2>3
    <2>5. QED
      BY <2>3, <2>4
  <1>2. QED
    BY <1>1, Invariance, PTL DEF Spec, ChargeGrantsAccess

\* Only deleteChapter takes access away.
THEOREM AccessOnlyLostWithChapter == Spec => AccessIsKept
  <1>1. IInv /\ [Next]_vars =>
          [\A uc \in access : uc \in access' \/ chapter'[uc[2]].status = "DELETED"]_vars
    <2> SUFFICES ASSUME IInv, Next, NEW uc \in access, uc \notin access'
                 PROVE  chapter'[uc[2]].status = "DELETED"
      OBVIOUS
    <2>1. access' # access
      OBVIOUS
    <2>2. ASSUME NEW r \in Request, Arrive(r) \/ Step(r) \/ Abort(r)
          PROVE  FALSE
      <3>1. access \subseteq access'
        BY <2>2 DEF Arrive, Step, Abort, Rollback, AdminCredit, AdminDebit,
            PurchaseChapter,
           InitializePayment, VerifyPayment, CreditUpdate, LockWallet, CreditNotFound,
           CreditCommit, DebitUpdate, DebitInsufficient, DebitRefused, DebitCommit,
           PurchaseConflict, FindAccess, GrantFree, CreateInvoice, GatewayAnswers, MarkFailed,
           SettleInvoice, chapterVars
      <3>2. QED
        BY <3>1
    <2>3. PICK c \in Chapter : DeleteChapter(c)
      BY <2>1, <2>2 DEF Next, Admin, EnsureWallet, SaveChapter, chapterVars
    <2>4. uc[2] = c
      BY <2>3 DEF DeleteChapter
    <2>5. QED
      BY <2>3, <2>4 DEF DeleteChapter, IInv, TypeOK
  <1>2. QED
    BY <1>1, Invariance, PTL DEF Spec, AccessIsKept

\* A payment reported as failed before it was credited stays uncredited
\* (verifyPayment's claim of the PENDING row).
THEOREM FailedStaysUncredited == Spec => FailedNeverCredits
  <1>1. IInv /\ [Next]_vars =>
          [\A i \in Invoice : invoice[i] = "FAILED" => credits'[i] = credits[i]]_vars
    <2> SUFFICES ASSUME IInv, Next, NEW i \in Invoice, invoice[i] = "FAILED",
                        credits'[i] # credits[i]
                 PROVE  FALSE
      OBVIOUS
    <2>1. PICK r \in Request : CreditCommit(r)
      BY DEF Next, Admin, Arrive, Step, Abort, Rollback, EnsureWallet, DeleteChapter,
         SaveChapter, AdminCredit, AdminDebit, PurchaseChapter, InitializePayment,
         VerifyPayment, CreditUpdate, LockWallet, CreditNotFound, DebitCommit, DebitUpdate,
         DebitInsufficient, DebitRefused, PurchaseConflict, FindAccess, GrantFree,
         CreateInvoice, GatewayAnswers, MarkFailed, SettleInvoice, invoiceVars
    <2>2. job[r].invoice # None /\ i = job[r].invoice
      BY <2>1 DEF CreditCommit, IInv, TypeOK
    <2>3. QED
      BY <2>1, <2>2 DEF CreditCommit, IInv, InvoiceLocksOK
  <1>2. QED
    BY <1>1, Invariance, PTL DEF Spec, FailedNeverCredits

-----------------------------------------------------------------------------
(***************************************************************************)
(* The handlers implement LedgerAbs.  Only five steps are visible there:   *)
(* the two commits, the free grant and the deletion of a chapter; every    *)
(* other step changes no balance, access, charge or credit.                *)
(***************************************************************************)
Invisible == UNCHANGED <<balance, access, paid, credits>>

\* A step that changes nothing LedgerAbs sees is a stutter there.
LEMMA InvisibleStutters == ASSUME Invisible PROVE UNCHANGED Abs!absVars
  BY DEF Invisible, Abs!absVars

\* Committing a credit is a deposit, or the settlement of an invoice.
LEMMA CreditCommitRefines ==
  ASSUME IInv, NEW r \in Request, CreditCommit(r)
  PROVE  Abs!AbsNext
  <1> DEFINE u == job[r].user
             inv == job[r].invoice
             amount == job[r].amount
  <1>1. /\ u \in User
        /\ amount \in Nat \ {0}
        /\ balance \in [User -> Int]
        /\ balance' = [balance EXCEPT ![u] = balance[u] + amount]
        /\ access' = access
        /\ paid' = paid
    BY DEF CreditCommit, IInv, TypeOK, JobOK, Job, WalletLocksOK, chapterVars
  <1>2. CASE inv = None
    <2>1. credits' = credits
      BY <1>2 DEF CreditCommit
    <2> HIDE DEF u, amount
    <2>2. balance'[u] = balance[u] + amount
      BY <1>1
    <2>3. Abs!Deposit(u)
      BY <1>1, <2>1, <2>2 DEF Abs!Deposit, Abs!OnlyMoneyOf
    <2>4. QED
      BY <1>1, <2>3 DEF Abs!AbsNext
  <1>3. CASE inv # None
    <2>1. /\ inv \in Invoice
          /\ u = Owner[inv]
          /\ amount = InvoiceAmount[inv]
          /\ credits[inv] = 0
          /\ credits \in [Invoice -> Nat]
      BY <1>3 DEF CreditCommit, IInv, TypeOK, JobOK, ForInvoice, InvoiceLocksOK,
          CreditedOnce
    <2>2. credits' = [credits EXCEPT ![inv] = credits[inv] + 1]
      BY <1>3 DEF CreditCommit
    <2> HIDE DEF u, amount, inv
    <2>3. PICK i \in Invoice : i = inv
      BY <2>1
    <2>4. Abs!Settle(i)
      BY <1>1, <2>1, <2>2, <2>3 DEF Abs!Settle
    <2>5. QED
      BY <2>4 DEF Abs!AbsNext
  <1>4. QED
    BY <1>2, <1>3

\* Committing a debit is a withdrawal, or the purchase of a chapter.
LEMMA DebitCommitRefines ==
  ASSUME IInv, NEW r \in Request, DebitCommit(r)
  PROVE  Abs!AbsNext
  <1> USE DEF DebitCommit, IInv
  <1> DEFINE u == job[r].user
             c == job[r].chapter
             amount == job[r].amount
  <1>a. /\ u \in User
        /\ amount \in Nat \ {0}
        /\ balance[u] \in Int
        /\ job[r].after = balance[u] - amount
        /\ job[r].after >= 0
    BY DEF TypeOK, JobOK, Job, WalletLocksOK
  <1>1. /\ u \in User
        /\ amount \in 1..balance[u]
        /\ balance' = [balance EXCEPT ![u] = balance[u] - amount]
        /\ credits' = credits
    BY <1>a
  <1>2. CASE c = None
    <2>1. Abs!Withdraw(u)
      BY <1>1, <1>2 DEF Abs!Withdraw
    <2>2. QED
      BY <1>1, <2>1 DEF Abs!AbsNext
  <1>3. CASE c # None
    <2>1. c \in Chapter
      BY <1>3 DEF JobOK, Job
    <2>2. /\ <<u, c>> \in User \X Chapter
          /\ <<u, c>> \notin access
          /\ paid[<<u, c>>] = 0
      <3>1. <<u, c>> \notin access /\ chapter[c].status # "DELETED"
        BY <1>3 DEF CanInsertAccess
      <3>2. paid \in [User \X Chapter -> Nat]
        BY DEF TypeOK
      <3> HIDE DEF u, c
      <3>3. PICK v \in User, d \in Chapter : v = u /\ d = c
        BY <1>1, <2>1
      <3>4. ~(paid[<<v, d>>] > 0)
        BY <3>1, <3>3 DEF PaidIsOwned
      <3>5. QED
        BY <3>1, <3>2, <3>3, <3>4
    <2>3. /\ access' = access \cup {<<u, c>>}
          /\ paid' = [paid EXCEPT ![<<u, c>>] = paid[<<u, c>>] + 1]
      BY <1>3
    <2>4. Abs!Buy(u, c)
      <3> HIDE DEF u, c, amount, DebitCommit, IInv
      <3>1. paid' = [paid EXCEPT ![<<u, c>>] = 1]
        BY <2>2, <2>3
      <3>2. QED
        BY <1>1, <2>2, <2>3, <3>1 DEF Abs!Buy
    <2>5. QED
      BY <1>1, <2>1, <2>4 DEF Abs!AbsNext
  <1>4. QED
    BY <1>2, <1>3

\* Every step of a handler is a step of LedgerAbs or invisible.
LEMMA StepRefines ==
  ASSUME IInv, NEW r \in Request, Step(r)
  PROVE  Abs!AbsNext \/ UNCHANGED Abs!absVars
  <1>1. ASSUME GrantFree(r)
        PROVE  Abs!AbsNext \/ UNCHANGED Abs!absVars
    <2> DEFINE u == job[r].user
               c == job[r].chapter
    <2>1. /\ u \in User
          /\ c \in Chapter
          /\ UNCHANGED <<balance, paid, credits>>
      BY <1>1 DEF GrantFree, IInv, JobOK, Job, ledgerVars, invoiceVars
    <2>2. access' = access \/ access' = access \cup {<<u, c>>}
      BY <1>1 DEF GrantFree
    <2>3. CASE access' = access
      BY <2>1, <2>3, InvisibleStutters DEF Invisible
    <2>4. CASE access' = access \cup {<<u, c>>}
      BY <2>1, <2>4 DEF Abs!AbsNext, Abs!Grant
    <2>5. QED
      BY <2>2, <2>3, <2>4
  <1>2. ASSUME Invisible
        PROVE  UNCHANGED Abs!absVars
    BY <1>2, InvisibleStutters
  <1>3. \/ CreditCommit(r) \/ DebitCommit(r) \/ GrantFree(r)
        \/ Invisible
    BY DEF Step, CreditUpdate, LockWallet, CreditNotFound, DebitUpdate, DebitInsufficient,
       DebitRefused, PurchaseConflict, FindAccess, CreateInvoice, GatewayAnswers, MarkFailed,
       SettleInvoice, Rollback, Invisible, ledgerVars, chapterVars, invoiceVars
  <1>4. QED
    BY <1>1, <1>2, <1>3, CreditCommitRefines, DebitCommitRefines

\* So is every step of the system.
LEMMA NextRefines == IInv /\ [Next]_vars => [Abs!AbsNext]_(Abs!absVars)
  <1> SUFFICES ASSUME IInv, [Next]_vars PROVE Abs!AbsNext \/ UNCHANGED Abs!absVars
    OBVIOUS
  <1> USE DEF ledgerVars, chapterVars, invoiceVars, Invisible
  <1>1. ASSUME NEW c \in Chapter, DeleteChapter(c)
        PROVE  Abs!AbsNext
    BY <1>1 DEF DeleteChapter, Abs!AbsNext, Abs!Withdrawn
  <1>2. ASSUME Admin, ~(\E c \in Chapter : DeleteChapter(c))
        PROVE  UNCHANGED Abs!absVars
    BY <1>2, InvisibleStutters DEF Admin, EnsureWallet, SaveChapter
  <1>3. ASSUME NEW r \in Request, Arrive(r) \/ Abort(r)
        PROVE  UNCHANGED Abs!absVars
    BY <1>3, InvisibleStutters DEF Arrive, AdminCredit, AdminDebit, PurchaseChapter,
       InitializePayment, VerifyPayment, Abort, Rollback
  <1>4. CASE UNCHANGED vars
    BY <1>4, InvisibleStutters DEF vars
  <1>5. QED
    BY <1>1, <1>2, <1>3, <1>4, StepRefines DEF Next

\* Transactions, locks and stale reads never show: the handlers implement the
\* atomic ledger (credit, debit, purchaseChapter, verifyPayment, deleteChapter).
THEOREM LedgerRefinement == Spec => ImplementsLedger
  <1>1. Init => Abs!AbsInit
    BY DEF Init, Abs!AbsInit
  <1>2. QED
    BY <1>1, Invariance, NextRefines, PTL DEF Spec, ImplementsLedger, Abs!AbsSpec

=============================================================================
