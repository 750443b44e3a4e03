------------------------------ MODULE LedgerAbs ------------------------------
(***************************************************************************)
(* What the money side of Readory promises, one atomic step per business   *)
(* event: no requests, no transactions, no locks.  WalletLedger.tla models *)
(* the handlers that implement it step by step.                            *)
(***************************************************************************)
EXTENDS Naturals

CONSTANTS User, Chapter, Invoice,
          Owner,          \* the user an invoice belongs to
          InvoiceAmount   \* the amount an invoice credits

VARIABLES money,     \* the balance of every user
          owned,     \* the <<user, chapter>> pairs with access
          charges,   \* how often a user was charged for a chapter
          credited   \* how often an invoice was credited

absVars == <<money, owned, charges, credited>>

AbsInit == /\ money = [u \in User |-> 0]
           /\ owned = {}
           /\ charges = [uc \in User \X Chapter |-> 0]
           /\ credited = [i \in Invoice |-> 0]

\* Only the balance of u changes.
OnlyMoneyOf(u) == money' = [money EXCEPT ![u] = money'[u]]

Deposit(u) == /\ OnlyMoneyOf(u)
              /\ money'[u] > money[u]
              /\ UNCHANGED <<owned, charges, credited>>

Withdraw(u) == /\ \E amount \in 1..money[u] : money' = [money EXCEPT ![u] = @ - amount]
               /\ UNCHANGED <<owned, charges, credited>>

\* Money and access move together; nobody pays for what they own, or twice.
Buy(u, c) == /\ <<u, c>> \notin owned
             /\ charges[<<u, c>>] = 0
             /\ owned' = owned \cup {<<u, c>>}
             /\ charges' = [charges EXCEPT ![<<u, c>>] = 1]
             /\ \E price \in 1..money[u] : money' = [money EXCEPT ![u] = @ - price]
             /\ UNCHANGED credited

Grant(u, c) == /\ owned' = owned \cup {<<u, c>>}
               /\ UNCHANGED <<money, charges, credited>>

\* An invoice is credited at most once, to its owner, for its amount.
Settle(i) == /\ credited[i] = 0
             /\ credited' = [credited EXCEPT ![i] = 1]
             /\ money' = [money EXCEPT ![Owner[i]] = @ + InvoiceAmount[i]]
             /\ UNCHANGED <<owned, charges>>

\* Access disappears only with its chapter, for every user at once.
Withdrawn(c) == /\ owned' = {uc \in owned : uc[2] # c}
                /\ UNCHANGED <<money, charges, credited>>

AbsNext == \/ \E u \in User : Deposit(u) \/ Withdraw(u)
           \/ \E u \in User, c \in Chapter : Buy(u, c) \/ Grant(u, c)
           \/ \E i \in Invoice : Settle(i)
           \/ \E c \in Chapter : Withdrawn(c)

AbsSpec == AbsInit /\ [][AbsNext]_absVars
=============================================================================
