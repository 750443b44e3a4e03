---------------------------- MODULE MCWalletLedger ----------------------------
(* Instances of WalletLedger for TLC: every invoice belongs to buyer and      *)
(* credits 2, the price of the dearest chapter.                               *)
EXTENDS WalletLedger, TLC

CONSTANTS buyer

MCOwner == [i \in Invoice |-> buyer]
MCInvoiceAmount == [i \in Invoice |-> 2]

\* Requests, and chapters, differ by name only.
Symmetry == Permutations(Request) \cup Permutations(Chapter)
=============================================================================
