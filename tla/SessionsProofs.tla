---------------------------- MODULE SessionsProofs ----------------------------
(***************************************************************************)
(* Proofs about Sessions for every number of users, devices, sessions and  *)
(* concurrent requests, every device limit of either role and every number *)
(* of refreshes and account changes.                                       *)
(***************************************************************************)
EXTENDS Sessions, FiniteSetTheorems, TLAPS

(***************************************************************************)
(* The inductive invariant.  A handler holds what it has read, so each     *)
(* safety property needs to say what the requests under way will still do: *)
(* StepOK says what a request knows at its step, and the other conjuncts   *)
(* name the request that is going to repair what is not yet as promised.   *)
(***************************************************************************)
Knows(rec) ==
  /\ rec.at \in {"update", "create", "retry"} =>
       rec.op = "login" /\ rec.user \in User /\ rec.device \in Device
  /\ rec.at = "rotate" => rec.op = "refresh" /\ rec.user \in User /\ rec.session \in Session
  /\ rec.at \in {"cache", "enforce"} => rec.user \in User /\ rec.session \in Session
  /\ rec.at = "cache" => rec.op \in {"login", "refresh"}
  /\ rec.at = "enforce" => rec.op = "login"
  /\ rec.at \in {"list", "delete"} => rec.op \notin {"none", "unban", "uncache", "refresh"}
  /\ rec.at = "list" => rec.op # "login"
  /\ rec.at = "change" => rec.op \in AccountOp
  /\ rec.op \in AccountOp => rec.user \in User
StepOK == \A p \in Process : Knows(proc[p])

\* The token of a session was issued, belongs to no other session and was not exchanged.
TokensOK ==
  /\ \A t \in DOMAIN issued : issued[t] <= Issued
  /\ \A s \in Rows : row[s].token <= Issued /\ \A t \in DOMAIN issued : issued[t] # row[s].token
  /\ \A s1, s2 \in Rows : row[s1].token = row[s2].token => s1 = s2
  /\ TokenExchangedOnce

\* A copy that outlives its row is about to be removed.
Removing(s) == \E p \in Process : At(p, "uncache") /\ s \in proc[p].ids
DeadOK(s) == row[s] = None => cached[s] = None \/ Removing(s)
DeadCopiesOK == \A s \in Session \ outlived : DeadOK(s)

\* A copy that differs from its row is about to be rewritten, or the sessions of its user
\* are about to be deleted.
Writing(s) == \E p \in Process : At(p, "cache") /\ proc[p].session = s
Revoking(u) == \E p \in Process : /\ proc[p].op \in {"ban", "role"} /\ proc[p].at \in {"list", "delete"}
                                  /\ proc[p].user = u
LiveOK(s) ==
  cached[s] # None /\ row[s] # None =>
    \/ Writing(s)
    \/ /\ cached[s].user = row[s].user
       /\ account[row[s].user].version = cached[s].version \/ Revoking(row[s].user)
LiveCopiesOK == \A s \in Session \ (outlived \cup outdated) : LiveOK(s)

\* Too many sessions: a login will evict some, or has chosen enough of them, or the change
\* of role that lowered the limit will delete them all.
Limit(u) == MaxDevices(account[u].admin)
Counting(u) == \E p \in Process : /\ proc[p].op = "login" /\ proc[p].at \in {"cache", "enforce"}
                                  /\ proc[p].user = u
Evicting(u) == \E p \in Process : /\ proc[p].op = "login" /\ proc[p].at = "delete" /\ proc[p].user = u
                                  /\ Cardinality(RowsOf(u) \ proc[p].ids) <= Limit(u)
Demoting(u) == \E p \in Process : /\ proc[p].op = "role" /\ proc[p].at \in {"list", "delete"}
                                  /\ proc[p].user = u
FewOK(u) == Cardinality(RowsOf(u)) <= Limit(u) \/ Counting(u) \/ Evicting(u) \/ Demoting(u)
LimitOK == \A u \in User \ overfull : FewOK(u)

IInv == TypeOK /\ StepOK /\ TokensOK /\ DeadCopiesOK /\ LiveCopiesOK /\ LimitOK

-----------------------------------------------------------------------------
\* The sessions of a user are finitely many.
LEMMA RowsFinite ==
  ASSUME NEW S \in SUBSET Session
  PROVE  IsFiniteSet(S) /\ Cardinality(S) \in Nat
  <1>1. IsFiniteSet(Session)
    BY SessionsAssumption, FS_Interval DEF Session
  <1>2. QED
    BY <1>1, FS_Subset, FS_CardinalityType

\* The device limit of a role is a positive number.
LEMMA LimitType ==
  ASSUME NEW admin
  PROVE  MaxDevices(admin) \in Nat /\ MaxDevices(admin) > 0
  BY SessionsAssumption DEF MaxDevices

\* Fewer sessions are no more sessions.
LEMMA FewerRows ==
  ASSUME NEW n \in Nat, NEW S \in SUBSET Session, NEW T \in SUBSET S, Cardinality(S) <= n
  PROVE  Cardinality(T) <= n
  <1>1. IsFiniteSet(S) /\ Cardinality(S) \in Nat /\ Cardinality(T) \in Nat
    BY RowsFinite
  <1>2. Cardinality(T) <= Cardinality(S)
    BY <1>1, FS_Subset
  <1>3. QED
    BY <1>1, <1>2

\* What is left when some of the sessions are deleted.
LEMMA Difference ==
  ASSUME NEW S, IsFiniteSet(S), NEW T \in SUBSET S
  PROVE  Cardinality(S \ T) = Cardinality(S) - Cardinality(T)
  <1>1. IsFiniteSet(T) /\ Cardinality(T) \in Nat /\ Cardinality(S) \in Nat
    BY FS_Subset, FS_CardinalityType
  <1>2. S \cap T = T
    OBVIOUS
  <1>3. Cardinality(S \ T) = Cardinality(S) - Cardinality(S \cap T)
    BY <1>1, FS_Difference
  <1>4. QED
    BY <1>2, <1>3

\* The invariant holds initially.
LEMMA InitIInv == Init => IInv
  <1> SUFFICES ASSUME Init PROVE IInv
    OBVIOUS
  <1> USE SessionsAssumption DEF Init
  <1>1. TypeOK
    BY DEF TypeOK, Account, Rows, Session, Issued, Doing, Idle, Op, Step
  <1>2. StepOK
    BY DEF StepOK, Knows, Idle, AccountOp
  <1>3. TokensOK
    BY DEF TokensOK, TokenExchangedOnce, Rows
  <1>4. DeadCopiesOK /\ LiveCopiesOK
    BY DEF DeadCopiesOK, DeadOK, LiveCopiesOK, LiveOK
  <1>5. LimitOK
    <2>1. \A u \in User : RowsOf(u) = {}
      BY DEF RowsOf, Rows
    <2>2. ASSUME NEW u \in User PROVE Cardinality({}) <= Limit(u)
      BY FS_EmptySet, LimitType DEF Limit
    <2>3. QED
      BY <2>1, <2>2 DEF LimitOK, FewOK
  <1>6. QED
    BY <1>1, <1>2, <1>3, <1>4, <1>5 DEF IInv

(***************************************************************************)
(* What a step of one request leaves as promised: a request that is going  *)
(* to repair something still is, unless it is the one that takes the step. *)
(***************************************************************************)
\* A step of p that keeps what p will remove, and does not rewrite or delete s.
LEMMA DeadStep ==
  ASSUME IInv, NEW p \in Process, NEW rec, proc' = [proc EXCEPT ![p] = rec],
         NEW s \in Session \ outlived,
         row'[s] = None => row[s] = None,
         cached'[s] = cached[s],
         At(p, "uncache") /\ s \in proc[p].ids => rec.at = "uncache" /\ s \in rec.ids
  PROVE  DeadOK(s)'
  <1>1. DeadOK(s)
    BY DEF IInv, DeadCopiesOK
  <1>2. Removing(s) => Removing(s)'
    BY DEF IInv, TypeOK, Removing, At
  <1>3. QED
    BY <1>1, <1>2 DEF DeadOK

\* A step of p that keeps what p will write or revoke, and does not rewrite s.
LEMMA LiveStep ==
  ASSUME IInv, NEW p \in Process, NEW rec, proc' = [proc EXCEPT ![p] = rec],
         NEW s \in Session \ (outlived \cup outdated),
         row'[s] # None => row[s] # None /\ row'[s].user = row[s].user,
         cached'[s] = cached[s],
         row'[s] # None => account'[row[s].user].version = account[row[s].user].version,
         At(p, "cache") /\ proc[p].session = s => rec.at = "cache" /\ rec.session = s,
         row'[s] # None /\ proc[p].user = row[s].user
         /\ proc[p].op \in {"ban", "role"} /\ proc[p].at \in {"list", "delete"} =>
           rec.op \in {"ban", "role"} /\ rec.at \in {"list", "delete"} /\ rec.user = row[s].user
  PROVE  LiveOK(s)'
  <1>1. LiveOK(s)
    BY DEF IInv, LiveCopiesOK
  <1>2. Writing(s) => Writing(s)'
    BY DEF IInv, TypeOK, Writing, At
  <1>3. row'[s] # None /\ Revoking(row[s].user) => Revoking(row[s].user)'
    BY DEF IInv, TypeOK, Revoking
  <1>4. QED
    BY <1>1, <1>2, <1>3 DEF LiveOK, Revoking

\* A step of p that adds no session to u, keeps his role and keeps p counting or revoking.
LEMMA LimitStep ==
  ASSUME IInv, NEW p \in Process, NEW rec, proc' = [proc EXCEPT ![p] = rec],
         NEW u \in User \ overfull,
         RowsOf(u)' \subseteq RowsOf(u),
         account'[u].admin = account[u].admin,
         proc[p].op = "login" /\ proc[p].user = u =>
           /\ proc[p].at # "delete"
           /\ proc[p].at \in {"cache", "enforce"} =>
                rec.op = "login" /\ rec.user = u /\ rec.at \in {"cache", "enforce"},
         proc[p].op = "role" /\ proc[p].at \in {"list", "delete"} /\ proc[p].user = u =>
           rec.op = "role" /\ rec.at \in {"list", "delete"} /\ rec.user = u
  PROVE  FewOK(u)'
  <1> DEFINE R == RowsOf(u)
             n == Limit(u)
  <1>1. R \subseteq Session /\ FewOK(u) /\ n \in Nat /\ Limit(u)' = n
    BY LimitType DEF IInv, LimitOK, RowsOf, Rows, Limit
  <1> HIDE DEF n
  <1>2. CASE Cardinality(R) <= n
    BY <1>1, <1>2, FewerRows DEF FewOK
  <1>3. CASE Counting(u)
    BY <1>3 DEF IInv, TypeOK, Counting, FewOK
  <1>4. CASE Evicting(u)
    <2>1. PICK q \in Process : /\ proc[q].op = "login" /\ proc[q].at = "delete" /\ proc[q].user = u
                               /\ Cardinality(R \ proc[q].ids) <= n
      BY <1>4 DEF Evicting, n
    <2>2. q # p /\ proc'[q] = proc[q]
      BY <2>1 DEF IInv, TypeOK
    <2>3. Cardinality(RowsOf(u)' \ proc[q].ids) <= n
      <3>1. R \ proc[q].ids \in SUBSET Session /\ RowsOf(u)' \ proc[q].ids \in SUBSET (R \ proc[q].ids)
        BY <1>1
      <3>2. QED
        BY <1>1, <2>1, <3>1, FewerRows
    <2>4. QED
      BY <1>1, <2>1, <2>2, <2>3 DEF Evicting, FewOK
  <1>5. CASE Demoting(u)
    BY <1>5 DEF IInv, TypeOK, Demoting, FewOK
  <1>6. QED
    BY <1>1, <1>2, <1>3, <1>4, <1>5 DEF FewOK, n

\* A step that only moves p on, while p has nothing to repair.
LEMMA MoveOn ==
  ASSUME IInv, NEW p \in Process, NEW rec \in Doing, proc' = [proc EXCEPT ![p] = rec],
         UNCHANGED <<account, row, cached, created, issued, outlived, outdated, overfull>>,
         Knows(rec),
         proc[p].at # "cache",
         At(p, "uncache") => proc[p].ids = {},
         proc[p].op = "login" => proc[p].at \notin {"cache", "enforce", "delete"},
         proc[p].op \in {"ban", "role"} /\ proc[p].at \in {"list", "delete"} =>
           rec.op = proc[p].op /\ rec.at \in {"list", "delete"} /\ rec.user = proc[p].user
  PROVE  IInv'
  <1>1. TypeOK'
    BY DEF IInv, TypeOK, Rows, Issued
  <1>2. StepOK'
    BY DEF IInv, TypeOK, StepOK, Knows
  <1>3. TokensOK'
    BY DEF IInv, TokensOK, TokenExchangedOnce, Rows, Issued
  <1>4. DeadCopiesOK'
    BY DeadStep DEF DeadCopiesOK
  <1>5. LiveCopiesOK'
    <2>1. ASSUME NEW s \in Session \ (outlived \cup outdated)
          PROVE  LiveOK(s)'
      <3>1. /\ row'[s] # None => row[s] # None /\ row'[s].user = row[s].user
            /\ cached'[s] = cached[s]
            /\ row'[s] # None => account'[row[s].user].version = account[row[s].user].version
            /\ At(p, "cache") /\ proc[p].session = s => rec.at = "cache" /\ rec.session = s
        BY DEF At
      <3>2. QED
        BY <3>1, LiveStep
    <2>2. QED
      BY <2>1 DEF LiveCopiesOK
  <1>6. LimitOK'
    BY LimitStep DEF LimitOK, RowsOf, Rows
  <1>7. QED
    BY <1>1, <1>2, <1>3, <1>4, <1>5, <1>6 DEF IInv

(***************************************************************************)
(* Every action preserves the invariant: one lemma per action.             *)
(***************************************************************************)
\* A handler that ends knows nothing more.
LEMMA IdleOK == Idle \in Doing /\ Knows(Idle)
  <1>1. 0 \in 0..MaxSessions /\ 0 \in 0..MaxTokens /\ 0 \in 0..MaxChanges
    BY SessionsAssumption
  <1>2. QED
    BY <1>1 DEF Idle, Doing, Op, Step, Knows, AccountOp

\* A request starts.
LEMMA BeginIInv ==
  ASSUME IInv, NEW p \in Process, NEW rec \in Doing, Begin(p, rec), Knows(rec),
         UNCHANGED <<account, row, cached, created, issued, outlived, outdated, overfull>>
  PROVE  IInv'
  <1>1. /\ proc' = [proc EXCEPT ![p] = rec]
        /\ proc[p].op = "none" /\ proc[p].at = "idle"
    BY DEF Begin, Idle
  <1>2. QED
    BY <1>1, MoveOn DEF At

\* The handlers begin with what they have read of the account or the row.
LEMMA StartIInv ==
  ASSUME IInv, NEW p \in Process, Start(p)
  PROVE  IInv'
  <1> USE SessionsAssumption DEF histories
  <1>a. /\ MaxSessions \in Nat /\ MaxTokens \in Nat
        /\ 0 \in 0..MaxSessions /\ 0 \in 0..MaxTokens /\ 0 \in 0..MaxChanges
    OBVIOUS
  <1>1. ASSUME NEW u \in User, NEW d \in Device, NEW cookie \in BOOLEAN, Login(p, u, d, cookie)
        PROVE  IInv'
    <2> DEFINE rec == [Idle EXCEPT !.op = "login", !.at = IF cookie THEN "update" ELSE "create",
                         !.user = u, !.device = d, !.version = account[u].version,
                         !.admin = account[u].admin]
    <2>1. account[u].version \in 0..MaxChanges /\ account[u].admin \in BOOLEAN
      BY DEF IInv, TypeOK, Account
    <2>2. rec \in Doing /\ Knows(rec)
      BY <1>a, <2>1 DEF Doing, Op, Step, AccountOp, Session, Knows, Idle
    <2>3. Begin(p, rec)
      BY <1>1 DEF Login
    <2> HIDE DEF rec
    <2>4. QED
      BY <1>1, <2>2, <2>3, BeginIInv DEF Login
  <1>2. ASSUME NEW t \in Token, NEW expired \in BOOLEAN, Refresh(p, t, expired)
        PROVE  IInv'
    <2>1. PICK s \in WithToken(t) :
            IF expired \/ account[row[s].user].banned
            THEN Begin(p, [Idle EXCEPT !.op = "all", !.at = "list", !.user = row[s].user])
            ELSE Begin(p, [Idle EXCEPT !.op = "refresh", !.at = "rotate", !.user = row[s].user,
                             !.session = s, !.token = t, !.version = account[row[s].user].version])
      BY <1>2 DEF Refresh
    <2> DEFINE rec1 == [Idle EXCEPT !.op = "all", !.at = "list", !.user = row[s].user]
               rec2 == [Idle EXCEPT !.op = "refresh", !.at = "rotate", !.user = row[s].user,
                          !.session = s, !.token = t, !.version = account[row[s].user].version]
    <2>2. s \in Session /\ s \in 0..MaxSessions /\ t \in 0..MaxTokens /\ row[s].user \in User
      <3>1. s \in Session /\ row[s] \in Row
        BY DEF IInv, TypeOK, WithToken, Rows
      <3>2. QED
        BY <1>a, <3>1 DEF Session, Token, Row
    <2>3. account[row[s].user].version \in 0..MaxChanges
      BY <2>2 DEF IInv, TypeOK, Account
    <2>4. rec1 \in Doing /\ Knows(rec1)
      BY <1>a, <2>2 DEF Doing, Op, Step, AccountOp, Session, Knows, Idle
    <2>5. rec2 \in Doing /\ Knows(rec2)
      BY <1>a, <2>2, <2>3 DEF Doing, Op, Step, AccountOp, Session, Knows, Idle
    <2>6. Begin(p, rec1) \/ Begin(p, rec2)
      BY <2>1
    <2> HIDE DEF rec1, rec2
    <2>7. QED
      BY <1>2, <2>4, <2>5, <2>6, BeginIInv DEF Refresh
  <1>3. ASSUME NEW u \in User, NEW s \in Session, RevokeOne(p, u, s)
        PROVE  IInv'
    <2> DEFINE rec == [Idle EXCEPT !.op = "one", !.at = "delete", !.user = u, !.session = s, !.ids = {s}]
    <2>a. s \in 0..MaxSessions /\ {s} \subseteq Session
      BY <1>a DEF Session
    <2>1. rec \in Doing /\ Knows(rec)
      BY <1>a, <2>a DEF Doing, Op, Step, AccountOp, Knows, Idle
    <2>2. Begin(p, rec)
      BY <1>3 DEF RevokeOne
    <2> HIDE DEF rec
    <2>3. QED
      BY <1>3, <2>1, <2>2, BeginIInv DEF RevokeOne
  <1>4. ASSUME NEW op \in {"others", "all", "expired"}, NEW u \in User \cup {None}, NEW s \in 0..MaxSessions,
               Revoke(p, op, u, s)
        PROVE  IInv'
    <2> DEFINE rec == [Idle EXCEPT !.op = op, !.at = "list", !.user = u, !.session = s]
    <2>1. rec \in Doing /\ Knows(rec)
      BY <1>a DEF Doing, Op, Step, AccountOp, Session, Knows, Idle
    <2>2. Begin(p, rec)
      BY <1>4 DEF Revoke
    <2> HIDE DEF rec
    <2>3. QED
      BY <1>4, <2>1, <2>2, BeginIInv DEF Revoke
  <1>5. ASSUME NEW u \in User, NEW op \in AccountOp, ChangeAccount(p, op, u)
        PROVE  IInv'
    <2> DEFINE rec == [Idle EXCEPT !.op = op, !.at = IF op = "permissions" THEN "list" ELSE "change",
                         !.user = u]
    <2>1. rec \in Doing /\ Knows(rec)
      BY <1>a DEF Doing, Op, Step, AccountOp, Session, Knows, Idle
    <2>2. Begin(p, rec)
      BY <1>5 DEF ChangeAccount
    <2> HIDE DEF rec
    <2>3. QED
      BY <1>5, <2>1, <2>2, BeginIInv DEF ChangeAccount
  <1>6. Session \subseteq 0..MaxSessions
    BY <1>a DEF Session
  <1>7. QED
    BY <1>a, <1>1, <1>2, <1>3, <1>4, <1>5, <1>6 DEF Start

\* A new token for session s: a login exchanges none, a refresh the one s had.
LEMMA NewToken ==
  ASSUME IInv, NEW s \in Session, NEW t \in 0..MaxTokens, t = 0 \/ (s \in Rows /\ t = row[s].token),
         Issued < MaxTokens, issued' = Append(issued, t),
         row'[s] # None, row'[s].token = Issued + 1,
         \A r \in Session \ {s} : row'[r] = row[r]
  PROVE  TokensOK' /\ issued' \in Seq(0..MaxTokens) /\ Issued' <= MaxTokens
  <1>1. /\ MaxTokens \in Nat /\ issued \in Seq(0..MaxTokens)
        /\ Issued \in Nat /\ DOMAIN issued = 1..Issued /\ \A i \in 1..Issued : issued[i] \in 0..MaxTokens
    BY SessionsAssumption DEF IInv, TypeOK, Issued
  <1>2. /\ issued' \in Seq(0..MaxTokens)
        /\ Issued' = Issued + 1 /\ DOMAIN issued' = 1..(Issued + 1)
        /\ \A i \in 1..Issued : issued'[i] = issued[i]
        /\ issued'[Issued + 1] = t
    BY <1>1 DEF Issued
  <1>3. \A r \in Rows : row[r].token \in 1..MaxTokens
    BY DEF IInv, TypeOK, Rows, Row, Token
  <1>4. TokensOK
    BY DEF IInv
  <1>5. t <= Issued
    BY <1>1, <1>3, <1>4 DEF TokensOK
  <1>6. Rows' \subseteq Rows \cup {s}
    BY DEF Rows
  <1>7. \A i \in DOMAIN issued' : issued'[i] <= Issued'
    BY <1>1, <1>2, <1>4, <1>5 DEF TokensOK
  <1>8. \A r \in Rows' : row'[r].token <= Issued' /\ \A i \in DOMAIN issued' : issued'[i] # row'[r].token
    <2>1. ASSUME NEW r \in Rows' PROVE row'[r].token <= Issued' /\ \A i \in DOMAIN issued' : issued'[i] # row'[r].token
      <3>1. CASE r = s
        BY <1>1, <1>2, <1>4, <1>5, <3>1 DEF TokensOK
      <3>2. CASE r # s
        <4>1. r \in Rows /\ row'[r] = row[r] /\ row[r].token \in 1..MaxTokens
          BY <1>3, <1>6, <3>2 DEF Rows
        <4>2. row[r].token <= Issued /\ \A i \in 1..Issued : issued[i] # row[r].token
          BY <1>1, <1>4, <4>1 DEF TokensOK
        <4>3. t # row[r].token
          BY <1>4, <3>2, <4>1 DEF TokensOK
        <4>4. QED
          BY <1>1, <1>2, <4>1, <4>2, <4>3
      <3>3. QED
        BY <3>1, <3>2
    <2>2. QED
      BY <2>1
  <1>9. \A r1, r2 \in Rows' : row'[r1].token = row'[r2].token => r1 = r2
    <2>1. \A r \in Rows : row[r].token <= Issued
      BY <1>4 DEF TokensOK
    <2>2. \A r \in Rows' : r # s => r \in Rows /\ row'[r] = row[r] /\ row'[r].token # Issued + 1
      BY <1>1, <1>3, <1>6, <2>1 DEF Rows
    <2>3. QED
      BY <1>4, <2>2 DEF TokensOK
  <1>10. TokenExchangedOnce'
    <2>1. t # 0 => \A i \in 1..Issued : issued[i] # t
      BY <1>1, <1>4 DEF TokensOK
    <2>2. \A i, j \in 1..Issued : issued[i] = issued[j] /\ i # j => issued[i] = 0
      BY <1>1, <1>4 DEF TokensOK, TokenExchangedOnce
    <2>3. \A i \in 1..(Issued + 1) : i \in 1..Issued \/ i = Issued + 1
      BY <1>1
    <2>4. QED
      BY <1>2, <2>1, <2>2, <2>3 DEF TokenExchangedOnce
  <1>11. QED
    BY <1>1, <1>2, <1>7, <1>8, <1>9, <1>10 DEF TokensOK

\* A login that gets the row of its device.
LEMMA OwnRowIInv ==
  ASSUME IInv, NEW p \in Process, NEW s \in Session,
         proc[p].at \in {"update", "create", "retry"},
         OnDevice(proc[p].device) \subseteq {s}, Issued < MaxTokens,
         row' = [row EXCEPT ![s] = [user |-> proc[p].user, device |-> proc[p].device,
                                    token |-> Issued + 1]],
         issued' = Append(issued, 0),
         Become(p, [proc[p] EXCEPT !.at = "cache", !.session = s, !.device = None]),
         created' \in 0..MaxSessions,
         UNCHANGED <<account, cached, outlived, outdated, overfull>>
  PROVE  IInv'
  <1> DEFINE new == [user |-> proc[p].user, device |-> proc[p].device, token |-> Issued + 1]
             rec == [proc[p] EXCEPT !.at = "cache", !.session = s, !.device = None]
             u0 == proc[p].user
  <1>1. /\ MaxTokens \in Nat /\ MaxSessions \in Nat /\ None \notin Row
        /\ proc[p] \in Doing /\ Issued \in Nat
    BY SessionsAssumption DEF IInv, TypeOK, Issued
  <1>2. proc[p].op = "login" /\ u0 \in User /\ proc[p].device \in Device
    BY DEF IInv, StepOK, Knows
  <1>3. new \in Row /\ new # None /\ new.user = u0 /\ new.token = Issued + 1 /\ new.device = proc[p].device
    <2>1. Issued + 1 \in Token
      BY <1>1 DEF Token
    <2>2. new \in Row
      BY <1>2, <2>1 DEF Row
    <2>3. QED
      BY <1>1, <2>2
  <1>4. /\ rec \in Doing /\ Knows(rec)
        /\ rec.op = "login" /\ rec.at = "cache" /\ rec.session = s /\ rec.user = u0
    <2>1. rec.op = "login" /\ rec.at = "cache" /\ rec.session = s /\ rec.user = u0
      BY <1>1, <1>2 DEF Doing
    <2>2. Knows(rec)
      BY <1>2, <2>1 DEF Knows, AccountOp
    <2>3. s \in 0..MaxSessions
      BY <1>1 DEF Session
    <2>4. rec \in Doing
      BY <1>1, <2>3 DEF Doing, Step
    <2>5. QED
      BY <2>1, <2>2, <2>4
  <1>5. proc' = [proc EXCEPT ![p] = rec] /\ proc \in [Process -> Doing]
    BY DEF Become, IInv, TypeOK
  <1>6. /\ row \in [Session -> Row \cup {None}] /\ row' \in [Session -> Row \cup {None}]
        /\ row'[s] = new /\ \A r \in Session \ {s} : row'[r] = row[r]
    BY <1>3 DEF IInv, TypeOK
  <1> HIDE DEF new, rec
  <1>7. TokensOK' /\ issued' \in Seq(0..MaxTokens) /\ Issued' <= MaxTokens
    <2>1. 0 \in 0..MaxTokens
      BY <1>1
    <2>2. QED
      BY <1>3, <1>6, <2>1, NewToken
  <1>8. TypeOK'
    <2>1. \A r \in Rows' : r # s => row'[r].device # proc[p].device
      BY <1>6 DEF Rows, OnDevice
    <2>2. \A r1, r2 \in Rows' : row'[r1].device = row'[r2].device => r1 = r2
      <3>1. \A r1, r2 \in Rows' : r1 # s /\ r2 # s /\ row'[r1].device = row'[r2].device => r1 = r2
        BY <1>6 DEF IInv, TypeOK, Rows
      <3>2. QED
        BY <1>3, <1>6, <2>1, <3>1
    <2>3. proc' \in [Process -> Doing]
      BY <1>4, <1>5
    <2>4. QED
      BY <1>6, <1>7, <2>2, <2>3 DEF IInv, TypeOK
  <1>9. StepOK'
    BY <1>4, <1>5 DEF IInv, StepOK, Knows
  <1>10. DeadCopiesOK'
    <2>1. ASSUME NEW r \in Session \ outlived PROVE DeadOK(r)'
      <3>1. (row'[r] = None => row[r] = None) /\ cached'[r] = cached[r] /\ ~At(p, "uncache")
        BY <1>3, <1>6 DEF At
      <3>2. QED
        BY <1>5, <3>1, DeadStep
    <2>2. QED
      BY <2>1 DEF DeadCopiesOK
  <1>11. LiveCopiesOK'
    <2>1. ASSUME NEW r \in Session \ (outlived \cup outdated) PROVE LiveOK(r)'
      <3>1. CASE r = s
        <4>1. Writing(s)'
          BY <1>4, <1>5 DEF Writing, At
        <4>2. QED
          BY <3>1, <4>1 DEF LiveOK
      <3>2. CASE r # s
        <4>1. row'[r] = row[r] /\ cached'[r] = cached[r] /\ account' = account
              /\ ~At(p, "cache") /\ proc[p].op \notin {"ban", "role"}
          BY <1>2, <1>6, <3>2 DEF At
        <4>2. QED
          BY <1>5, <4>1, LiveStep
      <3>3. QED
        BY <3>1, <3>2
    <2>2. QED
      BY <2>1 DEF LiveCopiesOK
  <1>12. LimitOK'
    <2>1. ASSUME NEW u \in User \ overfull PROVE FewOK(u)'
      <3>1. CASE u = u0
        BY <1>4, <1>5, <3>1 DEF FewOK, Counting
      <3>2. CASE u # u0
        <4>1. RowsOf(u)' \subseteq RowsOf(u)
          BY <1>3, <1>6, <3>2 DEF RowsOf, Rows
        <4>2. QED
          BY <1>5, <3>2, <4>1, LimitStep
      <3>3. QED
        BY <3>1, <3>2
    <2>2. QED
      BY <2>1 DEF LimitOK
  <1>13. QED
    BY <1>7, <1>8, <1>9, <1>10, <1>11, <1>12 DEF IInv

\* The steps of createLoginSession up to the row.
LEMMA LoginStepsIInv ==
  ASSUME IInv, NEW p \in Process, UpdateByDevice(p) \/ CreateRow(p) \/ UpdateAfterConflict(p)
  PROVE  IInv'
  <1>1. /\ proc[p].at \in {"update", "create", "retry"} /\ proc[p].op = "login" /\ proc[p] \in Doing
        /\ proc[p].user \in User /\ proc[p].device \in Device
    BY DEF UpdateByDevice, CreateRow, UpdateAfterConflict, At, IInv, TypeOK, StepOK, Knows
  <1>2. ASSUME NEW s \in OnDevice(proc[p].device), TakeOver(p, s)
        PROVE  IInv'
    <2>1. s \in Session /\ OnDevice(proc[p].device) \subseteq {s} /\ created \in 0..MaxSessions
      BY DEF IInv, TypeOK, OnDevice, Rows
    <2>2. QED
      BY <1>1, <1>2, <2>1, OwnRowIInv DEF TakeOver, histories
  <1>3. ASSUME At(p, "create"), OnDevice(proc[p].device) = {}, created < MaxSessions, CreateRow(p)
        PROVE  IInv'
    <2>1. created + 1 \in Session /\ created + 1 \in 0..MaxSessions
      BY <1>3, SessionsAssumption DEF IInv, TypeOK, Session
    <2>2. QED
      BY <1>1, <1>3, <2>1, OwnRowIInv DEF CreateRow, histories
  <1>4. ASSUME NEW at \in {"create", "retry"}, Become(p, [proc[p] EXCEPT !.at = at]),
               UNCHANGED <<account, row, cached, created, issued, histories>>
        PROVE  IInv'
    <2> DEFINE rec == [proc[p] EXCEPT !.at = at]
    <2>1. rec \in Doing /\ Knows(rec)
      BY <1>1 DEF Doing, Step, Knows, AccountOp
    <2>2. proc' = [proc EXCEPT ![p] = rec]
      BY <1>4 DEF Become
    <2> HIDE DEF rec
    <2>3. QED
      BY <1>1, <1>4, <2>1, <2>2, MoveOn DEF histories, At
  <1>5. ASSUME End(p), UNCHANGED <<account, row, cached, created, issued, histories>>
        PROVE  IInv'
    <2>1. Idle \in Doing /\ Knows(Idle)
      BY IdleOK
    <2>2. QED
      BY <1>1, <1>5, <2>1, MoveOn DEF End, histories, At
  <1>6. QED
    BY <1>2, <1>3, <1>4, <1>5 DEF UpdateByDevice, CreateRow, UpdateAfterConflict

\* A login has the copy to enforce the device limit; a refresh ends with it.
LEMMA AfterCache ==
  ASSUME IInv, NEW p \in Process, At(p, "cache"), NextAfterCache(p)
  PROVE  \E rec \in Doing :
           /\ proc' = [proc EXCEPT ![p] = rec] /\ Knows(rec)
           /\ proc[p].op = "login" => rec.op = "login" /\ rec.at = "enforce" /\ rec.user = proc[p].user
  <1>1. proc[p].user \in User /\ proc[p].session \in Session /\ proc[p] \in Doing
    BY DEF IInv, TypeOK, StepOK, Knows, At
  <1>2. CASE proc[p].op = "login"
    <2> DEFINE rec == [proc[p] EXCEPT !.at = "enforce", !.version = 0]
    <2>1. proc' = [proc EXCEPT ![p] = rec]
      BY <1>2 DEF NextAfterCache, Become
    <2>2. rec.op = "login" /\ rec.at = "enforce" /\ rec.user = proc[p].user /\ rec.session = proc[p].session
      BY <1>1, <1>2 DEF Doing
    <2>3. Knows(rec)
      BY <1>1, <2>2 DEF Knows, AccountOp
    <2>4. rec \in Doing
      <3>1. 0 \in 0..MaxChanges
        BY SessionsAssumption
      <3>2. QED
        BY <1>1, <3>1 DEF Doing, Step
    <2>5. QED
      BY <2>1, <2>2, <2>3, <2>4
  <1>3. CASE proc[p].op # "login"
    BY <1>3, IdleOK DEF NextAfterCache, End
  <1>4. QED
    BY <1>2, <1>3

\* CacheSession and CacheSessionFails preserve the invariant.
LEMMA CacheIInv ==
  ASSUME IInv, NEW p \in Process, CacheSession(p) \/ CacheSessionFails(p)
  PROVE  IInv'
  <1> DEFINE s == proc[p].session
  <1>1. /\ At(p, "cache") /\ NextAfterCache(p)
        /\ UNCHANGED <<account, row, created, issued, overfull>>
    BY DEF CacheSession, CacheSessionFails
  <1>2. /\ proc[p].user \in User /\ s \in Session /\ proc[p].version \in 0..MaxChanges
        /\ proc[p].op \in {"login", "refresh"}
    BY <1>1 DEF IInv, TypeOK, StepOK, Knows, At, Doing
  <1>3. PICK rec \in Doing :
          /\ proc' = [proc EXCEPT ![p] = rec] /\ Knows(rec)
          /\ proc[p].op = "login" => rec.op = "login" /\ rec.at = "enforce" /\ rec.user = proc[p].user
    BY <1>1, AfterCache
  <1> HIDE DEF s
  <1>4. \A r \in Session \ {s} : /\ cached'[r] = cached[r]
                                 /\ r \in outlived' <=> r \in outlived
                                 /\ r \in outdated' <=> r \in outdated
    BY DEF CacheSession, CacheSessionFails, IInv, TypeOK, s
  <1>5. TypeOK'
    <2>1. cached' \in [Session -> Copy \cup {None}]
      BY <1>2 DEF CacheSession, CacheSessionFails, IInv, TypeOK, s, Copy
    <2>2. proc' \in [Process -> Doing]
      BY <1>3 DEF IInv, TypeOK
    <2>3. QED
      BY <1>1, <2>1, <2>2 DEF IInv, TypeOK, Rows, Issued
  <1>6. StepOK'
    BY <1>3 DEF IInv, TypeOK, StepOK, Knows
  <1>7. TokensOK'
    BY <1>1 DEF IInv, TokensOK, TokenExchangedOnce, Rows, Issued
  <1>8. DeadCopiesOK'
    <2>1. ASSUME NEW r \in Session \ outlived' PROVE DeadOK(r)'
      <3>1. CASE r = s /\ CacheSession(p)
        <4>1. row[s] # None /\ row' = row
          BY <1>1, <2>1, <3>1 DEF CacheSession, s
        <4>2. QED
          BY <3>1, <4>1 DEF DeadOK
      <3>2. CASE r # s \/ CacheSessionFails(p)
        <4>1. r \notin outlived /\ cached'[r] = cached[r]
          BY <1>4, <2>1, <3>2 DEF CacheSessionFails
        <4>2. ~At(p, "uncache") /\ row' = row
          BY <1>1 DEF At
        <4>3. QED
          BY <1>3, <4>1, <4>2, DeadStep
      <3>3. QED
        BY <3>1, <3>2
    <2>2. QED
      BY <2>1 DEF DeadCopiesOK
  <1>9. LiveCopiesOK'
    <2>1. ASSUME NEW r \in Session \ (outlived' \cup outdated') PROVE LiveOK(r)'
      <3>1. CASE r # s
        <4>1. /\ r \in Session \ (outlived \cup outdated) /\ cached'[r] = cached[r]
              /\ row' = row /\ account' = account /\ proc[p].session # r
          BY <1>1, <1>4, <2>1, <3>1 DEF s
        <4>2. proc[p].op \notin {"ban", "role"}
          BY <1>2
        <4>3. QED
          BY <1>3, <4>1, <4>2, LiveStep
      <3>2. CASE r = s /\ CacheSession(p)
        <4>1. /\ cached'[s] = [user |-> proc[p].user, version |-> proc[p].version]
              /\ IsCurrent(p) /\ row' = row /\ account' = account
          BY <1>1, <1>2, <2>1, <3>2 DEF CacheSession, IInv, TypeOK, s
        <4>2. QED
          BY <3>2, <4>1 DEF IsCurrent, LiveOK, s
      <3>3. CASE r = s /\ CacheSessionFails(p)
        BY <1>1, <2>1, <3>3 DEF CacheSessionFails, Copied, LiveOK, s
      <3>4. QED
        BY <3>1, <3>2, <3>3
    <2>2. QED
      BY <2>1 DEF LiveCopiesOK
  <1>10. LimitOK'
    <2>1. ASSUME NEW u \in User \ overfull PROVE FewOK(u)'
      <3>1. RowsOf(u)' \subseteq RowsOf(u)
        BY <1>1 DEF RowsOf, Rows
      <3>2. QED
        BY <1>1, <1>3, <3>1, LimitStep DEF At
    <2>2. QED
      BY <1>1, <2>1 DEF LimitOK
  <1>11. QED
    BY <1>5, <1>6, <1>7, <1>8, <1>9, <1>10 DEF IInv

\* EnforceDeviceLimit preserves the invariant: what is left when the chosen sessions are
\* deleted is within the limit.
LEMMA EnforceIInv ==
  ASSUME IInv, NEW p \in Process, EnforceDeviceLimit(p)
  PROVE  IInv'
  <1> DEFINE u0 == proc[p].user
             R == RowsOf(u0)
             others == R \ {proc[p].session}
             n == MaxDevices(proc[p].admin)
  <1>1. /\ At(p, "enforce")
        /\ overfull' = IF n > Limit(u0) THEN overfull \cup {u0} ELSE overfull \ {u0}
        /\ UNCHANGED <<account, row, cached, created, issued, outlived, outdated>>
    BY DEF EnforceDeviceLimit, Limit
  <1>2. /\ u0 \in User /\ proc[p].op = "login" /\ proc[p] \in Doing
        /\ R \subseteq Session /\ IsFiniteSet(R) /\ Cardinality(R) \in Nat
        /\ n \in Nat /\ n > 0
    BY <1>1, RowsFinite, LimitType DEF IInv, TypeOK, StepOK, Knows, At, RowsOf, Rows
  <1>n. Overflow(p) = Cardinality(R) - n
    BY DEF Overflow
  <1> HIDE DEF n
  <1>3. PICK rec \in Doing :
          /\ proc' = [proc EXCEPT ![p] = rec] /\ Knows(rec)
          /\ \/ Cardinality(R) <= n
             \/ /\ rec.op = "login" /\ rec.at = "delete" /\ rec.user = u0
                /\ Cardinality(R \ rec.ids) <= n
    <2>1. ASSUME Overflow(p) <= 0 \/ others = {}, End(p)
          PROVE  Cardinality(R) <= n /\ proc' = [proc EXCEPT ![p] = Idle]
      <3>1. CASE Overflow(p) <= 0
        BY <1>2, <1>n, <2>1, <3>1 DEF End
      <3>2. CASE others = {}
        <4>1. R \subseteq {proc[p].session}
          BY <3>2
        <4>2. Cardinality({proc[p].session}) = 1 /\ IsFiniteSet({proc[p].session})
          BY FS_Singleton
        <4>3. Cardinality(R) <= 1
          BY <4>1, <4>2, FS_Subset
        <4>4. QED
          BY <1>2, <2>1, <4>3 DEF End
      <3>3. QED
        BY <2>1, <3>1, <3>2
    <2>2. ASSUME NEW evict \in SUBSET others,
                 \/ Cardinality(evict) = Overflow(p)
                 \/ evict = others /\ Cardinality(others) < Overflow(p),
                 Become(p, [proc[p] EXCEPT !.at = "delete", !.ids = evict, !.session = 0, !.admin = FALSE])
          PROVE  \E rec \in Doing :
                   /\ proc' = [proc EXCEPT ![p] = rec] /\ Knows(rec)
                   /\ rec.op = "login" /\ rec.at = "delete" /\ rec.user = u0
                   /\ Cardinality(R \ rec.ids) <= n
      <3> DEFINE rec == [proc[p] EXCEPT !.at = "delete", !.ids = evict, !.session = 0, !.admin = FALSE]
      <3>1. rec.op = "login" /\ rec.at = "delete" /\ rec.user = u0 /\ rec.ids = evict
        BY <1>2 DEF Doing
      <3>2. Knows(rec)
        BY <1>2, <3>1 DEF Knows, AccountOp
      <3>3. rec \in Doing
        <4>1. 0 \in 0..MaxSessions
          BY SessionsAssumption
        <4>2. QED
          BY <1>2, <3>1, <4>1 DEF Doing, Step
      <3>4. Cardinality(R \ evict) <= n
        <4>1. CASE Cardinality(evict) = Overflow(p)
          <5>1. evict \subseteq R
            OBVIOUS
          <5>2. Cardinality(R \ evict) = Cardinality(R) - Cardinality(evict)
            BY <1>2, <5>1, Difference
          <5>3. QED
            BY <1>2, <1>n, <4>1, <5>2
        <4>2. CASE evict = others
          <5>1. R \ evict \subseteq {proc[p].session}
            BY <4>2
          <5>2. Cardinality({proc[p].session}) = 1 /\ IsFiniteSet({proc[p].session})
            BY FS_Singleton
          <5>3. Cardinality(R \ evict) <= 1 /\ Cardinality(R \ evict) \in Nat
            BY <5>1, <5>2, FS_Subset, FS_CardinalityType
          <5>4. QED
            BY <1>2, <5>3
        <4>3. QED
          BY <2>2, <4>1, <4>2
      <3>5. proc' = [proc EXCEPT ![p] = rec]
        BY <2>2 DEF Become
      <3>6. QED
        BY <3>1, <3>2, <3>3, <3>4, <3>5
    <2>3. QED
      BY <2>1, <2>2, IdleOK DEF EnforceDeviceLimit
  <1> HIDE DEF R, others, u0
  <1>4. TypeOK'
    BY <1>1, <1>3 DEF IInv, TypeOK, Rows, Issued
  <1>5. StepOK'
    BY <1>3 DEF IInv, TypeOK, StepOK, Knows
  <1>6. TokensOK'
    BY <1>1 DEF IInv, TokensOK, TokenExchangedOnce, Rows, Issued
  <1>7. DeadCopiesOK'
    BY <1>1, <1>3, DeadStep DEF DeadCopiesOK, At
  <1>8. LiveCopiesOK'
    <2>1. ASSUME NEW s \in Session \ (outlived \cup outdated)
          PROVE  LiveOK(s)'
      BY <1>1, <1>2, <1>3, LiveStep DEF At
    <2>2. QED
      BY <1>1, <2>1 DEF LiveCopiesOK
  <1>9. LimitOK'
    <2>1. ASSUME NEW u \in User \ overfull' PROVE FewOK(u)'
      <3>1. RowsOf(u)' = RowsOf(u) /\ Limit(u)' = Limit(u) /\ Limit(u) \in Nat
        BY <1>1, LimitType DEF RowsOf, Rows, Limit
      <3>2. CASE u = u0
        <4>a. n <= Limit(u)
          BY <1>1, <1>2, <2>1, <3>1, <3>2
        <4>1. CASE Cardinality(R) <= n
          BY <1>2, <3>1, <3>2, <4>a, <4>1 DEF FewOK, R
        <4>2. CASE Cardinality(R) > n
          <5>1. rec.op = "login" /\ rec.at = "delete" /\ rec.user = u /\ Cardinality(RowsOf(u) \ rec.ids) <= n
            BY <1>2, <1>3, <3>2, <4>2 DEF R
          <5>2. proc'[p] = rec
            BY <1>3 DEF IInv, TypeOK
          <5>3. Cardinality(RowsOf(u) \ rec.ids) \in Nat
            BY RowsFinite DEF RowsOf, Rows
          <5>4. Cardinality(RowsOf(u)' \ proc'[p].ids) <= Limit(u)'
            BY <1>2, <3>1, <4>a, <5>1, <5>2, <5>3
          <5>5. Evicting(u)'
            BY <5>1, <5>2, <5>4 DEF Evicting
          <5>6. QED
            BY <5>5 DEF FewOK
        <4>3. QED
          BY <1>2, <4>1, <4>2
      <3>3. CASE u # u0
        <4>1. u \in User \ overfull
          BY <1>1, <2>1, <3>3
        <4>2. QED
          BY <1>1, <1>2, <1>3, <3>1, <3>3, <4>1, LimitStep DEF u0
      <3>4. QED
        BY <3>2, <3>3
    <2>2. QED
      BY <2>1 DEF LimitOK
  <1>10. QED
    BY <1>4, <1>5, <1>6, <1>7, <1>8, <1>9 DEF IInv

\* Rotate preserves the invariant.
LEMMA RotateIInv ==
  ASSUME IInv, NEW p \in Process, Rotate(p)
  PROVE  IInv'
  <1> DEFINE s == proc[p].session
  <1>1. /\ At(p, "rotate") /\ UNCHANGED <<account, cached, created, outlived, outdated, overfull>>
        /\ proc[p].op = "refresh" /\ proc[p].user \in User /\ s \in Session /\ proc[p] \in Doing
        /\ MaxTokens \in Nat /\ Issued \in Nat
    BY SessionsAssumption DEF Rotate, histories, IInv, TypeOK, StepOK, Knows, At, Issued
  <1>2. CASE s \notin WithToken(proc[p].token)
    <2>1. proc' = [proc EXCEPT ![p] = Idle] /\ UNCHANGED <<row, issued>>
      BY <1>2 DEF Rotate, End
    <2>2. QED
      BY <1>1, <2>1, IdleOK, MoveOn DEF At
  <1>3. CASE s \in WithToken(proc[p].token)
    <2> DEFINE rec == [proc[p] EXCEPT !.at = "cache", !.token = 0]
    <2>1. /\ Issued < MaxTokens /\ issued' = Append(issued, proc[p].token)
          /\ row' = [row EXCEPT ![s].token = Issued + 1]
          /\ proc' = [proc EXCEPT ![p] = rec]
      BY <1>3 DEF Rotate, Become
    <2>2. /\ rec.op = "refresh" /\ rec.at = "cache" /\ rec.user = proc[p].user /\ rec.session = s
      BY <1>1 DEF Doing
    <2>3. Knows(rec)
      BY <1>1, <2>2 DEF Knows, AccountOp
    <2>4. rec \in Doing
      <3>1. 0 \in 0..MaxTokens
        BY <1>1
      <3>2. QED
        BY <1>1, <3>1 DEF Doing, Step
    <2> HIDE DEF rec
    <2>5. s \in Rows /\ row[s] \in Row /\ proc[p].token = row[s].token /\ proc[p].token \in 0..MaxTokens
      BY <1>1, <1>3 DEF WithToken, Rows, IInv, TypeOK, Doing
    <2>6. /\ row' \in [Session -> Row \cup {None}] /\ row'[s] \in Row /\ row'[s] # None
          /\ row'[s].token = Issued + 1 /\ row'[s].user = row[s].user /\ row'[s].device = row[s].device
          /\ \A r \in Session \ {s} : row'[r] = row[r]
      <3>1. Issued + 1 \in Token
        BY <1>1, <2>1 DEF Token
      <3>2. /\ row'[s] \in Row
            /\ row'[s].token = Issued + 1 /\ row'[s].user = row[s].user /\ row'[s].device = row[s].device
        BY <1>1, <2>1, <2>5, <3>1 DEF IInv, TypeOK, Row
      <3>3. QED
        BY <1>1, <2>1, <3>2, SessionsAssumption DEF IInv, TypeOK
    <2>7. TokensOK' /\ issued' \in Seq(0..MaxTokens) /\ Issued' <= MaxTokens
      BY <1>1, <2>1, <2>5, <2>6, NewToken
    <2>8. Rows' = Rows /\ \A r \in Rows : row'[r].user = row[r].user /\ row'[r].device = row[r].device
      BY <1>1, <2>5, <2>6 DEF Rows
    <2>9. TypeOK'
      <3>1. \A r1, r2 \in Rows' : row'[r1].device = row'[r2].device => r1 = r2
        BY <2>8 DEF IInv, TypeOK
      <3>2. proc' \in [Process -> Doing]
        BY <2>1, <2>4 DEF IInv, TypeOK
      <3>3. QED
        BY <1>1, <2>6, <2>7, <3>1, <3>2 DEF IInv, TypeOK
    <2>10. StepOK'
      BY <2>1, <2>3 DEF IInv, TypeOK, StepOK, Knows
    <2>11. DeadCopiesOK'
      <3>1. ASSUME NEW r \in Session \ outlived PROVE DeadOK(r)'
        BY <1>1, <2>1, <2>8, DeadStep DEF At, Rows
      <3>2. QED
        BY <1>1, <3>1 DEF DeadCopiesOK
    <2>12. LiveCopiesOK'
      <3>1. ASSUME NEW r \in Session \ (outlived \cup outdated) PROVE LiveOK(r)'
        BY <1>1, <2>1, <2>8, LiveStep DEF At, Rows
      <3>2. QED
        BY <1>1, <3>1 DEF LiveCopiesOK
    <2>13. LimitOK'
      <3>1. ASSUME NEW u \in User \ overfull PROVE FewOK(u)'
        <4>1. RowsOf(u)' = RowsOf(u)
          BY <2>8 DEF RowsOf
        <4>2. QED
          BY <1>1, <2>1, <4>1, LimitStep
      <3>2. QED
        BY <1>1, <3>1 DEF LimitOK
    <2>14. QED
      BY <2>7, <2>9, <2>10, <2>11, <2>12, <2>13 DEF IInv
  <1>4. QED
    BY <1>2, <1>3

\* ListSessions preserves the invariant.
LEMMA ListIInv ==
  ASSUME IInv, NEW p \in Process, ListSessions(p)
  PROVE  IInv'
  <1>0. PICK ids \in Listed(p) : Become(p, [proc[p] EXCEPT !.at = "delete", !.ids = ids])
    BY DEF ListSessions
  <1> DEFINE rec == [proc[p] EXCEPT !.at = "delete", !.ids = ids]
  <1>1. /\ At(p, "list") /\ proc' = [proc EXCEPT ![p] = rec] /\ proc[p] \in Doing
        /\ UNCHANGED <<account, row, cached, created, issued, outlived, outdated, overfull>>
    BY <1>0 DEF ListSessions, Become, histories, IInv, TypeOK
  <1>2. ids \subseteq Session
    BY DEF Listed, Selected, RowsOf, Rows
  <1>3. rec \in Doing /\ rec.op = proc[p].op /\ rec.at = "delete" /\ rec.user = proc[p].user
    BY <1>1, <1>2 DEF Doing, Step
  <1>4. Knows(proc[p])
    BY DEF IInv, StepOK
  <1>5. Knows(rec)
    BY <1>1, <1>3, <1>4 DEF Knows, At
  <1> HIDE DEF rec
  <1>6. QED
    BY <1>1, <1>3, <1>4, <1>5, MoveOn DEF At, Knows

\* DeleteSessions preserves the invariant: a copy of what it deletes is among the ids it
\* invalidates next, or was missed.
LEMMA DeleteIInv ==
  ASSUME IInv, NEW p \in Process, DeleteSessions(p)
  PROVE  IInv'
  <1> DEFINE gone == IF proc[p].op \in {"login", "expired"} THEN proc[p].ids \cap Rows ELSE Selected(p)
             rec == IF proc[p].op = "permissions" THEN [proc[p] EXCEPT !.at = "uncache"]
                    ELSE [proc[p] EXCEPT !.op = "uncache", !.at = "uncache", !.user = None, !.session = 0]
  <1>1. /\ At(p, "delete") /\ proc' = [proc EXCEPT ![p] = rec] /\ proc[p] \in Doing
        /\ row' = [s \in Session |-> IF s \in gone THEN None ELSE row[s]]
        /\ outlived' = outlived \cup ((gone \cap Copied) \ proc[p].ids)
        /\ UNCHANGED <<account, cached, created, issued, outdated, overfull>>
    BY DEF DeleteSessions, Become, IInv, TypeOK
  <1>2. /\ gone \subseteq Rows /\ proc[p].ids \subseteq Session
        /\ proc[p].op \in {"ban", "role"} => gone = RowsOf(proc[p].user)
        /\ proc[p].op = "login" => gone = proc[p].ids \cap Rows
    BY <1>1 DEF Selected, RowsOf, Doing
  <1>3. rec.at = "uncache" /\ rec.ids = proc[p].ids /\ rec.op \in {"permissions", "uncache"}
        /\ (rec.op = "permissions" => proc[p].op = "permissions" /\ rec.user = proc[p].user)
    BY <1>1 DEF Doing
  <1>4. rec \in Doing
    <2>1. 0 \in 0..MaxSessions
      BY SessionsAssumption
    <2>2. QED
      BY <1>1, <2>1 DEF Doing, Step, Op
  <1>5. Knows(rec)
    BY <1>1, <1>3 DEF IInv, StepOK, Knows, AccountOp
  <1> HIDE DEF gone, rec
  <1>6. /\ row' \in [Session -> Row \cup {None}] /\ Rows' = Rows \ gone
        /\ \A r \in Rows \ gone : row'[r] = row[r]
    BY <1>1, <1>2 DEF IInv, TypeOK, Rows
  <1>7. TypeOK'
    <2>1. \A r1, r2 \in Rows' : row'[r1].device = row'[r2].device => r1 = r2
      BY <1>6 DEF IInv, TypeOK
    <2>2. proc' \in [Process -> Doing]
      BY <1>1, <1>4 DEF IInv, TypeOK
    <2>3. QED
      BY <1>1, <1>6, <2>1, <2>2 DEF IInv, TypeOK, Issued
  <1>8. StepOK'
    BY <1>1, <1>5 DEF IInv, TypeOK, StepOK, Knows
  <1>9. TokensOK'
    BY <1>1, <1>6 DEF IInv, TokensOK, TokenExchangedOnce, Issued
  <1>10. DeadCopiesOK'
    <2>1. ASSUME NEW s \in Session \ outlived' PROVE DeadOK(s)'
      <3>1. CASE s \in gone
        <4>1. cached'[s] = None \/ s \in proc[p].ids
          BY <1>1, <2>1, <3>1 DEF Copied
        <4>2. proc'[p] = rec
          BY <1>1 DEF IInv, TypeOK
        <4>3. QED
          BY <1>3, <4>1, <4>2 DEF DeadOK, Removing, At
      <3>2. CASE s \notin gone
        <4>1. s \in Session \ outlived /\ row'[s] = row[s] /\ cached'[s] = cached[s] /\ ~At(p, "uncache")
          BY <1>1, <2>1, <3>2 DEF At
        <4>2. QED
          BY <1>1, <4>1, DeadStep
      <3>3. QED
        BY <3>1, <3>2
    <2>2. QED
      BY <2>1 DEF DeadCopiesOK
  <1>11. LiveCopiesOK'
    <2>1. ASSUME NEW s \in Session \ (outlived' \cup outdated') PROVE LiveOK(s)'
      <3>1. CASE s \in gone
        BY <1>1, <3>1 DEF LiveOK
      <3>2. CASE s \notin gone
        <4>1. /\ s \in Session \ (outlived \cup outdated)
              /\ row'[s] = row[s] /\ cached'[s] = cached[s] /\ account' = account
              /\ ~At(p, "cache")
          BY <1>1, <2>1, <3>2 DEF At
        <4>2. row[s] # None /\ proc[p].user = row[s].user => proc[p].op \notin {"ban", "role"}
          BY <1>2, <3>2 DEF RowsOf, Rows
        <4>3. QED
          BY <1>1, <4>1, <4>2, LiveStep
      <3>3. QED
        BY <3>1, <3>2
    <2>2. QED
      BY <2>1 DEF LiveCopiesOK
  <1>12. LimitOK'
    <2>1. ASSUME NEW u \in User \ overfull PROVE FewOK(u)'
      <3>1. /\ RowsOf(u)' \subseteq RowsOf(u) \ gone
            /\ Limit(u)' = Limit(u) /\ Limit(u) \in Nat /\ account' = account
        BY <1>1, <1>6, LimitType DEF RowsOf, Limit
      <3>2. CASE proc[p].op = "login" /\ proc[p].user = u
        <4>1. RowsOf(u)' \subseteq RowsOf(u) \ proc[p].ids
          BY <1>2, <3>1, <3>2 DEF RowsOf
        <4>2. RowsOf(u) \subseteq Session
          BY DEF RowsOf, Rows
        <4>3. CASE Cardinality(RowsOf(u)) <= Limit(u)
          BY <3>1, <4>1, <4>2, <4>3, FewerRows DEF FewOK
        <4>4. CASE Counting(u)
          BY <1>1, <4>4 DEF FewOK, Counting, At, IInv, TypeOK
        <4>5. CASE Evicting(u)
          <5>1. PICK q \in Process : /\ proc[q].op = "login" /\ proc[q].at = "delete" /\ proc[q].user = u
                                     /\ Cardinality(RowsOf(u) \ proc[q].ids) <= Limit(u)
            BY <4>5 DEF Evicting
          <5>2. CASE q = p
            <6>1. Cardinality(RowsOf(u)') <= Limit(u)
              BY <3>1, <4>1, <4>2, <5>1, <5>2, FewerRows
            <6>2. QED
              BY <3>1, <6>1 DEF FewOK
          <5>3. CASE q # p
            <6>1. proc'[q] = proc[q]
              BY <1>1, <5>3 DEF IInv, TypeOK
            <6>2. /\ RowsOf(u) \ proc[q].ids \in SUBSET Session
                  /\ RowsOf(u)' \ proc[q].ids \in SUBSET (RowsOf(u) \ proc[q].ids)
              BY <4>1, <4>2
            <6>3. Cardinality(RowsOf(u)' \ proc[q].ids) <= Limit(u)
              BY <3>1, <5>1, <6>2, FewerRows
            <6>4. QED
              BY <3>1, <5>1, <6>1, <6>3 DEF FewOK, Evicting
          <5>4. QED
            BY <5>2, <5>3
        <4>6. CASE Demoting(u)
          BY <1>1, <3>2, <4>6 DEF FewOK, Demoting, IInv, TypeOK
        <4>7. QED
          BY <4>3, <4>4, <4>5, <4>6 DEF IInv, LimitOK, FewOK
      <3>3. CASE proc[p].op = "role" /\ proc[p].user = u
        <4>1. RowsOf(u)' = {}
          BY <1>2, <3>1, <3>3
        <4>2. QED
          BY <3>1, <4>1, FS_EmptySet DEF FewOK
      <3>4. CASE ~(proc[p].op \in {"login", "role"} /\ proc[p].user = u)
        BY <1>1, <3>1, <3>4, LimitStep
      <3>5. QED
        BY <3>2, <3>3, <3>4
    <2>2. QED
      BY <1>1, <2>1 DEF LimitOK
  <1>13. QED
    BY <1>7, <1>8, <1>9, <1>10, <1>11, <1>12 DEF IInv

\* InvalidateSession preserves the invariant.
LEMMA InvalidateIInv ==
  ASSUME IInv, NEW p \in Process, NEW s \in Session, InvalidateSession(p, s)
  PROVE  IInv'
  <1> DEFINE rec == [proc[p] EXCEPT !.ids = proc[p].ids \ {s}]
  <1>1. /\ At(p, "uncache") /\ proc' = [proc EXCEPT ![p] = rec] /\ proc[p] \in Doing
        /\ UNCHANGED <<account, row, created, issued, overfull>>
    BY DEF InvalidateSession, Become, IInv, TypeOK
  <1>2. /\ rec \in Doing /\ rec.at = "uncache" /\ rec.ids = proc[p].ids \ {s} /\ rec.op = proc[p].op
        /\ rec.user = proc[p].user
    BY <1>1 DEF Doing, At
  <1>3. Knows(rec)
    BY <1>1, <1>2 DEF IInv, StepOK, Knows, At
  <1> HIDE DEF rec
  <1>4. /\ \A r \in Session \ {s} : /\ cached'[r] = cached[r]
                                    /\ r \in outlived' <=> r \in outlived
                                    /\ r \in outdated' <=> r \in outdated
        /\ cached' \in [Session -> Copy \cup {None}]
        /\ s \notin outlived' => cached'[s] = None
    <2>1. cached \in [Session -> Copy \cup {None}]
      BY DEF IInv, TypeOK
    <2>2. CASE Uncache({s})
      BY <2>1, <2>2 DEF Uncache
    <2>3. CASE outlived' = outlived \cup (Copied \cap {s}) /\ UNCHANGED <<cached, outdated>>
      BY <2>1, <2>3 DEF Copied
    <2>4. QED
      BY <2>2, <2>3 DEF InvalidateSession
  <1>5. TypeOK'
    BY <1>1, <1>2, <1>4 DEF IInv, TypeOK, Rows, Issued
  <1>6. StepOK'
    BY <1>1, <1>3 DEF IInv, TypeOK, StepOK, Knows
  <1>7. TokensOK'
    BY <1>1 DEF IInv, TokensOK, TokenExchangedOnce, Rows, Issued
  <1>8. DeadCopiesOK'
    <2>1. ASSUME NEW r \in Session \ outlived' PROVE DeadOK(r)'
      <3>1. CASE r = s
        BY <1>4, <2>1, <3>1 DEF DeadOK
      <3>2. CASE r # s
        <4>1. r \in Session \ outlived /\ cached'[r] = cached[r] /\ row' = row
          BY <1>1, <1>4, <2>1, <3>2
        <4>2. QED
          BY <1>1, <1>2, <3>2, <4>1, DeadStep
      <3>3. QED
        BY <3>1, <3>2
    <2>2. QED
      BY <2>1 DEF DeadCopiesOK
  <1>9. LiveCopiesOK'
    <2>1. ASSUME NEW r \in Session \ (outlived' \cup outdated') PROVE LiveOK(r)'
      <3>1. CASE r = s
        BY <1>4, <2>1, <3>1 DEF LiveOK
      <3>2. CASE r # s
        <4>1. /\ r \in Session \ (outlived \cup outdated) /\ cached'[r] = cached[r]
              /\ row' = row /\ account' = account
          BY <1>1, <1>4, <2>1, <3>2
        <4>2. QED
          BY <1>1, <4>1, LiveStep DEF At
      <3>3. QED
        BY <3>1, <3>2
    <2>2. QED
      BY <2>1 DEF LiveCopiesOK
  <1>10. LimitOK'
    <2>1. ASSUME NEW u \in User \ overfull PROVE FewOK(u)'
      <3>1. RowsOf(u)' = RowsOf(u)
        BY <1>1 DEF RowsOf, Rows
      <3>2. QED
        BY <1>1, <3>1, LimitStep DEF At
    <2>2. QED
      BY <1>1, <2>1 DEF LimitOK
  <1>11. QED
    BY <1>5, <1>6, <1>7, <1>8, <1>9, <1>10 DEF IInv

\* Invalidated preserves the invariant.
LEMMA InvalidatedIInv ==
  ASSUME IInv, NEW p \in Process, Invalidated(p)
  PROVE  IInv'
  <1>1. /\ At(p, "uncache") /\ proc[p].ids = {} /\ proc[p] \in Doing /\ Knows(proc[p])
        /\ UNCHANGED <<account, row, cached, created, issued, outlived, outdated, overfull>>
    BY DEF Invalidated, histories, IInv, TypeOK, StepOK
  <1>2. CASE proc[p].op = "permissions"
    <2> DEFINE rec == [proc[p] EXCEPT !.at = "change"]
    <2>1. proc' = [proc EXCEPT ![p] = rec]
      BY <1>2 DEF Invalidated, Become
    <2>2. rec \in Doing /\ rec.at = "change" /\ rec.op = "permissions" /\ rec.user = proc[p].user
      BY <1>1, <1>2 DEF Doing, Step
    <2>3. Knows(rec)
      BY <1>1, <1>2, <2>2 DEF Knows, AccountOp
    <2> HIDE DEF rec
    <2>4. QED
      BY <1>1, <2>1, <2>2, <2>3, MoveOn DEF At
  <1>3. CASE proc[p].op # "permissions"
    <2>1. proc' = [proc EXCEPT ![p] = Idle]
      BY <1>3 DEF Invalidated, End
    <2>2. QED
      BY <1>1, <2>1, IdleOK, MoveOn DEF At
  <1>4. QED
    BY <1>2, <1>3


\* UpdateAccount preserves the invariant: copies of the account as it was are marked, or the
\* sessions of the user are revoked next.
LEMMA UpdateAccountIInv ==
  ASSUME IInv, NEW p \in Process, UpdateAccount(p)
  PROVE  IInv'
  <1> DEFINE u0 == proc[p].user
             last == proc[p].op \in {"permissions", "unban"}
  <1>1. /\ At(p, "change") /\ account[u0].version < MaxChanges /\ proc[p] \in Doing
        /\ UNCHANGED <<row, cached, created, issued, outlived, overfull>>
        /\ outdated' = IF last THEN outdated \cup (Copied \cap RowsOf(u0)) ELSE outdated
    BY DEF UpdateAccount, IInv, TypeOK
  <1>2. u0 \in User /\ proc[p].op \in AccountOp /\ (~last => proc[p].op \in {"ban", "role"})
    BY <1>1 DEF IInv, StepOK, Knows, At, AccountOp
  <1>3. PICK rec \in Doing :
          /\ proc' = [proc EXCEPT ![p] = rec] /\ Knows(rec)
          /\ ~last => rec.op = proc[p].op /\ rec.at = "list" /\ rec.user = u0
    <2>1. CASE last
      BY <1>1, <2>1, IdleOK DEF UpdateAccount, End
    <2>2. CASE ~last
      <3> DEFINE rec == [proc[p] EXCEPT !.at = "list"]
      <3>1. proc' = [proc EXCEPT ![p] = rec]
        BY <2>2 DEF UpdateAccount, Become
      <3>2. rec \in Doing /\ rec.op = proc[p].op /\ rec.at = "list" /\ rec.user = u0
        BY <1>1 DEF Doing, Step
      <3>3. Knows(rec)
        BY <1>2, <2>2, <3>2 DEF Knows, AccountOp
      <3>4. QED
        BY <1>2, <2>2, <3>1, <3>2, <3>3
    <2>3. QED
      BY <2>1, <2>2
  <1> HIDE DEF last, u0
  <1>4. /\ account' \in [User -> Account]
        /\ \A u \in User \ {u0} : account'[u] = account[u]
        /\ proc[p].op # "role" => account'[u0].admin = account[u0].admin
    <2>1. account \in [User -> Account] /\ MaxChanges \in Nat
      BY SessionsAssumption DEF IInv, TypeOK
    <2>2. account[u0].version + 1 \in 0..MaxChanges
      BY <1>1, <1>2, <2>1 DEF Account
    <2>3. PICK admin \in IF proc[p].op = "role" THEN BOOLEAN ELSE {account[u0].admin},
               banned \in BOOLEAN :
            account' = [account EXCEPT ![u0] =
              [version |-> account[u0].version + 1, admin |-> admin, banned |-> banned]]
      <3> DEFINE banned == IF proc[p].op \in {"ban", "unban"} THEN proc[p].op = "ban"
                           ELSE account[u0].banned
      <3>1. banned \in BOOLEAN
        BY <1>2, <2>1 DEF Account
      <3>2. \E admin \in IF proc[p].op = "role" THEN BOOLEAN ELSE {account[u0].admin} :
              account' = [account EXCEPT ![u0] =
                [version |-> account[u0].version + 1, admin |-> admin, banned |-> banned]]
        BY <1>2, <2>1 DEF UpdateAccount, u0
      <3> HIDE DEF banned
      <3>3. QED
        BY <3>1, <3>2
    <2>4. admin \in BOOLEAN
      BY <1>2, <2>1, <2>3 DEF Account
    <2>5. QED
      BY <1>2, <2>1, <2>2, <2>3, <2>4 DEF Account
  <1>5. TypeOK'
    BY <1>1, <1>3, <1>4 DEF IInv, TypeOK, Rows, Issued
  <1>6. StepOK'
    BY <1>3 DEF IInv, TypeOK, StepOK, Knows
  <1>7. TokensOK'
    BY <1>1 DEF IInv, TokensOK, TokenExchangedOnce, Rows, Issued
  <1>8. DeadCopiesOK'
    BY <1>1, <1>3, DeadStep DEF DeadCopiesOK, At
  <1>9. LiveCopiesOK'
    <2>1. ASSUME NEW s \in Session \ (outlived' \cup outdated') PROVE LiveOK(s)'
      <3>1. s \in Session \ (outlived \cup outdated) /\ row' = row /\ cached' = cached
        BY <1>1, <2>1
      <3>2. CASE cached[s] = None \/ row[s] = None
        BY <3>1, <3>2 DEF LiveOK
      <3>3. CASE cached[s] # None /\ row[s] # None /\ row[s].user # u0
        <4>1. row[s].user \in User
          BY <3>1, <3>3 DEF IInv, TypeOK, Row
        <4>2. account'[row[s].user] = account[row[s].user]
          BY <1>4, <3>3, <4>1
        <4>3. QED
          BY <1>1, <1>3, <3>1, <4>2, LiveStep DEF At
      <3>4. CASE cached[s] # None /\ row[s] # None /\ row[s].user = u0
        <4>1. ~last
          BY <1>1, <2>1, <3>1, <3>4 DEF Copied, RowsOf, Rows
        <4>2. \E q \in Process : /\ proc'[q].op \in {"ban", "role"} /\ proc'[q].at \in {"list", "delete"}
                                 /\ proc'[q].user = row[s].user
          BY <1>2, <1>3, <3>4, <4>1 DEF IInv, TypeOK
        <4>3. LiveOK(s) /\ ~At(p, "cache")
          BY <1>1, <3>1 DEF At, IInv, LiveCopiesOK
        <4>4. Writing(s) => Writing(s)'
          BY <1>3, <4>3 DEF Writing, At, IInv, TypeOK
        <4>5. QED
          BY <3>1, <3>4, <4>2, <4>3, <4>4 DEF LiveOK, Revoking
      <3>5. QED
        BY <3>2, <3>3, <3>4
    <2>2. QED
      BY <2>1 DEF LiveCopiesOK
  <1>10. LimitOK'
    <2>1. ASSUME NEW u \in User \ overfull PROVE FewOK(u)'
      <3>1. RowsOf(u)' = RowsOf(u) /\ proc[p].op # "login" /\ proc[p].at = "change"
        BY <1>1, <1>2 DEF RowsOf, Rows, AccountOp, At
      <3>2. CASE u = u0 /\ proc[p].op = "role"
        <4>1. rec.op = "role" /\ rec.at = "list" /\ rec.user = u
          BY <1>3, <3>2 DEF last
        <4>2. QED
          BY <1>3, <4>1 DEF FewOK, Demoting, IInv, TypeOK
      <3>3. CASE u # u0 \/ proc[p].op # "role"
        <4>1. account'[u].admin = account[u].admin
          BY <1>4, <3>3
        <4>2. QED
          BY <1>3, <3>1, <4>1, LimitStep
      <3>4. QED
        BY <3>2, <3>3
    <2>2. QED
      BY <1>1, <2>1 DEF LimitOK
  <1>11. QED
    BY <1>5, <1>6, <1>7, <1>8, <1>9, <1>10 DEF IInv

\* Expire preserves the invariant.
LEMMA ExpireIInv ==
  ASSUME IInv, NEW s \in Session, Expire(s)
  PROVE  IInv'
  <1>1. /\ cached' = [r \in Session |-> IF r \in {s} THEN None ELSE cached[r]]
        /\ outlived' = outlived \ {s} /\ outdated' = outdated \ {s}
        /\ UNCHANGED <<account, row, created, issued, proc, overfull>>
    BY DEF Expire, Uncache
  <1>2. TypeOK'
    <2>1. cached' \in [Session -> Copy \cup {None}]
      BY <1>1 DEF IInv, TypeOK
    <2>2. QED
      BY <1>1, <2>1 DEF IInv, TypeOK, Rows, Issued
  <1>3. StepOK' /\ TokensOK'
    BY <1>1 DEF IInv, StepOK, Knows, TokensOK, TokenExchangedOnce, Rows, Issued
  <1>4. \A r \in Session : cached'[r] = None \/ (r # s /\ cached'[r] = cached[r])
    BY <1>1
  <1>5. DeadCopiesOK'
    <2>1. ASSUME NEW r \in Session \ outlived' PROVE DeadOK(r)'
      <3>1. Removing(r)' <=> Removing(r)
        BY <1>1 DEF Removing, At
      <3>2. QED
        BY <1>1, <1>4, <2>1, <3>1 DEF IInv, DeadCopiesOK, DeadOK
    <2>2. QED
      BY <2>1 DEF DeadCopiesOK
  <1>6. LiveCopiesOK'
    <2>1. ASSUME NEW r \in Session \ (outlived' \cup outdated'), cached'[r] # None, row'[r] # None
          PROVE  LiveOK(r)'
      <3>1. r \in Session \ (outlived \cup outdated) /\ cached'[r] = cached[r]
        BY <1>1, <1>4, <2>1
      <3>2. Writing(r)' <=> Writing(r)
        BY <1>1 DEF Writing, At
      <3>3. Revoking(row[r].user)' <=> Revoking(row[r].user)
        BY <1>1 DEF Revoking
      <3>4. QED
        BY <1>1, <2>1, <3>1, <3>2, <3>3 DEF IInv, LiveCopiesOK, LiveOK, Revoking
    <2>2. QED
      BY <2>1 DEF LiveCopiesOK, LiveOK
  <1>7. LimitOK'
    <2>1. \A u \in User : RowsOf(u)' = RowsOf(u)
      BY <1>1 DEF RowsOf, Rows
    <2>2. QED
      BY <1>1, <2>1 DEF IInv, LimitOK, FewOK, Counting, Evicting, Demoting, Limit
  <1>8. QED
    BY <1>2, <1>3, <1>5, <1>6, <1>7 DEF IInv

\* Stop preserves the invariant: what the request would have repaired is marked.
LEMMA StopIInv ==
  ASSUME IInv, NEW p \in Process, Stop(p)
  PROVE  IInv'
  <1> DEFINE marked == CASE At(p, "cache") -> {proc[p].session}
                         [] proc[p].op \in {"ban", "role"} /\ proc[p].at \in {"list", "delete"} ->
                              RowsOf(proc[p].user)
                         [] OTHER -> {}
  <1>1. /\ proc' = [proc EXCEPT ![p] = Idle]
        /\ outlived' = IF At(p, "uncache") THEN outlived \cup (Copied \cap proc[p].ids) ELSE outlived
        /\ outdated' = outdated \cup (Copied \cap marked)
        /\ overfull' = IF \/ proc[p].op = "login" /\ proc[p].at \in {"cache", "enforce", "delete"}
                          \/ proc[p].op = "role" /\ proc[p].at \in {"list", "delete"}
                       THEN overfull \cup {proc[p].user} ELSE overfull
        /\ UNCHANGED <<account, row, cached, created, issued>>
    BY DEF Stop, End
  <1>2. /\ At(p, "cache") => marked = {proc[p].session}
        /\ proc[p].op \in {"ban", "role"} /\ proc[p].at \in {"list", "delete"} => marked = RowsOf(proc[p].user)
    BY DEF At
  <1> HIDE DEF marked
  <1>3. TypeOK'
    BY <1>1, IdleOK DEF IInv, TypeOK, Rows, Issued
  <1>4. StepOK'
    BY <1>1, IdleOK DEF IInv, TypeOK, StepOK, Knows
  <1>5. TokensOK'
    BY <1>1 DEF IInv, TokensOK, TokenExchangedOnce, Rows, Issued
  <1>6. DeadCopiesOK'
    <2>1. ASSUME NEW s \in Session \ outlived' PROVE DeadOK(s)'
      <3>1. s \in Session \ outlived /\ row' = row /\ cached' = cached
        BY <1>1, <2>1
      <3>2. CASE cached[s] = None
        BY <3>1, <3>2 DEF DeadOK
      <3>3. CASE cached[s] # None
        <4>1. ~(At(p, "uncache") /\ s \in proc[p].ids)
          BY <1>1, <2>1, <3>3 DEF Copied
        <4>2. QED
          BY <1>1, <3>1, <4>1, DeadStep
      <3>4. QED
        BY <3>2, <3>3
    <2>2. QED
      BY <2>1 DEF DeadCopiesOK
  <1>7. LiveCopiesOK'
    <2>1. ASSUME NEW s \in Session \ (outlived' \cup outdated') PROVE LiveOK(s)'
      <3>1. s \in Session \ (outlived \cup outdated) /\ row' = row /\ cached' = cached /\ account' = account
        BY <1>1, <2>1
      <3>2. CASE cached[s] = None \/ row[s] = None
        BY <3>1, <3>2 DEF LiveOK
      <3>3. CASE cached[s] # None /\ row[s] # None
        <4>1. s \notin marked /\ s \in RowsOf(row[s].user)
          BY <1>1, <2>1, <3>3 DEF Copied, RowsOf, Rows
        <4>2. ~(At(p, "cache") /\ proc[p].session = s)
          BY <1>2, <4>1
        <4>3. ~(/\ proc[p].op \in {"ban", "role"} /\ proc[p].at \in {"list", "delete"}
                /\ proc[p].user = row[s].user)
          BY <1>2, <4>1
        <4>4. QED
          BY <1>1, <3>1, <4>2, <4>3, LiveStep
      <3>4. QED
        BY <3>2, <3>3
    <2>2. QED
      BY <2>1 DEF LiveCopiesOK
  <1>8. LimitOK'
    <2>1. ASSUME NEW u \in User \ overfull' PROVE FewOK(u)'
      <3>1. u \in User \ overfull /\ RowsOf(u)' = RowsOf(u)
        BY <1>1, <2>1 DEF RowsOf, Rows
      <3>2. /\ ~(proc[p].op = "login" /\ proc[p].at \in {"cache", "enforce", "delete"} /\ proc[p].user = u)
            /\ ~(proc[p].op = "role" /\ proc[p].at \in {"list", "delete"} /\ proc[p].user = u)
        BY <1>1, <2>1
      <3>3. QED
        BY <1>1, <3>1, <3>2, LimitStep
    <2>2. QED
      BY <2>1 DEF LimitOK
  <1>9. QED
    BY <1>3, <1>4, <1>5, <1>6, <1>7, <1>8 DEF IInv

-----------------------------------------------------------------------------
\* Every step preserves the invariant.
LEMMA NextIInv == IInv /\ [Next]_vars => IInv'
  <1> SUFFICES ASSUME IInv, [Next]_vars PROVE IInv'
    OBVIOUS
  <1>1. ASSUME NEW p \in Process, Start(p) PROVE IInv'
    BY <1>1, StartIInv
  <1>2. ASSUME NEW p \in Process, Continue(p) PROVE IInv'
    BY <1>2, LoginStepsIInv, CacheIInv, EnforceIInv, RotateIInv, ListIInv, DeleteIInv, InvalidateIInv,
       InvalidatedIInv, UpdateAccountIInv DEF Continue
  <1>3. ASSUME NEW p \in Process, Stop(p) PROVE IInv'
    BY <1>3, StopIInv
  <1>4. ASSUME NEW s \in Session, Expire(s) PROVE IInv'
    BY <1>4, ExpireIInv
  <1>5. CASE UNCHANGED vars
    <2> USE <1>5 DEF vars
    <2>1. TypeOK' /\ StepOK' /\ TokensOK'
      BY DEF IInv, TypeOK, StepOK, Knows, TokensOK, TokenExchangedOnce, Rows, Issued
    <2>2. DeadCopiesOK' /\ LiveCopiesOK'
      BY DEF IInv, DeadCopiesOK, DeadOK, Removing, LiveCopiesOK, LiveOK, Writing, Revoking, At
    <2>3. LimitOK'
      <3>1. \A u \in User : RowsOf(u)' = RowsOf(u)
        BY DEF RowsOf, Rows
      <3>2. QED
        BY <3>1 DEF IInv, LimitOK, FewOK, Counting, Evicting, Demoting, Limit
    <2>4. QED
      BY <2>1, <2>2, <2>3 DEF IInv
  <1>6. QED
    BY <1>1, <1>2, <1>3, <1>4, <1>5 DEF Next

\* The inductive invariant holds in every reachable state.
LEMMA Invariance == Spec => []IInv
  <1>1. Init => IInv
    BY InitIInv
  <1>2. IInv /\ [Next]_vars => IInv'
    BY NextIInv
  <1>3. QED
    BY <1>1, <1>2, PTL DEF Spec

\* The state has the declared types, and no two sessions are of the same device: a login
\* takes over the session of its device, or creates the only one (session.service.ts:155).
THEOREM SessionsTyped == Spec => []TypeOK
  <1>1. IInv => TypeOK
    BY DEF IInv
  <1>2. QED
    BY <1>1, Invariance, PTL

\* A refresh token is exchanged at most once, however many requests present it: the guarded
\* updateMany of rotateRefreshToken lets one of them win (session.service.ts:238).
THEOREM ExchangedOnce == Spec => []TokenExchangedOnce
  <1>1. IInv => TokenExchangedOnce
    BY DEF IInv, TokensOK
  <1>2. QED
    BY <1>1, Invariance, PTL

\* A session whose row is deleted admits nobody once its copy has been invalidated, except
\* the copies the property names (session.service.ts:254, :328).
THEOREM RevokedStaysOut == Spec => []RevokedIsOut
  <1>1. IInv => RevokedIsOut
    BY DEF IInv, DeadCopiesOK, DeadOK, Removing, RevokedIsOut, Admits
  <1>2. QED
    BY <1>1, Invariance, PTL

\* Apart from a request that is about to repair it, a copy shows the account as it is,
\* except the copies the property names (users.service.ts:425).
THEOREM CopyStaysCurrent == Spec => []CopyIsCurrent
  <1>1. IInv => CopyIsCurrent
    <2> SUFFICES ASSUME IInv, NEW s \in Session \ (outlived \cup outdated), cached[s] # None,
                        ~Settling(s)
                 PROVE  row[s] # None /\ Admits(s, row[s].user)
                        /\ account[row[s].user].version = cached[s].version
      BY DEF CopyIsCurrent
    <2>1. ~Writing(s) /\ ~Removing(s)
      BY DEF Settling, Writing, Removing
    <2>2. row[s] # None
      BY <2>1 DEF IInv, DeadCopiesOK, DeadOK
    <2>3. LiveOK(s)
      BY DEF IInv, LiveCopiesOK
    <2>4. cached[s].user = row[s].user
      BY <2>1, <2>2, <2>3 DEF LiveOK
    <2>5. ~Revoking(row[s].user)
      BY <2>4 DEF Settling, Revoking, At
    <2>6. QED
      BY <2>1, <2>2, <2>3, <2>4, <2>5 DEF LiveOK, Admits
  <1>2. QED
    BY <1>1, Invariance, PTL

\* A user has no more sessions than his present role allows, when none of his logins is
\* running and no change of his role has still to revoke; unless the last login that counted
\* them had read a role with a larger limit, or one of the two stopped before its deletions
\* (session.service.ts:337, users.service.ts:414).
THEOREM DeviceLimitHolds == Spec => []DeviceLimitKept
  <1>1. IInv => DeviceLimitKept
    BY DEF IInv, LimitOK, FewOK, Counting, Evicting, Demoting, Limit, DeviceLimitKept
  <1>2. QED
    BY <1>1, Invariance, PTL

=============================================================================
