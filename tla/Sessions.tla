------------------------------- MODULE Sessions -------------------------------
(***************************************************************************)
(* Login sessions (auth/sessions/session.service.ts, jwt.strategy.ts) and  *)
(* the account changes of users.service.ts that revoke them.  A session is *)
(* a UserSession row, which owns the current refresh token, and a cached   *)
(* copy in Redis, the only thing a request with an access token is checked *)
(* against.  Every handler runs its database statements and cache commands *)
(* one at a time, without a transaction around them.                       *)
(***************************************************************************)
EXTENDS Naturals, FiniteSets, Sequences

CONSTANTS User,
          Admin,        \* the users that are administrators at first
          Device,       \* values of the device_id cookie
          Process,      \* HTTP requests and cron jobs that run at the same time
          None,
          UserMaxDevices,  \* USER_MAX_DEVICES
          AdminMaxDevices, \* ADMIN_MAX_DEVICES
          MaxSessions,  \* model bound: rows ever created
          MaxTokens,    \* model bound: refresh tokens ever issued
          MaxChanges    \* model bound: changes of each account

VARIABLES
  account,   \* User rows: banned, the role, and the number of changes of what a copy holds of them
  row,       \* UserSession rows
  cached,    \* auth:session:<id> in Redis
  created,   \* number of rows ever created, the ids of which are 1..created
  issued,    \* history: for each refresh token issued, the one it was exchanged for, or 0
  proc,      \* what each request is doing
  outlived,  \* history: sessions whose cached copy the deletion of the row missed
  outdated,  \* history: sessions whose cached copy was overtaken by another writer
  overfull   \* history: users whose sessions were last counted against a larger limit, or by a
             \* login or a change of role that stopped before it deleted what is too much

vars == <<account, row, cached, created, issued, proc, outlived, outdated, overfull>>
histories == <<outlived, outdated, overfull>>

Session == 1..MaxSessions
Token == 1..MaxTokens
Account == [banned : BOOLEAN, admin : BOOLEAN, version : 0..MaxChanges]
Row == [user : User, device : Device, token : Token]
Copy == [user : User, version : 0..MaxChanges]
AccountOp == {"ban", "unban", "role", "permissions"}
Op == {"none", "login", "refresh", "one", "others", "all", "expired", "uncache"} \cup AccountOp
Step == {"idle", "update", "create", "retry", "rotate", "cache", "enforce", "list", "delete",
         "uncache", "change"}
Doing == [op : Op, at : Step, user : User \cup {None}, device : Device \cup {None},
          session : 0..MaxSessions, token : 0..MaxTokens, version : 0..MaxChanges,
          ids : SUBSET Session, admin : BOOLEAN]

ASSUME SessionsAssumption ==
  /\ {UserMaxDevices, AdminMaxDevices, MaxSessions, MaxTokens} \subseteq Nat \ {0}
  /\ MaxChanges \in Nat /\ Admin \subseteq User
  /\ None \notin User \cup Device \cup Row \cup Copy

Idle == [op |-> "none", at |-> "idle", user |-> None, device |-> None, session |-> 0,
         token |-> 0, version |-> 0, ids |-> {}, admin |-> FALSE]

Init == /\ account = [u \in User |-> [banned |-> FALSE, admin |-> u \in Admin, version |-> 0]]
        /\ row = [s \in Session |-> None]
        /\ cached = [s \in Session |-> None]
        /\ created = 0 /\ issued = <<>>
        /\ proc = [p \in Process |-> Idle]
        /\ outlived = {} /\ outdated = {} /\ overfull = {}

Rows == {s \in Session : row[s] # None}
RowsOf(u) == {s \in Rows : row[s].user = u}
OnDevice(d) == {s \in Rows : row[s].device = d}
WithToken(t) == {s \in Rows : row[s].token = t}
Copied == {s \in Session : cached[s] # None}
Issued == Len(issued)
MaxDevices(admin) == IF admin THEN AdminMaxDevices ELSE UserMaxDevices

At(p, at) == proc[p].at = at
Begin(p, rec) == proc[p] = Idle /\ proc' = [proc EXCEPT ![p] = rec]
Become(p, rec) == proc' = [proc EXCEPT ![p] = rec]
End(p) == proc' = [proc EXCEPT ![p] = Idle]

-----------------------------------------------------------------------------
(***************************************************************************)
(* Login: auth.service login, session.service createLoginSession           *)
(***************************************************************************)
\* The account is read with its role, which decides the limit.  The browser sends its device cookie, or gets a new one.
Login(p, u, d, cookie) ==
  /\ ~account[u].banned
  /\ ~cookie => d \notin {row[s].device : s \in Rows} \cup {proc[q].device : q \in Process}
  /\ Begin(p, [Idle EXCEPT !.op = "login", !.at = IF cookie THEN "update" ELSE "create", !.user = u,
               !.device = d, !.version = account[u].version, !.admin = account[u].admin])
  /\ UNCHANGED <<account, row, cached, created, issued, histories>>

\* The row of the device is taken over, from whichever user it belonged to.
TakeOver(p, s) ==
  /\ Issued < MaxTokens
  /\ row' = [row EXCEPT ![s] = [user |-> proc[p].user, device |-> proc[p].device,
                                token |-> Issued + 1]]
  /\ issued' = Append(issued, 0)
  /\ Become(p, [proc[p] EXCEPT !.at = "cache", !.session = s, !.device = None])
  /\ UNCHANGED <<account, cached, created, histories>>

UpdateByDevice(p) ==
  /\ At(p, "update")
  /\ \/ \E s \in OnDevice(proc[p].device) : TakeOver(p, s)
     \/ /\ OnDevice(proc[p].device) = {}
        /\ Become(p, [proc[p] EXCEPT !.at = "create"])
        /\ UNCHANGED <<account, row, cached, created, issued, histories>>

\* Mutant: deviceId is not unique.
CreateRowAnyway(p) ==
  /\ At(p, "create") /\ created < MaxSessions /\ Issued < MaxTokens
  /\ created' = created + 1
  /\ row' = [row EXCEPT ![created + 1] =
       [user |-> proc[p].user, device |-> proc[p].device, token |-> Issued + 1]]
  /\ issued' = Append(issued, 0)
  /\ Become(p, [proc[p] EXCEPT !.at = "cache", !.session = created + 1, !.device = None])
  /\ UNCHANGED <<account, cached, histories>>

\* deviceId is unique: another login of the same browser may have created its row first.
CreateRow(p) ==
  /\ At(p, "create")
  /\ \/ /\ OnDevice(proc[p].device) = {}
        /\ created < MaxSessions /\ Issued < MaxTokens
        /\ created' = created + 1
        /\ row' = [row EXCEPT ![created + 1] =
             [user |-> proc[p].user, device |-> proc[p].device, token |-> Issued + 1]]
        /\ issued' = Append(issued, 0)
        /\ Become(p, [proc[p] EXCEPT !.at = "cache", !.session = created + 1, !.device = None])
        /\ UNCHANGED <<account, cached, histories>>
     \/ /\ OnDevice(proc[p].device) # {}
        /\ Become(p, [proc[p] EXCEPT !.at = "retry"])
        /\ UNCHANGED <<account, row, cached, created, issued, histories>>

UpdateAfterConflict(p) ==
  /\ At(p, "retry")
  /\ \/ \E s \in OnDevice(proc[p].device) : TakeOver(p, s)
     \/ /\ OnDevice(proc[p].device) = {}
        /\ End(p)
        /\ UNCHANGED <<account, row, cached, created, issued, histories>>

\* What is true of the copy p writes: it is of the row and the account as they are.
IsCurrent(p) == LET s == proc[p].session IN
  row[s] # None => /\ row[s].user = proc[p].user
                   /\ account[proc[p].user].version = proc[p].version
NextAfterCache(p) ==
  IF proc[p].op = "login" THEN Become(p, [proc[p] EXCEPT !.at = "enforce", !.version = 0])
  ELSE End(p)

CacheSession(p) ==
  LET s == proc[p].session IN
  /\ At(p, "cache")
  /\ cached' = [cached EXCEPT ![s] = [user |-> proc[p].user, version |-> proc[p].version]]
  /\ outlived' = IF row[s] = None THEN outlived \cup {s} ELSE outlived
  /\ outdated' = IF IsCurrent(p) THEN outdated \ {s} ELSE outdated \cup {s}
  /\ NextAfterCache(p)
  /\ UNCHANGED <<account, row, created, issued, overfull>>

\* setString swallows the error: an older copy stays.
CacheSessionFails(p) ==
  /\ At(p, "cache")
  /\ outdated' = outdated \cup (Copied \cap {proc[p].session})
  /\ NextAfterCache(p)
  /\ UNCHANGED <<account, row, cached, created, issued, outlived, overfull>>

\* Mutant: the new session is not counted.
OverflowOfOthers(p) == Cardinality(RowsOf(proc[p].user) \ {proc[p].session}) - MaxDevices(proc[p].admin)
Overflow(p) == Cardinality(RowsOf(proc[p].user)) - MaxDevices(proc[p].admin)

\* The sessions that were least active are evicted, but never the new one; which ones
\* are the least active is left open.  The limit is that of the role the login read.
EnforceDeviceLimit(p) ==
  LET u == proc[p].user
      others == RowsOf(u) \ {proc[p].session}
  IN
  /\ At(p, "enforce")
  /\ \/ /\ Overflow(p) <= 0 \/ others = {}
        /\ End(p)
     \/ /\ Overflow(p) > 0
        /\ \E evict \in (SUBSET others) \ {{}} :
             /\ \/ Cardinality(evict) = Overflow(p)
                \/ evict = others /\ Cardinality(others) < Overflow(p)
             /\ Become(p, [proc[p] EXCEPT !.at = "delete", !.ids = evict, !.session = 0,
                                            !.admin = FALSE])
  /\ overfull' = IF MaxDevices(proc[p].admin) > MaxDevices(account[u].admin)
                 THEN overfull \cup {u} ELSE overfull \ {u}
  /\ UNCHANGED <<account, row, cached, created, issued, outlived, outdated>>

(***************************************************************************)
(* rotateRefreshToken                                                      *)
(***************************************************************************)
\* Time is not kept: expired says whether expiresAt of the row has passed.
Refresh(p, t, expired) ==
  /\ \E s \in WithToken(t) :
       LET u == row[s].user IN
       IF expired \/ account[u].banned
       THEN Begin(p, [Idle EXCEPT !.op = "all", !.at = "list", !.user = u])
       ELSE Begin(p, [Idle EXCEPT !.op = "refresh", !.at = "rotate", !.user = u, !.session = s,
                      !.token = t, !.version = account[u].version])
  /\ UNCHANGED <<account, row, cached, created, issued, histories>>

\* Mutant: updateMany WHERE id.
RotateUnguarded(p) ==
  LET s == proc[p].session IN
  /\ At(p, "rotate") /\ s \in Rows /\ Issued < MaxTokens
  /\ row' = [row EXCEPT ![s].token = Issued + 1]
  /\ issued' = Append(issued, proc[p].token)
  /\ Become(p, [proc[p] EXCEPT !.at = "cache", !.token = 0])
  /\ UNCHANGED <<account, cached, created, histories>>

\* updateMany WHERE id AND refreshTokenHash: the second of two refreshes changes nothing.
Rotate(p) ==
  LET s == proc[p].session IN
  /\ At(p, "rotate")
  /\ IF s \in WithToken(proc[p].token)
     THEN /\ Issued < MaxTokens
          /\ row' = [row EXCEPT ![s].token = Issued + 1]
          /\ issued' = Append(issued, proc[p].token)
          /\ Become(p, [proc[p] EXCEPT !.at = "cache", !.token = 0])
     ELSE End(p) /\ UNCHANGED <<row, issued>>
  /\ UNCHANGED <<account, cached, created, histories>>

(***************************************************************************)
(* Revocation                                                              *)
(***************************************************************************)
\* revokeSession, also by logout: the session of an access token that admits its owner.
RevokeOne(p, u, s) ==
  /\ s <= created
  /\ Begin(p, [Idle EXCEPT !.op = "one", !.at = "delete", !.user = u, !.session = s, !.ids = {s}])
  /\ UNCHANGED <<account, row, cached, created, issued, histories>>

\* revokeOtherSessions keeps s; revokeAllSessions; collectExpiredSessions.
Revoke(p, op, u, s) ==
  /\ Begin(p, [Idle EXCEPT !.op = op, !.at = "list", !.user = u, !.session = s])
  /\ UNCHANGED <<account, row, cached, created, issued, histories>>

\* The rows that the WHERE of the request selects when it runs.
Selected(p) ==
  CASE proc[p].op = "others" -> RowsOf(proc[p].user) \ {proc[p].session}
    [] proc[p].op = "one" -> RowsOf(proc[p].user) \cap {proc[p].session}
    [] OTHER -> RowsOf(proc[p].user)

\* The collector takes the sessions that have expired or were long inactive, whichever they are.
Listed(p) == IF proc[p].op = "expired" THEN SUBSET Rows ELSE {Selected(p)}

ListSessions(p) ==
  /\ At(p, "list")
  /\ \E ids \in Listed(p) : Become(p, [proc[p] EXCEPT !.at = "delete", !.ids = ids])
  /\ UNCHANGED <<account, row, cached, created, issued, histories>>

\* Mutant: the copies are left to expire.
DeleteSessionsOnly(p) ==
  /\ At(p, "delete")
  /\ row' = [s \in Session |-> IF s \in Selected(p) THEN None ELSE row[s]]
  /\ End(p)
  /\ UNCHANGED <<account, cached, created, issued, histories>>

\* Evictions and the collector delete by id; the others select the rows again.
DeleteSessions(p) ==
  LET gone == IF proc[p].op \in {"login", "expired"} THEN proc[p].ids \cap Rows ELSE Selected(p) IN
  /\ At(p, "delete")
  /\ row' = [s \in Session |-> IF s \in gone THEN None ELSE row[s]]
  /\ outlived' = outlived \cup ((gone \cap Copied) \ proc[p].ids)
  /\ IF proc[p].op = "permissions" THEN Become(p, [proc[p] EXCEPT !.at = "uncache"])
     ELSE Become(p, [proc[p] EXCEPT !.op = "uncache", !.at = "uncache", !.user = None, !.session = 0])
  /\ UNCHANGED <<account, cached, created, issued, outdated, overfull>>

Uncache(gone) == /\ cached' = [s \in Session |-> IF s \in gone THEN None ELSE cached[s]]
                 /\ outlived' = outlived \ gone /\ outdated' = outdated \ gone

\* invalidateSessionCache of the ids that were listed; del swallows its errors.
InvalidateSession(p, s) ==
  /\ At(p, "uncache") /\ s \in proc[p].ids
  /\ \/ Uncache({s})
     \/ outlived' = outlived \cup (Copied \cap {s}) /\ UNCHANGED <<cached, outdated>>
  /\ Become(p, [proc[p] EXCEPT !.ids = proc[p].ids \ {s}])
  /\ UNCHANGED <<account, row, created, issued, overfull>>

Invalidated(p) ==
  /\ At(p, "uncache") /\ proc[p].ids = {}
  /\ IF proc[p].op = "permissions" THEN Become(p, [proc[p] EXCEPT !.at = "change"]) ELSE End(p)
  /\ UNCHANGED <<account, row, cached, created, issued, histories>>

(***************************************************************************)
(* users.service: setBanStatus, updateRole, updateUser, updatePermissions  *)
(***************************************************************************)
\* updatePermissions revokes first, the others last; a ban is lifted without revoking.
\* "role" is updateRole, and updateUser of a name or a password, which keeps the role.
ChangeAccount(p, op, u) ==
  /\ Begin(p, [Idle EXCEPT !.op = op, !.at = IF op = "permissions" THEN "list" ELSE "change", !.user = u])
  /\ UNCHANGED <<account, row, cached, created, issued, histories>>

\* Mutant: a new role does not revoke.
UpdateAccountOnly(p) ==
  LET u == proc[p].user IN
  /\ At(p, "change") /\ account[u].version < MaxChanges
  /\ account' = [account EXCEPT ![u].version = @ + 1]
  /\ End(p)
  /\ UNCHANGED <<row, cached, created, issued, histories>>

UpdateAccount(p) ==
  LET u == proc[p].user IN
  /\ At(p, "change") /\ account[u].version < MaxChanges
  /\ \E admin \in IF proc[p].op = "role" THEN BOOLEAN ELSE {account[u].admin} :
       account' = [account EXCEPT ![u] =
         [version |-> @.version + 1, admin |-> admin,
          banned |-> IF proc[p].op \in {"ban", "unban"} THEN proc[p].op = "ban" ELSE @.banned]]
  /\ IF proc[p].op \in {"permissions", "unban"} THEN End(p) ELSE Become(p, [proc[p] EXCEPT !.at = "list"])
  /\ outdated' = IF proc[p].op \in {"permissions", "unban"} THEN outdated \cup (Copied \cap RowsOf(u)) ELSE outdated
  /\ UNCHANGED <<row, cached, created, issued, outlived, overfull>>

-----------------------------------------------------------------------------
\* The copy's time to live ends; it is given the time left to expiresAt.
Expire(s) ==
  /\ s \in Copied
  /\ Uncache({s})
  /\ UNCHANGED <<account, row, created, issued, proc, overfull>>

\* The server stops, or a statement fails: the rest of the handler does not run.
Stop(p) ==
  /\ proc[p] # Idle
  /\ End(p)
  /\ outlived' = IF At(p, "uncache") THEN outlived \cup (Copied \cap proc[p].ids) ELSE outlived
  /\ outdated' = outdated \cup (Copied \cap
       CASE At(p, "cache") -> {proc[p].session}
         [] proc[p].op \in {"ban", "role"} /\ proc[p].at \in {"list", "delete"} -> RowsOf(proc[p].user)
         [] OTHER -> {})
  /\ overfull' = IF \/ proc[p].op = "login" /\ proc[p].at \in {"cache", "enforce", "delete"}
                    \/ proc[p].op = "role" /\ proc[p].at \in {"list", "delete"}
                 THEN overfull \cup {proc[p].user} ELSE overfull
  /\ UNCHANGED <<account, row, cached, created, issued>>

Start(p) ==
  \/ \E u \in User, d \in Device, cookie \in BOOLEAN : Login(p, u, d, cookie)
  \/ \E t \in Token, expired \in BOOLEAN : Refresh(p, t, expired)
  \/ \E u \in User, s \in Session : RevokeOne(p, u, s) \/ (s \in Rows /\ Revoke(p, "others", u, s))
  \/ \E u \in User : Revoke(p, "all", u, 0)
  \/ \E u \in User, op \in AccountOp : ChangeAccount(p, op, u)
  \/ Revoke(p, "expired", None, 0)
Continue(p) ==
  \/ UpdateByDevice(p) \/ CreateRow(p) \/ UpdateAfterConflict(p)
  \/ CacheSession(p) \/ CacheSessionFails(p) \/ EnforceDeviceLimit(p)
  \/ Rotate(p)
  \/ ListSessions(p) \/ DeleteSessions(p) \/ (\E s \in Session : InvalidateSession(p, s)) \/ Invalidated(p)
  \/ UpdateAccount(p)

Next == \/ \E p \in Process : Start(p) \/ Continue(p) \/ Stop(p)
        \/ \E s \in Session : Expire(s)
Spec == Init /\ [][Next]_vars

-----------------------------------------------------------------------------
(***************************************************************************)
(* Properties                                                              *)
(***************************************************************************)
TypeOK ==
  /\ account \in [User -> Account]
  /\ row \in [Session -> Row \cup {None}]
  /\ \A s1, s2 \in Rows : row[s1].device = row[s2].device => s1 = s2
  /\ cached \in [Session -> Copy \cup {None}]
  /\ created \in 0..MaxSessions /\ issued \in Seq(0..MaxTokens) /\ Issued <= MaxTokens
  /\ proc \in [Process -> Doing]

\* JwtStrategy.validate: the copy decides; expiry is the copy's absence here.
Admits(s, u) == cached[s] # None /\ cached[s].user = u

\* A refresh token is exchanged at most once, whoever presents it how often and when.
TokenExchangedOnce == \A t1, t2 \in DOMAIN issued : issued[t1] = issued[t2] /\ t1 # t2 => issued[t1] = 0

\* A session whose row was deleted admits nobody, once the request that deleted it has
\* invalidated the ids it listed: except a copy that was written after the deletion, or
\* was missed because the row came between the list and the deletion, or because of a
\* failure (session.service.ts:254, :328).
RevokedIsOut ==
  \A s \in Session \ outlived : row[s] = None =>
    \/ \A u \in User : ~Admits(s, u)
    \/ \E p \in Process : At(p, "uncache") /\ s \in proc[p].ids

\* A request in the middle of what will bring the copy of s up to date or remove it.
Settling(s) ==
  \E p \in Process : \/ At(p, "cache") /\ proc[p].session = s
                     \/ proc[p].op \in {"ban", "role"} /\ ~At(p, "change") /\ proc[p].user = cached[s].user
                     \/ At(p, "uncache") /\ s \in proc[p].ids

\* A copy shows the owner of the session as the account is now: who was banned, or got
\* another role, name or permissions, is known to every request when the change is done;
\* except a copy some other request had read for before, and except after
\* updatePermissions and the lifting of a ban, which change the account last.
CopyIsCurrent ==
  \A s \in Session \ (outlived \cup outdated) : cached[s] # None =>
    \/ Settling(s)
    \/ row[s] # None /\ Admits(s, row[s].user) /\ account[row[s].user].version = cached[s].version

\* A user has no more sessions than the role he has now allows, when none of his logins is
\* running and no change of his role has yet to revoke the sessions of the old role; except
\* after a login that had read a role with a larger limit, and after a failure of either.
DeviceLimitKept ==
  \A u \in User \ overfull :
    \/ Cardinality(RowsOf(u)) <= MaxDevices(account[u].admin)
    \/ \E p \in Process : /\ proc[p].user = u
                           /\ \/ proc[p].op = "login"
                              \/ proc[p].op = "role" /\ proc[p].at \in {"list", "delete"}
=============================================================================
