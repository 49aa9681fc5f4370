--------------------------- MODULE RefreshSession ---------------------------
(***************************************************************************)
(* The refresh sessions of one account: login, rotation of the refresh     *)
(* token, reuse of a consumed token, logout, and the account changes that  *)
(* end every session.                                                      *)
(*                                                                         *)
(* A rotation locks the row of its token and then inserts the successor; a *)
(* revocation is one UPDATE over the unrevoked rows of a session or of the *)
(* account.  The UPDATE waits for rows other transactions hold.  What it   *)
(* does about rows committed while it waits depends on the database, so it *)
(* is a start (Scan) and an end (RevokeCommit).                            *)
(***************************************************************************)
EXTENDS Integers, FiniteSets

CONSTANTS
    Tokens,            \* rows of refresh_tokens, by id; their number is a bound
    Requests,          \* concurrent calls of AuthLogic and UserLogic
    None,              \* no row, no holder
    StatementSnapshot  \* an UPDATE sees only rows committed before it started:
                       \* PostgreSQL at READ COMMITTED; an InnoDB scan sees the
                       \* row that the transaction it waited for has inserted

ASSUME SessionAssumption ==
    /\ None \notin Tokens
    /\ None \notin Requests
    /\ StatementSnapshot \in BOOLEAN

ASSUME IdsAssumption == Tokens \subseteq Nat

VARIABLES
    enabled,         \* users.enabled
    status,          \* refresh_tokens: replaced is revoked with a successor
    session,         \* the session of a row, named by its first token
    expired,         \* rows whose expires_at has passed
    rowLock,         \* the transaction that holds a row
    userLock,        \* the transaction that holds the row of the account
    pc, goal,        \* the calls: control, and why a revocation runs
    token,           \* the token a call was given or has made
    scan,            \* the rows its UPDATE started with
    ended            \* history: the sessions its revocation was to end

tokenRows == <<status, session>>

locks == <<rowLock, userLock>>

callVars == <<pc, goal, token, scan, ended>>

vars == <<enabled, tokenRows, expired, locks, callVars>>

Free == {t \in Tokens : status[t] = "unused"}

\* The id of the next row to be inserted.
NextId == {t \in Free : \A u \in Free : t <= u}

Active(sessions) == {t \in Tokens : status[t] = "active" /\ session[t] \in sessions}

Sessions == {session[t] : t \in Tokens \ Free}

Init ==
    /\ enabled = TRUE
    /\ status = [t \in Tokens |-> "unused"]
    /\ session = [t \in Tokens |-> t]
    /\ expired = {}
    /\ rowLock = [t \in Tokens |-> None]
    /\ userLock = None
    /\ pc = [r \in Requests |-> "failed"]
    /\ goal = [r \in Requests |-> "logout"]
    /\ token = [r \in Requests |-> None]
    /\ scan = [r \in Requests |-> {}]
    /\ ended = [r \in Requests |-> {}]

-----------------------------------------------------------------------------
Ended == {"served", "revoked", "failed"}

AccountGoals == {"disable", "password", "promote"}

Goto(r, label) == pc' = [pc EXCEPT ![r] = label]

\* A call that is over is forgotten.
Finish(r, label) ==
    /\ Goto(r, label)
    /\ goal' = [goal EXCEPT ![r] = "logout"]
    /\ token' = [token EXCEPT ![r] = None]

\* The end of a transaction.
Release(r) ==
    /\ rowLock' = [t \in Tokens |-> IF rowLock[t] = r THEN None ELSE rowLock[t]]
    /\ userLock' = IF userLock = r THEN None ELSE userLock

Begin(r, label, g, t) ==
    /\ pc[r] \in Ended
    /\ Goto(r, label)
    /\ goal' = [goal EXCEPT ![r] = g]
    /\ token' = [token EXCEPT ![r] = t]
    /\ scan' = [scan EXCEPT ![r] = {}]
    /\ ended' = [ended EXCEPT ![r] = {}]
    /\ UNCHANGED <<enabled, tokenRows, expired, locks>>

\* Login, up to the password check, which reads the account in no transaction.
VerifyLogin(r) ==
    /\ enabled
    /\ Begin(r, "verified", "undo", None)

Refresh(r, t) == Begin(r, "rotate", "replay", t)

Logout(r, t) == Begin(r, "revoke", "logout", t)

\* UpdateManagedStatus(disable), UpdateManagedPassword, promoteSystemAdmin.
ChangeAccount(r, g) == Begin(r, "account", g, None)

\* UpdateManagedStatus(enable) revokes nothing.
Enable ==
    /\ userLock = None
    /\ enabled' = TRUE
    /\ UNCHANGED <<tokenRows, expired, locks, callVars>>

\* The expiry of a revoked token changes nothing.
ExpireToken(t) ==
    /\ status[t] = "active"
    /\ expired' = expired \cup {t}
    /\ UNCHANGED <<enabled, tokenRows, locks, callVars>>

-----------------------------------------------------------------------------
(* Login *)

Bug_NotRechecked == TRUE

\* The UPDATE of the account row matches only an enabled account.
LoginAllowed == enabled

\* CreateSession: the update of the account row, then the insert.
CreateSession(r, t) ==
    /\ pc[r] = "verified"
    /\ userLock = None
    /\ LoginAllowed
    /\ t \in NextId
    /\ status' = [status EXCEPT ![t] = "active"]
    /\ session' = [session EXCEPT ![t] = t]
    /\ token' = [token EXCEPT ![r] = t]
    /\ Goto(r, "created")
    /\ UNCHANGED <<enabled, expired, locks, goal, scan, ended>>

\* The account was disabled since the password check.
CreateRefused(r) ==
    /\ pc[r] = "verified"
    /\ userLock = None
    /\ ~LoginAllowed
    /\ Finish(r, "failed")
    /\ UNCHANGED <<enabled, tokenRows, expired, locks, scan, ended>>

\* The login counter is deleted; when that fails the session is taken back.
ClearLimit(r) ==
    /\ pc[r] = "created"
    /\ Finish(r, "served") \/ (Goto(r, "revoke") /\ UNCHANGED <<goal, token>>)
    /\ UNCHANGED <<enabled, tokenRows, expired, locks, scan, ended>>

-----------------------------------------------------------------------------
(* Rotation *)

\* checkRotation
Rotatable(t) == status[t] = "active" /\ t \notin expired

Replayed(t) == status[t] = "replaced"

\* lockTokenByHash and checkRotation.
LockCurrent(r) ==
    LET t == token[r] IN
    /\ pc[r] = "rotate"
    /\ rowLock[t] = None
    /\ \/ /\ Rotatable(t) \/ Replayed(t)
          /\ Goto(r, IF Rotatable(t) THEN "insert" ELSE "replayed")
          /\ rowLock' = [rowLock EXCEPT ![t] = r]
          /\ UNCHANGED <<goal, token>>
       \/ /\ ~Rotatable(t) /\ ~Replayed(t)
          /\ Finish(r, "failed")
          /\ UNCHANGED rowLock
    /\ UNCHANGED <<enabled, tokenRows, expired, userLock, scan, ended>>

\* The reuse of a consumed token: Rotate revokes the session and fails, which
\* rolls the revocation back, so rotateRefresh starts another one.
RejectReplay(r) ==
    /\ pc[r] = "replayed"
    /\ \A u \in Active({session[token[r]]}) : rowLock[u] \in {None, r}
    /\ Release(r)
    /\ Goto(r, "revoke")
    /\ UNCHANGED <<enabled, tokenRows, expired, goal, token, scan, ended>>

Bug_Unconsumed == "active"

\* consumeToken: revoked, with the successor noted.
Consumed == "replaced"

\* The insert of the successor, consumeToken and the commit.
Rotate(r, n) ==
    LET t == token[r] IN
    /\ pc[r] = "insert"
    /\ n \in NextId
    /\ status' = [status EXCEPT ![n] = "active", ![t] = Consumed]
    /\ session' = [session EXCEPT ![n] = session[t]]
    /\ token' = [token EXCEPT ![r] = n]
    /\ Release(r)
    /\ Goto(r, "rotated")
    /\ UNCHANGED <<enabled, expired, goal, scan, ended>>

\* refreshedAccess: a disabled account, or a failure, takes the session back.
ActiveUser(r) ==
    /\ pc[r] = "rotated"
    /\ \/ enabled /\ Finish(r, "served")
       \/ Goto(r, "revoke") /\ goal' = [goal EXCEPT ![r] = "undo"] /\ UNCHANGED token
    /\ UNCHANGED <<enabled, tokenRows, expired, locks, scan, ended>>

-----------------------------------------------------------------------------
(* Revocation *)

\* RevokeSessionByTokenHash: lockTokenByHash; an unknown token has no session.
LockForRevoke(r) ==
    LET t == token[r] IN
    /\ pc[r] = "revoke"
    /\ rowLock[t] = None
    /\ \/ /\ status[t] # "unused"
          /\ rowLock' = [rowLock EXCEPT ![t] = r]
          /\ ended' = [ended EXCEPT ![r] = {session[t]}]
          /\ Goto(r, "scan")
       \/ /\ status[t] = "unused"
          /\ Goto(r, "revoked")
          /\ UNCHANGED <<rowLock, ended>>
    /\ UNCHANGED <<enabled, tokenRows, expired, userLock, goal, token, scan>>

\* lockManagedUser, before revokeUserSessions.
LockManagedUser(r) ==
    /\ pc[r] = "account"
    /\ userLock = None
    /\ userLock' = r
    /\ ended' = [ended EXCEPT ![r] = Sessions]
    /\ Goto(r, "scan")
    /\ UNCHANGED <<enabled, tokenRows, expired, rowLock, goal, token, scan>>

\* The UPDATE starts.
Scan(r) ==
    /\ pc[r] = "scan"
    /\ scan' = [scan EXCEPT ![r] = Active(ended[r])]
    /\ Goto(r, "update")
    /\ UNCHANGED <<enabled, tokenRows, expired, locks, goal, token, ended>>

Bug_OnlyOwnRow(r) == Active(ended[r]) \cap {token[r]}

\* The rows revokeSession and revokeUserSessions end up revoking: rows that are
\* still unrevoked when their lock is granted.
Doomed(r) == IF StatementSnapshot THEN scan[r] \cap Active(ended[r]) ELSE Active(ended[r])

\* The UPDATE has every row it wants, and the transaction commits.
RevokeCommit(r) ==
    /\ pc[r] = "update"
    /\ \A t \in Doomed(r) : rowLock[t] \in {None, r}
    /\ status' = [t \in Tokens |-> IF t \in Doomed(r) THEN "revoked" ELSE status[t]]
    /\ enabled' = CASE goal[r] = "disable" -> FALSE
                    [] goal[r] = "promote" -> TRUE
                    [] OTHER -> enabled
    /\ Release(r)
    /\ scan' = [scan EXCEPT ![r] = {}]
    /\ token' = [token EXCEPT ![r] = None]
    /\ Goto(r, "revoked")
    /\ UNCHANGED <<session, expired, goal, ended>>

Bug_RowsKept(r) == UNCHANGED locks

\* What a failed transaction leaves locked: nothing.
RolledBack(r) == Release(r)

\* A database error, the end of the context or the death of the process, in a
\* transaction or between two.
Fail(r) ==
    /\ pc[r] \notin Ended
    /\ RolledBack(r)
    /\ scan' = [scan EXCEPT ![r] = {}]
    /\ ended' = [ended EXCEPT ![r] = {}]
    /\ Finish(r, "failed")
    /\ UNCHANGED <<enabled, tokenRows, expired>>

-----------------------------------------------------------------------------
Next ==
    \/ Enable
    \/ \E t \in Tokens : ExpireToken(t)
    \/ \E r \in Requests :
          \/ VerifyLogin(r)
          \/ \E t \in Tokens : Refresh(r, t) \/ Logout(r, t)
          \/ \E g \in AccountGoals : ChangeAccount(r, g)
          \/ \E t \in Tokens : CreateSession(r, t) \/ Rotate(r, t)
          \/ CreateRefused(r)
          \/ ClearLimit(r)
          \/ LockCurrent(r)
          \/ RejectReplay(r)
          \/ ActiveUser(r)
          \/ LockForRevoke(r)
          \/ LockManagedUser(r)
          \/ Scan(r)
          \/ RevokeCommit(r)
          \/ Fail(r)

Spec == Init /\ [][Next]_vars

\* The step a call takes next.  An insert that finds no row id left, which only
\* the bound on Tokens causes, fails.
Progress(r) ==
    \/ LockCurrent(r)
    \/ RejectReplay(r)
    \/ \E n \in Tokens : Rotate(r, n)
    \/ pc[r] = "insert" /\ Free = {} /\ Fail(r)
    \/ ActiveUser(r)
    \/ LockForRevoke(r)
    \/ LockManagedUser(r)
    \/ Scan(r)
    \/ RevokeCommit(r)

\* A call goes on when it can, and locks are granted to their waiters in turn.
Fairness == \A r \in Requests : SF_vars(Progress(r))

FairSpec == Spec /\ Fairness

-----------------------------------------------------------------------------
(* Properties *)

Labels ==
    {"verified", "created", "rotate", "replayed", "insert", "rotated", "revoke",
     "account", "scan", "update"} \cup Ended

ByToken == {"created", "rotate", "replayed", "insert", "rotated", "revoke"}

\* The rows, the locks and the calls have the shapes the code gives them; a call
\* that will rotate or revoke by a token has one.
TypeOK ==
    /\ enabled \in BOOLEAN
    /\ status \in [Tokens -> {"unused", "active", "replaced", "revoked"}]
    /\ session \in [Tokens -> Tokens]
    /\ expired \subseteq Tokens \ Free
    /\ rowLock \in [Tokens -> Requests \cup {None}]
    /\ userLock \in Requests \cup {None}
    /\ pc \in [Requests -> Labels]
    /\ goal \in [Requests -> {"replay", "undo", "logout"} \cup AccountGoals]
    /\ token \in [Requests -> Tokens \cup {None}]
    /\ scan \in [Requests -> SUBSET Tokens]
    /\ ended \in [Requests -> SUBSET Tokens]
    /\ \A r \in Requests : pc[r] \in ByToken => token[r] # None

\* A session never has two usable tokens: whatever is refreshed twice, at the
\* same time or again after a lost answer, Rotate makes no branch in the chain.
OneActive ==
    \A t, u \in Tokens :
        status[t] = "active" /\ status[u] = "active" /\ session[t] = session[u] => t = u

\* A revocation that has committed is complete and final: the sessions it was to
\* end (of a reused token, of a logout, of a failed login or refresh, or of an
\* account that was disabled or given a new password) have no usable token, also
\* when a refresh of theirs was under way.
SessionsEnd == \A r \in Requests : pc[r] = "revoked" => Active(ended[r]) = {}

\* security.md: "Reuse revokes the session."
ReuseEndsSession ==
    \A r \in Requests : pc[r] = "revoked" /\ goal[r] = "replay" => Active(ended[r]) = {}

\* A disabled account has no usable token: no login that checked the password
\* before, and no refresh that started before, leaves one behind.
DisabledHasNoSession == ~enabled => Active(Sessions) = {}

\* A rotation between its lock and its commit has its token's row, still usable.
RotationsHold ==
    \A r \in Requests :
        pc[r] = "insert" => rowLock[token[r]] = r /\ status[token[r]] = "active"

\* The session of a row is named by a row that exists.
SessionsNamed ==
    \A t \in Tokens : status[t] # "unused" => status[session[t]] # "unused"

\* A revocation ends sessions that exist, none before it has its lock; one for
\* the account holds its row and ends all of them.
ScopesKnown ==
    \A r \in Requests :
        /\ \A t \in ended[r] : status[t] # "unused"
        /\ pc[r] \notin {"scan", "update"} \cup Ended => ended[r] = {}
        /\ goal[r] \in AccountGoals => pc[r] \in {"account", "scan", "update"} \cup Ended
        /\ pc[r] \in {"scan", "update"} /\ goal[r] \in AccountGoals =>
              /\ userLock = r
              /\ \A t \in Tokens : status[t] # "unused" => session[t] \in ended[r]

\* The inductive invariant, for both kinds of database.
Chained == TypeOK /\ RotationsHold /\ SessionsNamed /\ ScopesKnown /\ OneActive

\* Every refresh, logout and account change ends: nobody waits for a row for good.
EveryCallEnds ==
    \A r \in Requests : pc[r] \in {"rotate", "revoke", "account"} ~> pc[r] \in Ended
=============================================================================
