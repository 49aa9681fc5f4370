------------------------ MODULE RefreshSessionProofs ------------------------
(***************************************************************************)
(* That rotation never branches a session, on either kind of database, and *)
(* that on one whose UPDATE sees the rows it waited for a committed        *)
(* revocation ends its sessions for good, for any number of tokens and     *)
(* concurrent calls.                                                       *)
(***************************************************************************)
EXTENDS RefreshSession, TLAPS

LEMMA InitChained == Init => Chained
BY SessionAssumption
   DEF Init, Chained, TypeOK, RotationsHold, SessionsNamed, ScopesKnown, OneActive,
       Labels, Ended, AccountGoals, ByToken, Free

\* Steps that change no row of refresh_tokens and only one call.
LEMMA BeginChained ==
    ASSUME Chained, NEW r \in Requests, NEW t \in Tokens \cup {None},
           NEW label \in {"verified", "rotate", "revoke", "account"},
           NEW g \in {"replay", "undo", "logout"} \cup AccountGoals,
           label \in {"rotate", "revoke"} => t # None,
           g \in AccountGoals => label = "account",
           Begin(r, label, g, t)
    PROVE  Chained'
<1> USE DEF Chained
<1>1. /\ pc' = [pc EXCEPT ![r] = label] /\ goal' = [goal EXCEPT ![r] = g]
      /\ token' = [token EXCEPT ![r] = t] /\ scan' = [scan EXCEPT ![r] = {}]
      /\ ended' = [ended EXCEPT ![r] = {}]
      /\ UNCHANGED <<enabled, status, session, expired, rowLock, userLock>>
  BY DEF Begin, Goto, tokenRows, locks
<1>2. TypeOK'
  BY <1>1 DEF TypeOK, Labels, ByToken, Free
<1>3. RotationsHold' /\ ScopesKnown'
  BY <1>1 DEF TypeOK, RotationsHold, ScopesKnown
<1>4. SessionsNamed' /\ OneActive'
  BY <1>1 DEF SessionsNamed, OneActive
<1> QED BY <1>2, <1>3, <1>4

\* A call of its own that moves between labels outside its transactions.
LEMMA MoveChained ==
    ASSUME Chained, NEW r \in Requests,
           CreateRefused(r) \/ ClearLimit(r) \/ ActiveUser(r) \/ Scan(r)
    PROVE  Chained'
<1> USE DEF Chained
<1>1. /\ UNCHANGED <<enabled, status, session, expired, rowLock, userLock, ended>>
      /\ \A q \in Requests \ {r} : /\ pc'[q] = pc[q] /\ goal'[q] = goal[q]
                                    /\ scan'[q] = scan[q] /\ token'[q] = token[q]
      /\ pc' \in [Requests -> Labels]
      /\ token' \in [Requests -> Tokens \cup {None}]
      /\ pc'[r] \in ByToken => pc[r] \in ByToken /\ token'[r] = token[r]
      /\ pc'[r] # "insert"
      /\ goal'[r] \in AccountGoals => goal[r] \in AccountGoals
      /\ pc'[r] \in {"scan", "update"} => pc[r] = "scan"
      /\ goal' \in [Requests -> {"replay", "undo", "logout"} \cup AccountGoals]
      /\ scan' \in [Requests -> SUBSET Tokens]
  BY DEF CreateRefused, ClearLimit, ActiveUser, Scan, Goto, Finish, tokenRows, locks, TypeOK,
         Labels, Ended, ByToken, AccountGoals, Active
<1>2. TypeOK'
  BY <1>1 DEF TypeOK, Free
<1>3. RotationsHold'
  BY <1>1 DEF RotationsHold
<1>4. ScopesKnown'
  BY <1>1 DEF ScopesKnown, CreateRefused, ClearLimit, ActiveUser, Scan, Goto, Finish, Ended, TypeOK, AccountGoals
<1>5. SessionsNamed' /\ OneActive'
  BY <1>1 DEF SessionsNamed, OneActive
<1> QED BY <1>2, <1>3, <1>4, <1>5

LEMMA CreateChained ==
    ASSUME Chained, NEW r \in Requests, NEW t \in Tokens, CreateSession(r, t)
    PROVE  Chained'
<1> USE DEF Chained
<1>1. /\ status[t] = "unused" /\ userLock = None /\ pc[r] = "verified"
      /\ status' = [status EXCEPT ![t] = "active"]
      /\ session' = [session EXCEPT ![t] = t]
      /\ token' = [token EXCEPT ![r] = t]
      /\ pc' = [pc EXCEPT ![r] = "created"]
      /\ UNCHANGED <<enabled, expired, rowLock, userLock, goal, scan, ended>>
  BY DEF CreateSession, NextId, Free, Goto, locks
<1>2. \A u \in Tokens : status[u] # "unused" => session[u] # t
  BY <1>1 DEF SessionsNamed
<1>3. TypeOK'
  BY <1>1, SessionAssumption DEF TypeOK, Free, Labels, ByToken
<1>4. RotationsHold'
  BY <1>1 DEF RotationsHold, TypeOK
<1>5. SessionsNamed'
  BY <1>1, <1>2 DEF SessionsNamed, TypeOK
<1>6. OneActive'
  BY <1>1, <1>2 DEF OneActive, TypeOK
<1>7. ScopesKnown'
  <2> SUFFICES ASSUME NEW q \in Requests
               PROVE  /\ \A u \in ended'[q] : status'[u] # "unused"
                      /\ pc'[q] \notin {"scan", "update"} \cup Ended => ended'[q] = {}
                      /\ goal'[q] \in AccountGoals => pc'[q] \in {"account", "scan", "update"} \cup Ended
                      /\ pc'[q] \in {"scan", "update"} => goal'[q] \notin AccountGoals
    BY DEF ScopesKnown
  <2>1. \A u \in ended'[q] : status'[u] # "unused"
    BY <1>1 DEF ScopesKnown, TypeOK
  <2>2. goal[r] \notin AccountGoals
    BY <1>1 DEF ScopesKnown, Ended
  <2>3. userLock # q
    BY <1>1, SessionAssumption
  <2>4. pc'[q] \notin {"scan", "update"} \cup Ended => ended'[q] = {}
    BY <1>1 DEF ScopesKnown, TypeOK, Ended
  <2> QED BY <1>1, <2>1, <2>2, <2>3, <2>4 DEF ScopesKnown, TypeOK
<1> QED BY <1>3, <1>4, <1>5, <1>6, <1>7

LEMMA LockChained ==
    ASSUME Chained, NEW r \in Requests,
           LockCurrent(r) \/ LockForRevoke(r) \/ LockManagedUser(r)
    PROVE  Chained'
<1> USE DEF Chained
<1>1. CASE LockCurrent(r)
  <2>1. /\ UNCHANGED <<enabled, status, session, expired, userLock, scan, ended>>
        /\ pc[r] = "rotate" /\ token[r] \in Tokens
        /\ rowLock[token[r]] = None
        /\ \/ /\ pc' = [pc EXCEPT ![r] = "insert"] /\ status[token[r]] = "active"
              /\ rowLock' = [rowLock EXCEPT ![token[r]] = r] /\ UNCHANGED <<goal, token>>
           \/ /\ pc' = [pc EXCEPT ![r] = "replayed"]
              /\ rowLock' = [rowLock EXCEPT ![token[r]] = r] /\ UNCHANGED <<goal, token>>
           \/ /\ pc' = [pc EXCEPT ![r] = "failed"]
              /\ goal' = [goal EXCEPT ![r] = "logout"] /\ token' = [token EXCEPT ![r] = None]
              /\ UNCHANGED rowLock
    BY <1>1 DEF LockCurrent, Goto, Finish, Rotatable, tokenRows, TypeOK, ByToken
  <2>2. TypeOK'
    BY <2>1 DEF TypeOK, Free, Labels, Ended, ByToken
  <2>3. RotationsHold'
    BY <2>1, SessionAssumption DEF RotationsHold, TypeOK, ByToken
  <2>4. goal[r] \notin AccountGoals
    BY <2>1 DEF ScopesKnown, Ended
  <2>5. ScopesKnown'
    BY <2>1, <2>4 DEF ScopesKnown, TypeOK, Ended
  <2> QED BY <2>1, <2>2, <2>3, <2>5 DEF SessionsNamed, OneActive
<1>2. CASE LockForRevoke(r)
  <2>1. /\ UNCHANGED <<enabled, status, session, expired, userLock, goal, token, scan>>
        /\ pc[r] = "revoke" /\ token[r] \in Tokens
        /\ rowLock[token[r]] = None
        /\ \/ /\ pc' = [pc EXCEPT ![r] = "scan"] /\ status[token[r]] # "unused"
              /\ rowLock' = [rowLock EXCEPT ![token[r]] = r]
              /\ ended' = [ended EXCEPT ![r] = {session[token[r]]}]
           \/ /\ pc' = [pc EXCEPT ![r] = "revoked"]
              /\ UNCHANGED <<rowLock, ended>>
    BY <1>2 DEF LockForRevoke, Goto, tokenRows, TypeOK, ByToken
  <2>2. TypeOK'
    BY <2>1 DEF TypeOK, Free, Labels, Ended, ByToken
  <2>3. RotationsHold'
    BY <2>1, SessionAssumption DEF RotationsHold, TypeOK, ByToken
  <2>4. goal[r] \notin AccountGoals
    BY <2>1 DEF ScopesKnown, Ended
  <2>5. ScopesKnown'
    BY <2>1, <2>4 DEF ScopesKnown, TypeOK, Ended, SessionsNamed
  <2> QED BY <2>1, <2>2, <2>3, <2>5 DEF SessionsNamed, OneActive
<1>3. CASE LockManagedUser(r)
  <2>1. /\ UNCHANGED <<enabled, status, session, expired, rowLock, goal, token, scan>>
        /\ pc[r] = "account" /\ userLock = None /\ userLock' = r
        /\ pc' = [pc EXCEPT ![r] = "scan"]
        /\ ended' = [ended EXCEPT ![r] = Sessions]
    BY <1>3 DEF LockManagedUser, Goto, tokenRows
  <2>2. /\ Sessions \subseteq Tokens
        /\ \A t \in Sessions : status[t] # "unused"
        /\ \A t \in Tokens : status[t] # "unused" => session[t] \in Sessions
    BY DEF Sessions, SessionsNamed, Free, TypeOK
  <2>3. TypeOK'
    BY <2>1, <2>2 DEF TypeOK, Free, Labels, ByToken
  <2>4. RotationsHold'
    BY <2>1 DEF RotationsHold, TypeOK
  <2>5. ScopesKnown'
    BY <2>1, <2>2, SessionAssumption DEF ScopesKnown, TypeOK
  <2> QED BY <2>1, <2>3, <2>4, <2>5 DEF SessionsNamed, OneActive
<1> QED BY <1>1, <1>2, <1>3

\* The successor takes the place of the one usable token of its session.
LEMMA RotateChained ==
    ASSUME Chained, NEW r \in Requests, NEW n \in Tokens, Rotate(r, n)
    PROVE  Chained'
<1> USE DEF Chained
<1> DEFINE t == token[r]
<1>1. /\ pc[r] = "insert" /\ t \in Tokens /\ status[t] = "active" /\ status[n] = "unused"
      /\ rowLock[t] = r
      /\ status' = [status EXCEPT ![n] = "active", ![t] = "replaced"]
      /\ session' = [session EXCEPT ![n] = session[t]]
      /\ token' = [token EXCEPT ![r] = n]
      /\ pc' = [pc EXCEPT ![r] = "rotated"]
      /\ rowLock' = [u \in Tokens |-> IF rowLock[u] = r THEN None ELSE rowLock[u]]
      /\ userLock' = IF userLock = r THEN None ELSE userLock
      /\ UNCHANGED <<enabled, expired, goal, scan, ended>>
  BY DEF Rotate, Goto, Release, Consumed, NextId, Free, RotationsHold, TypeOK, ByToken
<1>2. /\ status'[n] = "active" /\ status'[t] = "replaced"
      /\ session'[n] = session[t] /\ session'[t] = session[t] /\ session[t] \in Tokens
      /\ \A u \in Tokens \ {n, t} : status'[u] = status[u] /\ session'[u] = session[u]
      /\ \A u \in Tokens : status[u] # "unused" => status'[u] # "unused" /\ session'[u] = session[u]
  BY <1>1 DEF TypeOK
<1> HIDE DEF t
<1>3. TypeOK'
  BY <1>1, SessionAssumption DEF TypeOK, Free, Labels, ByToken
<1>4. RotationsHold'
  <2> SUFFICES ASSUME NEW q \in Requests, pc'[q] = "insert"
               PROVE  rowLock'[token'[q]] = q /\ status'[token'[q]] = "active"
    BY DEF RotationsHold
  <2>1. q # r /\ pc[q] = "insert" /\ token'[q] = token[q]
    BY <1>1 DEF TypeOK
  <2>2. token[q] \in Tokens /\ rowLock[token[q]] = q /\ status[token[q]] = "active"
    BY <2>1 DEF RotationsHold, TypeOK, ByToken
  <2>3. token[q] # t /\ token[q] # n
    BY <1>1, <2>1, <2>2
  <2>4. status'[token[q]] = "active"
    BY <1>2, <2>2, <2>3
  <2>5. rowLock'[token[q]] = q
    BY <1>1, <2>1, <2>2
  <2> QED BY <2>1, <2>4, <2>5
<1>5. SessionsNamed'
  <2> SUFFICES ASSUME NEW u \in Tokens, status'[u] # "unused"
               PROVE  status'[session'[u]] # "unused"
    BY DEF SessionsNamed
  <2>1. CASE u = n
    <3>1. status[session[t]] # "unused"
      BY <1>1 DEF SessionsNamed
    <3> QED BY <1>2, <2>1, <3>1
  <2>2. CASE u # n
    BY <1>1, <1>2, <2>2 DEF SessionsNamed, TypeOK
  <2> QED BY <2>1, <2>2
<1>6. OneActive'
  <2>1. \A u \in Tokens \ {t} : status[u] = "active" => session[u] # session[t]
    BY <1>1 DEF OneActive
  <2> QED BY <1>1, <1>2, <2>1 DEF OneActive
<1>7. ScopesKnown'
  <2> SUFFICES ASSUME NEW q \in Requests
               PROVE  /\ \A u \in ended[q] : status'[u] # "unused"
                      /\ pc'[q] \notin {"scan", "update"} \cup Ended => ended[q] = {}
                      /\ goal[q] \in AccountGoals => pc'[q] \in {"account", "scan", "update"} \cup Ended
                      /\ pc'[q] \in {"scan", "update"} /\ goal[q] \in AccountGoals =>
                            /\ userLock' = q
                            /\ \A u \in Tokens : status'[u] # "unused" => session'[u] \in ended[q]
    BY <1>1 DEF ScopesKnown
  <2>1. \A u \in ended[q] : status'[u] # "unused"
    BY <1>2 DEF ScopesKnown, TypeOK
  <2>2. goal[r] \notin AccountGoals
    BY <1>1 DEF ScopesKnown, Ended
  <2>3. q # r => pc'[q] = pc[q]
    BY <1>1 DEF TypeOK
  <2>4. goal[q] \in AccountGoals => pc'[q] \in {"account", "scan", "update"} \cup Ended
    BY <2>2, <2>3 DEF ScopesKnown
  <2>5. ASSUME pc'[q] \in {"scan", "update"}, goal[q] \in AccountGoals
        PROVE  /\ userLock' = q
               /\ \A u \in Tokens : status'[u] # "unused" => session'[u] \in ended[q]
    <3>1. q # r /\ pc[q] \in {"scan", "update"}
      BY <2>2, <2>3, <2>5
    <3>2. userLock = q /\ \A u \in Tokens : status[u] # "unused" => session[u] \in ended[q]
      BY <2>5, <3>1 DEF ScopesKnown
    <3> QED BY <1>1, <1>2, <3>1, <3>2
  <2>6. pc'[q] \notin {"scan", "update"} \cup Ended => ended[q] = {}
    BY <1>1, <2>3 DEF ScopesKnown, Ended
  <2> QED BY <2>1, <2>4, <2>5, <2>6
<1> QED BY <1>3, <1>4, <1>5, <1>6, <1>7

\* A revocation leaves alone the rows that rotations hold.
LEMMA RevokeChained ==
    ASSUME Chained, NEW r \in Requests, RevokeCommit(r)
    PROVE  Chained'
<1> USE DEF Chained
<1>1. /\ pc[r] = "update"
      /\ \A u \in Doomed(r) : rowLock[u] \in {None, r}
      /\ Doomed(r) \subseteq {u \in Tokens : status[u] = "active"}
      /\ status' = [u \in Tokens |-> IF u \in Doomed(r) THEN "revoked" ELSE status[u]]
      /\ pc' = [pc EXCEPT ![r] = "revoked"]
      /\ scan' = [scan EXCEPT ![r] = {}]
      /\ rowLock' = [u \in Tokens |-> IF rowLock[u] = r THEN None ELSE rowLock[u]]
      /\ userLock' = IF userLock = r THEN None ELSE userLock
      /\ token' = [token EXCEPT ![r] = None]
      /\ UNCHANGED <<session, expired, goal, ended>>
  BY DEF RevokeCommit, Goto, Release, Doomed, Active
<1>2. /\ \A u \in Tokens : status'[u] = "unused" <=> status[u] = "unused"
      /\ \A u \in Tokens : status'[u] = "active" => status[u] = "active"
  BY <1>1
<1>3. enabled' \in BOOLEAN
  BY DEF RevokeCommit, TypeOK
<1>4. TypeOK'
  <2>1. status' \in [Tokens -> {"unused", "active", "replaced", "revoked"}]
    BY <1>1 DEF TypeOK
  <2>2. expired' \subseteq (Tokens \ Free)'
    BY <1>1, <1>2 DEF TypeOK, Free
  <2>3. /\ pc' \in [Requests -> Labels] /\ scan' \in [Requests -> SUBSET Tokens]
        /\ rowLock' \in [Tokens -> Requests \cup {None}] /\ userLock' \in Requests \cup {None}
        /\ token' \in [Requests -> Tokens \cup {None}]
        /\ \A q \in Requests : pc'[q] \in ByToken => pc[q] \in ByToken /\ token'[q] = token[q]
    BY <1>1 DEF TypeOK, Labels, Ended, ByToken
  <2> QED BY <1>1, <1>3, <2>1, <2>2, <2>3 DEF TypeOK
<1>5. RotationsHold'
  <2> SUFFICES ASSUME NEW q \in Requests, pc'[q] = "insert"
               PROVE  rowLock'[token'[q]] = q /\ status'[token'[q]] = "active"
    BY DEF RotationsHold
  <2>1. q # r /\ pc[q] = "insert" /\ token'[q] = token[q]
    BY <1>1 DEF TypeOK
  <2>2. token[q] \in Tokens /\ rowLock[token[q]] = q /\ status[token[q]] = "active"
    BY <2>1 DEF RotationsHold, TypeOK, ByToken
  <2>3. token[q] \notin Doomed(r)
    BY <1>1, <2>1, <2>2, SessionAssumption
  <2> QED BY <1>1, <2>1, <2>2, <2>3
<1>6. SessionsNamed' /\ OneActive'
  BY <1>1, <1>2 DEF SessionsNamed, OneActive, TypeOK
<1>7. ScopesKnown'
  <2>1. \A q \in Requests \ {r} : pc'[q] = pc[q]
    BY <1>1 DEF TypeOK
  <2>2. pc'[r] = "revoked"
    BY <1>1 DEF TypeOK
  <2> QED BY <1>1, <1>2, <2>1, <2>2, SessionAssumption DEF ScopesKnown, Ended, TypeOK
<1> QED BY <1>4, <1>5, <1>6, <1>7

\* A transaction that is rolled back.
LEMMA FailChained ==
    ASSUME Chained, NEW r \in Requests, Fail(r) \/ RejectReplay(r)
    PROVE  Chained'
<1> USE DEF Chained
<1>1. /\ pc' = [pc EXCEPT ![r] = "failed"] \/ (pc[r] = "replayed" /\ pc' = [pc EXCEPT ![r] = "revoke"])
      /\ \A q \in Requests \ {r} : scan'[q] = scan[q] /\ ended'[q] = ended[q]
      /\ scan' \in [Requests -> SUBSET Tokens] /\ ended' \in [Requests -> SUBSET Tokens]
      /\ ended'[r] = {}
      /\ rowLock' = [u \in Tokens |-> IF rowLock[u] = r THEN None ELSE rowLock[u]]
      /\ userLock' = IF userLock = r THEN None ELSE userLock
      /\ \A q \in Requests \ {r} : goal'[q] = goal[q] /\ token'[q] = token[q]
      /\ goal' \in [Requests -> {"replay", "undo", "logout"} \cup AccountGoals]
      /\ token' \in [Requests -> Tokens \cup {None}]
      /\ pc'[r] \in ByToken => token'[r] = token[r]
      /\ goal'[r] \notin AccountGoals
      /\ UNCHANGED <<enabled, status, session, expired>>
  BY DEF Fail, Finish, ByToken, AccountGoals, RejectReplay, RolledBack, Goto, Release, tokenRows, TypeOK, ScopesKnown, Ended
<1>2. TypeOK'
  BY <1>1 DEF TypeOK, Free, Labels, Ended, ByToken
<1>3. RotationsHold'
  BY <1>1 DEF RotationsHold, TypeOK, ByToken
<1>4. ScopesKnown'
  BY <1>1 DEF ScopesKnown, TypeOK, Ended
<1> QED BY <1>1, <1>2, <1>3, <1>4 DEF SessionsNamed, OneActive

LEMMA StepChained ==
    ASSUME Chained, [Next]_vars
    PROVE  Chained'
<1>1. CASE Enable \/ \E t \in Tokens : ExpireToken(t)
  <2>1. /\ UNCHANGED <<status, session, rowLock, userLock, pc, goal, token, scan, ended>>
        /\ enabled' \in BOOLEAN
        /\ expired' \subseteq Tokens \ Free
    BY <1>1 DEF Enable, ExpireToken, tokenRows, locks, callVars, Chained, TypeOK, Free
  <2>2. TypeOK'
    BY <2>1 DEF Chained, TypeOK, Free
  <2> QED BY <2>1, <2>2 DEF Chained, RotationsHold, SessionsNamed, ScopesKnown, OneActive
<1>2. ASSUME NEW r \in Requests, VerifyLogin(r)
      PROVE  Chained'
  BY <1>2, BeginChained DEF VerifyLogin, AccountGoals
<1>3. ASSUME NEW r \in Requests, NEW t \in Tokens, Refresh(r, t) \/ Logout(r, t)
      PROVE  Chained'
  BY <1>3, BeginChained, SessionAssumption DEF Refresh, Logout, AccountGoals
<1>4. ASSUME NEW r \in Requests, NEW g \in AccountGoals, ChangeAccount(r, g)
      PROVE  Chained'
  BY <1>4, BeginChained DEF ChangeAccount
<1>5. CASE UNCHANGED vars
  <2>1. UNCHANGED <<enabled, status, session, expired, rowLock, userLock, pc, goal, token, scan, ended>>
    BY <1>5 DEF vars, tokenRows, locks, callVars
  <2>2. TypeOK'
    BY <2>1 DEF Chained, TypeOK, Free
  <2> QED BY <2>1, <2>2 DEF Chained, RotationsHold, SessionsNamed, ScopesKnown, OneActive
<1> QED
  BY <1>1, <1>2, <1>3, <1>4, <1>5, MoveChained, CreateChained, LockChained, RotateChained,
     RevokeChained, FailChained DEF Next

\* The invariant that ties rows, locks and calls together holds throughout.
THEOREM AlwaysChained == Spec => []Chained
<1>1. Init => Chained
  BY InitChained
<1>2. Chained /\ [Next]_vars => Chained'
  BY StepChained
<1> QED BY <1>1, <1>2, PTL DEF Spec

\* The rows, locks and calls keep their shapes, and a call that goes by a token
\* has one.
THEOREM SessionTypeCorrect == Spec => []TypeOK
BY AlwaysChained, PTL DEF Chained

\* No order of refreshes, reuses, logouts, account changes and failures gives a
\* session two usable tokens (Rotate with lockTokenByHash and consumeToken).
THEOREM SessionsNeverBranch == Spec => []OneActive
BY AlwaysChained, PTL DEF Chained

-----------------------------------------------------------------------------
(* Revocations on a database whose UPDATE sees the rows it waited for *)

Complete == SessionsEnd /\ DisabledHasNoSession

\* A disabled account has no usable row at all.
LEMMA DisabledMeans ==
    ASSUME TypeOK
    PROVE  DisabledHasNoSession <=> (~enabled => \A t \in Tokens : status[t] # "active")
BY DEF DisabledHasNoSession, Active, Sessions, Free, TypeOK

\* Steps that create no usable row, enable at most, and leave every finished
\* revocation's scope as it is.
LEMMA QuietComplete ==
    ASSUME TypeOK, TypeOK', Complete,
           \A t \in Tokens : session'[t] = session[t],
           \A t \in Tokens : status'[t] = "active" => status[t] = "active",
           enabled' \/ ~enabled,
           \A q \in Requests : pc'[q] = "revoked" => pc[q] = "revoked" /\ ended'[q] = ended[q]
    PROVE  Complete'
<1>1. SessionsEnd'
  <2> SUFFICES ASSUME NEW q \in Requests, pc'[q] = "revoked",
                      NEW t \in Tokens, status'[t] = "active", session'[t] \in ended'[q]
               PROVE  FALSE
    BY DEF SessionsEnd, Active
  <2>1. pc[q] = "revoked" /\ ended'[q] = ended[q]
    OBVIOUS
  <2>2. status[t] = "active"
    OBVIOUS
  <2>3. session[t] \in ended[q]
    <3>1. session'[t] = session[t]
      OBVIOUS
    <3> QED BY <2>1, <3>1
  <2> QED BY <2>1, <2>2, <2>3 DEF Complete, SessionsEnd, Active
<1>2. DisabledHasNoSession'
  <2>1. ~enabled => \A t \in Tokens : status[t] # "active"
    BY DisabledMeans DEF Complete
  <2>2. ~enabled' => \A t \in Tokens : status'[t] # "active"
    BY <2>1
  <2> QED BY <2>2 DEF DisabledHasNoSession, Active
<1> QED BY <1>1, <1>2 DEF Complete

LEMMA CreateComplete ==
    ASSUME Chained, Complete, NEW r \in Requests, NEW t \in Tokens, CreateSession(r, t)
    PROVE  Complete'
<1> USE DEF Chained
<1>1. /\ status[t] = "unused" /\ enabled /\ enabled' = enabled
      /\ status' = [status EXCEPT ![t] = "active"]
      /\ session' = [session EXCEPT ![t] = t]
      /\ pc' = [pc EXCEPT ![r] = "created"] /\ ended' = ended
  BY DEF CreateSession, NextId, Free, Goto, LoginAllowed, locks
<1>2. SessionsEnd'
  <2> SUFFICES ASSUME NEW q \in Requests, pc'[q] = "revoked",
                      NEW u \in Tokens, status'[u] = "active", session'[u] \in ended'[q]
               PROVE  FALSE
    BY DEF SessionsEnd, Active
  <2>1. pc[q] = "revoked" /\ ended'[q] = ended[q]
    BY <1>1 DEF TypeOK
  <2>2. t \notin ended[q]
    BY <1>1 DEF ScopesKnown
  <2>3. u # t /\ status[u] = "active" /\ session[u] \in ended[q]
    BY <1>1, <2>1, <2>2 DEF TypeOK
  <2> QED BY <2>1, <2>3 DEF Complete, SessionsEnd, Active
<1>3. DisabledHasNoSession'
  BY <1>1 DEF DisabledHasNoSession
<1> QED BY <1>2, <1>3 DEF Complete

LEMMA RotateComplete ==
    ASSUME Chained, Complete, NEW r \in Requests, NEW n \in Tokens, Rotate(r, n)
    PROVE  Complete'
<1> USE DEF Chained
<1> DEFINE t == token[r]
<1>1. /\ pc[r] = "insert" /\ t \in Tokens /\ status[t] = "active" /\ status[n] = "unused"
      /\ status' = [status EXCEPT ![n] = "active", ![t] = "replaced"]
      /\ session' = [session EXCEPT ![n] = session[t]]
      /\ pc' = [pc EXCEPT ![r] = "rotated"]
      /\ enabled' = enabled /\ ended' = ended
  BY DEF Rotate, Goto, Consumed, NextId, Free, RotationsHold, TypeOK, ByToken
<1> HIDE DEF t
<1>2. SessionsEnd'
  <2> SUFFICES ASSUME NEW q \in Requests, pc'[q] = "revoked",
                      NEW u \in Tokens, status'[u] = "active", session'[u] \in ended'[q]
               PROVE  FALSE
    BY DEF SessionsEnd, Active
  <2>1. pc[q] = "revoked" /\ ended'[q] = ended[q]
    BY <1>1 DEF TypeOK
  <2>2. session[t] \notin ended[q]
    BY <1>1, <2>1 DEF Complete, SessionsEnd, Active
  <2>3. u # n /\ status[u] = "active" /\ session[u] \in ended[q]
    BY <1>1, <2>1, <2>2 DEF TypeOK
  <2> QED BY <2>1, <2>3 DEF Complete, SessionsEnd, Active
<1>3. enabled
  BY <1>1, DisabledMeans DEF Complete
<1>4. DisabledHasNoSession'
  BY <1>1, <1>3 DEF DisabledHasNoSession
<1> QED BY <1>2, <1>4 DEF Complete

LEMMA RevokeComplete ==
    ASSUME ~StatementSnapshot, Chained, Complete, NEW r \in Requests, RevokeCommit(r)
    PROVE  Complete'
<1> USE DEF Chained
<1>1. /\ pc[r] = "update" /\ ended' = ended /\ session' = session
      /\ status' = [u \in Tokens |-> IF u \in Active(ended[r]) THEN "revoked" ELSE status[u]]
      /\ pc' = [pc EXCEPT ![r] = "revoked"]
  BY DEF RevokeCommit, Goto, Doomed
<1>2. \A u \in Tokens :
          status'[u] = "active" => status[u] = "active" /\ session[u] \notin ended[r]
  BY <1>1 DEF Active
<1>3. SessionsEnd'
  <2> SUFFICES ASSUME NEW q \in Requests, pc'[q] = "revoked",
                      NEW u \in Tokens, status'[u] = "active", session'[u] \in ended'[q]
               PROVE  FALSE
    BY DEF SessionsEnd, Active
  <2>1. status[u] = "active" /\ session[u] \in ended[q] /\ session[u] \notin ended[r]
    BY <1>1, <1>2
  <2>2. q # r /\ pc[q] = "revoked"
    BY <1>1, <2>1 DEF TypeOK
  <2> QED BY <2>1, <2>2 DEF Complete, SessionsEnd, Active
<1>4. DisabledHasNoSession'
  <2>1. CASE goal[r] = "disable"
    <3>1. \A u \in Tokens : status[u] # "unused" => session[u] \in ended[r]
      BY <1>1, <2>1 DEF ScopesKnown, AccountGoals
    <3> QED BY <1>2, <3>1 DEF DisabledHasNoSession, Active
  <2>2. CASE goal[r] # "disable"
    <3>1. enabled' = TRUE \/ enabled' = enabled
      BY <2>2 DEF RevokeCommit
    <3>2. ~enabled => \A t \in Tokens : status[t] # "active"
      BY DisabledMeans DEF Complete
    <3> QED BY <1>2, <3>1, <3>2 DEF DisabledHasNoSession, Active
  <2> QED BY <2>1, <2>2
<1> QED BY <1>3, <1>4 DEF Complete

\* An unknown token ends no session; every other way to be revoked is a commit.
LEMMA OtherComplete ==
    ASSUME Chained, Chained', Complete, NEW r \in Requests,
           \/ VerifyLogin(r) \/ CreateRefused(r) \/ ClearLimit(r) \/ LockCurrent(r)
           \/ RejectReplay(r) \/ ActiveUser(r) \/ LockManagedUser(r) \/ Scan(r) \/ Fail(r)
           \/ \E t \in Tokens : Refresh(r, t) \/ Logout(r, t)
           \/ \E g \in AccountGoals : ChangeAccount(r, g)
    PROVE  Complete'
<1>1. /\ session' = session /\ status' = status /\ enabled' = enabled
      /\ pc'[r] # "revoked"
      /\ \A q \in Requests \ {r} : pc'[q] = pc[q] /\ ended'[q] = ended[q]
  BY DEF VerifyLogin, CreateRefused, ClearLimit, LockCurrent, ActiveUser, LockManagedUser, Scan,
         Fail, RejectReplay, Refresh, Logout, ChangeAccount, Begin, Goto, Finish, tokenRows, Chained, TypeOK
<1> QED BY <1>1, QuietComplete DEF Chained

\* An unknown token has no session to end.
LEMMA LockForRevokeComplete ==
    ASSUME Chained, Chained', Complete, NEW r \in Requests, LockForRevoke(r)
    PROVE  Complete'
<1>1. /\ session' = session /\ status' = status /\ enabled' = enabled
      /\ \A q \in Requests \ {r} : pc'[q] = pc[q] /\ ended'[q] = ended[q]
      /\ pc[r] = "revoke"
      /\ pc'[r] = "revoked" => ended' = ended
  BY DEF LockForRevoke, Goto, tokenRows, Chained, TypeOK
<1>2. ended[r] = {}
  BY <1>1 DEF Chained, ScopesKnown, Ended
<1>3. SessionsEnd'
  <2> SUFFICES ASSUME NEW q \in Requests, pc'[q] = "revoked",
                      NEW t \in Tokens, status'[t] = "active", session'[t] \in ended'[q]
               PROVE  FALSE
    BY DEF SessionsEnd, Active
  <2>1. q # r
    BY <1>1, <1>2
  <2>2. pc[q] = "revoked" /\ status[t] = "active" /\ session[t] \in ended[q]
    BY <1>1, <2>1
  <2> QED BY <2>2 DEF Complete, SessionsEnd, Active
<1>4. DisabledHasNoSession'
  BY <1>1 DEF Complete, DisabledHasNoSession, Active, Sessions, Free
<1> QED BY <1>3, <1>4 DEF Complete

LEMMA InitComplete == Init => Complete
BY DEF Init, Complete, SessionsEnd, DisabledHasNoSession, Active

LEMMA StepComplete ==
    ASSUME ~StatementSnapshot, Chained, Chained', Complete, [Next]_vars
    PROVE  Complete'
<1>1. CASE Enable \/ (\E t \in Tokens : ExpireToken(t)) \/ UNCHANGED vars
  <2>1. /\ session' = session /\ status' = status /\ pc' = pc /\ ended' = ended
        /\ enabled' \/ ~enabled
    BY <1>1 DEF Enable, ExpireToken, vars, tokenRows, callVars, Chained, TypeOK
  <2> QED BY <2>1, QuietComplete DEF Chained
<1> QED
  BY <1>1, CreateComplete, RotateComplete, RevokeComplete, OtherComplete, LockForRevokeComplete
     DEF Next

\* Where an UPDATE sees the rows of the transaction it waited for, a committed
\* revocation (reuse, logout, a failed login or refresh, a disabled account, a
\* new password) leaves its sessions no usable token, now or later.
THEOREM RevocationsEndSessions ==
    ASSUME ~StatementSnapshot
    PROVE  Spec => []SessionsEnd
<1>1. Init => Complete
  BY InitComplete
<1>2. Chained /\ Chained' /\ Complete /\ [Next]_vars => Complete'
  BY StepComplete
<1>3. Complete => SessionsEnd
  BY DEF Complete
<1> QED BY <1>1, <1>2, <1>3, AlwaysChained, PTL DEF Spec

\* On such a database a disabled account has no usable token, whatever logins and
\* refreshes were under way when UpdateManagedStatus disabled it.
THEOREM DisabledAccountsLocked ==
    ASSUME ~StatementSnapshot
    PROVE  Spec => []DisabledHasNoSession
<1>1. Init => Complete
  BY InitComplete
<1>2. Chained /\ Chained' /\ Complete /\ [Next]_vars => Complete'
  BY StepComplete
<1>3. Complete => DisabledHasNoSession
  BY DEF Complete
<1> QED BY <1>1, <1>2, <1>3, AlwaysChained, PTL DEF Spec
=============================================================================
