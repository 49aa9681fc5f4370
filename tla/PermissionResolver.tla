------------------------- MODULE PermissionResolver -------------------------
(***************************************************************************)
(* Authorization: the role, membership, environment and account rows that  *)
(* decide what an account may do, and Resolver.Resolve, which answers from *)
(* a cache keyed by the environment's version.                             *)
(*                                                                         *)
(* Every write is one transaction that holds the rows it decides on (the   *)
(* role for UpdatePermissions and Delete; environment, user and roles for  *)
(* ReplaceRoles), so it is one action.  Resolve runs in no transaction: it *)
(* is a sequence of single reads, one action each, and writes land between *)
(* any two of them.                                                        *)
(***************************************************************************)
EXTENDS Integers, FiniteSets

CONSTANTS
    Users,           \* accounts
    Envs,            \* environments
    Roles,           \* role ids
    Builtin,         \* the roles the schema is created with
    Perms,           \* the permission catalog
    Grantable,       \* the keys of the catalog that do not start with system:
    Calls,           \* concurrent calls of Resolve
    None,            \* not a permission
    MaxResolveRetry, \* attempts one call makes
    MaxVersion       \* bound of the model on environments.version

ASSUME ResolverAssumption ==
    /\ Builtin \subseteq Roles
    /\ Grantable \subseteq Perms
    /\ None \notin Perms
    /\ MaxResolveRetry \in Nat \ {0}
    /\ MaxVersion \in Nat

VARIABLES
    roleState, perms,         \* roles and role_permissions
    assigned,                 \* user_environment_roles
    envVersion, envEnabled,   \* environments; version zero is no row
    userEnabled, userAdmin,   \* users
    cache,                    \* permission sets by account, environment, version
    stale,                    \* memberships whose Invalidate is still to run
    pc, who, scope,           \* the calls: control, account, environment
    asAdmin, seen, ver,       \* what the last identity read, the first one's version
    keys, attempt,            \* the candidate answer, attempts used up
    witness, since            \* history: truth at the account read, version at the start

grantRows == <<roleState, perms, assigned, envVersion, envEnabled>>

userRows == <<userEnabled, userAdmin>>

cacheVars == <<cache, stale>>

callTarget == <<who, scope, since>>

callVars == <<pc, callTarget, asAdmin, seen, ver, keys, attempt, witness>>

vars == <<grantRows, userRows, cacheVars, callVars>>

Versions == 0..MaxVersion

\* No cached set; the answer of a refusal.  It is no set of permissions.
Nothing == {None}

Entries == Users \X Envs \X Versions

LiveRoles == {r \in Roles : roleState[r] = "live"}

\* KeysForUserEnvironment: one statement over the roles that are not deleted.
Grants(u, e) == {p \in Perms : \E r \in assigned[<<u, e>>] \cap LiveRoles : p \in perms[r]}

\* What the account may do in the environment now.
Entitled(u, e) ==
    IF ~userEnabled[u] THEN Nothing
    ELSE IF userAdmin[u] THEN Perms
    ELSE IF envEnabled[e] /\ assigned[<<u, e>>] # {} THEN Grants(u, e)
    ELSE Nothing

Init ==
    /\ roleState = [r \in Roles |-> IF r \in Builtin THEN "live" ELSE "new"]
    /\ perms = [r \in Roles |-> IF r \in Builtin THEN Grantable ELSE {}]
    /\ assigned = [ue \in Users \X Envs |-> {}]
    /\ envVersion = [e \in Envs |-> 0]
    /\ envEnabled = [e \in Envs |-> FALSE]
    /\ userEnabled = [u \in Users |-> TRUE]
    /\ userAdmin = [u \in Users |-> FALSE]
    /\ cache = [k \in Entries |-> Nothing]
    /\ stale = {}
    /\ pc = [c \in Calls |-> "idle"]
    /\ who \in [Calls -> Users]
    /\ scope \in [Calls -> Envs]
    /\ since = [c \in Calls |-> 0]
    /\ asAdmin = [c \in Calls |-> FALSE]
    /\ seen = [c \in Calls |-> 0]
    /\ ver = [c \in Calls |-> 0]
    /\ keys = [c \in Calls |-> {}]
    /\ attempt = [c \in Calls |-> 0]
    /\ witness = [c \in Calls |-> Nothing]

-----------------------------------------------------------------------------
(* Administration *)

\* bumpEnvironmentPermissionGenerations, and the version guard of Update.
Bump(es) ==
    /\ \A e \in es : envVersion[e] < MaxVersion
    /\ envVersion' = [e \in Envs |-> IF e \in es THEN envVersion[e] + 1 ELSE envVersion[e]]

EnvironmentCreate(e) ==
    /\ envVersion[e] = 0
    /\ Bump({e})
    /\ envEnabled' = [envEnabled EXCEPT ![e] = TRUE]
    /\ UNCHANGED <<roleState, perms, assigned, userRows, cacheVars, callVars>>

\* Update with the version the editor saw; a stale version changes nothing.
EnvironmentUpdate(e, enabled) ==
    /\ envVersion[e] > 0
    /\ Bump({e})
    /\ envEnabled' = [envEnabled EXCEPT ![e] = enabled]
    /\ UNCHANGED <<roleState, perms, assigned, userRows, cacheVars, callVars>>

RoleCreate(r) ==
    /\ roleState[r] = "new"
    /\ roleState' = [roleState EXCEPT ![r] = "live"]
    /\ UNCHANGED <<perms, assigned, envVersion, envEnabled, userRows, cacheVars, callVars>>

\* lockAssignments
Assignments(r) == {ue \in Users \X Envs : r \in assigned[ue]}

Bug_DeletableRole(r) == roleState[r] = "live"

RoleDeletable(r) == roleState[r] = "live" /\ r \notin Builtin /\ Assignments(r) = {}

RoleDelete(r) ==
    /\ RoleDeletable(r)
    /\ roleState' = [roleState EXCEPT ![r] = "gone"]
    /\ UNCHANGED <<perms, assigned, envVersion, envEnabled, userRows, cacheVars, callVars>>

\* The environments a change of the role's grants reaches.
EnvironmentsOf(r) == {ue[2] : ue \in Assignments(r)}

UpdatePermissions(r, P) ==
    /\ roleState[r] = "live"
    /\ P \subseteq Grantable
    /\ Bump(EnvironmentsOf(r))
    /\ perms' = [perms EXCEPT ![r] = P]
    /\ stale' = stale \cup Assignments(r)
    /\ UNCHANGED <<roleState, assigned, envEnabled, userRows, cache, callVars>>

ReplaceRoles(u, e, R) ==
    /\ envVersion[e] > 0
    /\ R \subseteq LiveRoles
    /\ Bump({e})
    /\ assigned' = [assigned EXCEPT ![<<u, e>>] = R]
    /\ stale' = stale \cup {<<u, e>>}
    /\ UNCHANGED <<roleState, perms, envEnabled, userRows, cache, callVars>>

\* UpdateManagedStatus and UpdateManagedUser.  They keep one administrator; the
\* one kept may be an account outside Users.
SetUser(u, enabled, admin) ==
    /\ userEnabled' = [userEnabled EXCEPT ![u] = enabled]
    /\ userAdmin' = [userAdmin EXCEPT ![u] = admin]
    /\ UNCHANGED <<grantRows, cacheVars, callVars>>

UpdateManagedStatus(u, enabled) == SetUser(u, enabled, userAdmin[u])

UpdateManagedUser(u, admin) == SetUser(u, userEnabled[u], admin)

\* Invalidate after the commit: the previous version's entry is deleted.  A
\* disabled account ends it early and an error is only logged.
Invalidate(u, e) ==
    /\ <<u, e>> \in stale
    /\ stale' = stale \ {<<u, e>>}
    /\ cache' \in {cache, [cache EXCEPT ![<<u, e, envVersion[e] - 1>>] = Nothing]}
    /\ UNCHANGED <<grantRows, userRows, callVars>>

\* The minute of an entry passes, or the cache loses it.
Expire(k) ==
    /\ cache[k] # Nothing
    /\ cache' = [cache EXCEPT ![k] = Nothing]
    /\ UNCHANGED <<grantRows, userRows, stale, callVars>>

-----------------------------------------------------------------------------
(* Resolve *)

Ended == {"idle", "done", "denied", "busy"}

Goto(c, label) == pc' = [pc EXCEPT ![c] = label]

Resolve(c, u, e) ==
    /\ pc[c] \in Ended
    /\ Goto(c, "user1")
    /\ who' = [who EXCEPT ![c] = u]
    /\ scope' = [scope EXCEPT ![c] = e]
    /\ since' = [since EXCEPT ![c] = envVersion[e]]
    /\ attempt' = [attempt EXCEPT ![c] = 0]
    /\ asAdmin' = [asAdmin EXCEPT ![c] = FALSE]
    /\ seen' = [seen EXCEPT ![c] = 0]
    /\ ver' = [ver EXCEPT ![c] = 0]
    /\ keys' = [keys EXCEPT ![c] = {}]
    /\ witness' = [witness EXCEPT ![c] = Nothing]
    /\ UNCHANGED <<grantRows, userRows, cacheVars>>

\* Identity, first read: the enabled account and its administrator flag.
EnabledUser(c, here, next) ==
    /\ pc[c] = here
    /\ Goto(c, IF userEnabled[who[c]] THEN next ELSE "denied")
    /\ asAdmin' = [asAdmin EXCEPT ![c] = userAdmin[who[c]]]
    /\ witness' = [witness EXCEPT ![c] = Entitled(who[c], scope[c])]
    /\ UNCHANGED <<grantRows, userRows, cacheVars, callTarget, seen, ver, keys, attempt>>

\* Identity, second read: the environment.
EnvironmentFound(c) ==
    LET e == scope[c] IN envVersion[e] > 0 /\ (asAdmin[c] \/ envEnabled[e])

ReadEnvironment(c, here, next) ==
    /\ pc[c] = here
    /\ Goto(c, IF EnvironmentFound(c) THEN next ELSE "denied")
    /\ seen' = [seen EXCEPT ![c] = envVersion[scope[c]]]
    /\ UNCHANGED <<grantRows, userRows, cacheVars, callTarget, asAdmin, ver, keys, attempt, witness>>

\* Identity, third read: the membership.  An administrator needs none and gets
\* the whole catalog.
Member(c) == assigned[<<who[c], scope[c]>>] # {}

AdminDone(c, here) ==
    /\ pc[c] = here
    /\ asAdmin[c]
    /\ keys' = [keys EXCEPT ![c] = Perms]
    /\ Goto(c, "done")
    /\ UNCHANGED <<grantRows, userRows, cacheVars, callTarget, asAdmin, seen, ver, attempt, witness>>

FirstMember(c) ==
    /\ pc[c] = "member1"
    /\ ~asAdmin[c]
    /\ Goto(c, IF Member(c) THEN "get" ELSE "denied")
    /\ ver' = [ver EXCEPT ![c] = seen[c]]
    /\ UNCHANGED <<grantRows, userRows, cacheVars, callTarget, asAdmin, seen, keys, attempt, witness>>

\* loadPermissions: a cache error or an undecodable entry is a miss.
CachedPermissions(c) ==
    LET k == <<who[c], scope[c], ver[c]>> IN
    /\ pc[c] = "get"
    /\ \/ /\ cache[k] # Nothing
          /\ keys' = [keys EXCEPT ![c] = cache[k]]
          /\ Goto(c, "user2hit")
       \/ /\ UNCHANGED keys
          /\ Goto(c, "load")
    /\ UNCHANGED <<grantRows, userRows, cacheVars, callTarget, asAdmin, seen, ver, attempt, witness>>

LoadKeys(c) ==
    /\ pc[c] = "load"
    /\ keys' = [keys EXCEPT ![c] = Grants(who[c], scope[c])]
    /\ Goto(c, "user2")
    /\ UNCHANGED <<grantRows, userRows, cacheVars, callTarget, asAdmin, seen, ver, attempt, witness>>

Bug_AlwaysConfirmed(c) == TRUE

\* The environment still has the version the attempt started with.
Confirmed(c) == seen[c] = ver[c]

Bug_OneAttemptLess(c) == attempt[c] + 2 < MaxResolveRetry

AttemptLeft(c) == attempt[c] + 1 < MaxResolveRetry

ConfirmMember(c, here, next) ==
    /\ pc[c] = here
    /\ ~asAdmin[c]
    /\ \/ ~Member(c) /\ Goto(c, "denied") /\ UNCHANGED attempt
       \/ Member(c) /\ Confirmed(c) /\ Goto(c, next) /\ UNCHANGED attempt
       \/ /\ Member(c)
          /\ ~Confirmed(c)
          /\ Goto(c, IF AttemptLeft(c) THEN "user1" ELSE "busy")
          /\ attempt' = [attempt EXCEPT ![c] = @ + 1]
    /\ UNCHANGED <<grantRows, userRows, cacheVars, callTarget, asAdmin, seen, ver, keys, witness>>

Bug_CacheUnderPresentVersion(c) ==
    /\ pc[c] = "store"
    /\ cache' \in {cache, [cache EXCEPT ![<<who[c], scope[c], envVersion[scope[c]]>>] = keys[c]]}
    /\ Goto(c, "done")
    /\ UNCHANGED <<grantRows, userRows, stale, callTarget, asAdmin, seen, ver, keys, attempt, witness>>

\* cachePermissions: a failed write is only logged.
CachePermissions(c) ==
    /\ pc[c] = "store"
    /\ cache' \in {cache, [cache EXCEPT ![<<who[c], scope[c], ver[c]>>] = keys[c]]}
    /\ Goto(c, "done")
    /\ UNCHANGED <<grantRows, userRows, stale, callTarget, asAdmin, seen, ver, keys, attempt, witness>>

\* A database error or the end of the request's context.
Fail(c) ==
    /\ pc[c] \notin Ended
    /\ Goto(c, "denied")
    /\ UNCHANGED <<grantRows, userRows, cacheVars, callTarget, asAdmin, seen, ver, keys, attempt, witness>>

-----------------------------------------------------------------------------
GrantStep ==
    \/ \E e \in Envs :
          \/ EnvironmentCreate(e)
          \/ \E enabled \in BOOLEAN : EnvironmentUpdate(e, enabled)
    \/ \E r \in Roles :
          \/ RoleCreate(r)
          \/ RoleDelete(r)
          \/ \E P \in SUBSET Grantable : UpdatePermissions(r, P)
    \/ \E u \in Users, e \in Envs, R \in SUBSET Roles : ReplaceRoles(u, e, R)

UserStep ==
    \E u \in Users, b \in BOOLEAN : UpdateManagedStatus(u, b) \/ UpdateManagedUser(u, b)

CacheStep ==
    \/ \E u \in Users, e \in Envs : Invalidate(u, e)
    \/ \E k \in Entries : Expire(k)

CallStep ==
    \E c \in Calls :
        \/ \E u \in Users, e \in Envs : Resolve(c, u, e)
        \/ EnabledUser(c, "user1", "env1")
        \/ ReadEnvironment(c, "env1", "member1")
        \/ AdminDone(c, "member1")
        \/ FirstMember(c)
        \/ CachedPermissions(c)
        \/ LoadKeys(c)
        \/ EnabledUser(c, "user2", "env2")
        \/ EnabledUser(c, "user2hit", "env2hit")
        \/ ReadEnvironment(c, "env2", "member2")
        \/ ReadEnvironment(c, "env2hit", "member2hit")
        \/ AdminDone(c, "member2")
        \/ AdminDone(c, "member2hit")
        \/ ConfirmMember(c, "member2", "store")
        \/ ConfirmMember(c, "member2hit", "done")
        \/ CachePermissions(c)
        \/ Fail(c)

Next == GrantStep \/ UserStep \/ CacheStep \/ CallStep

Spec == Init /\ [][Next]_vars

-----------------------------------------------------------------------------
(* Properties *)

Labels ==
    {"user1", "env1", "member1", "get", "load", "user2", "env2", "member2",
     "user2hit", "env2hit", "member2hit", "store"} \cup Ended

\* The rows and the calls have the shapes the code gives them; a deleted role
\* is never assigned, whatever the order of Delete and ReplaceRoles.
TypeOK ==
    /\ roleState \in [Roles -> {"new", "live", "gone"}]
    /\ perms \in [Roles -> SUBSET Perms]
    /\ assigned \in [Users \X Envs -> SUBSET LiveRoles]
    /\ envVersion \in [Envs -> Versions]
    /\ envEnabled \in [Envs -> BOOLEAN]
    /\ userEnabled \in [Users -> BOOLEAN]
    /\ userAdmin \in [Users -> BOOLEAN]
    /\ cache \in [Entries -> (SUBSET Perms) \cup {Nothing}]
    /\ stale \subseteq Users \X Envs
    /\ pc \in [Calls -> Labels]
    /\ who \in [Calls -> Users]
    /\ scope \in [Calls -> Envs]
    /\ since \in [Calls -> Versions]
    /\ asAdmin \in [Calls -> BOOLEAN]
    /\ seen \in [Calls -> Versions]
    /\ ver \in [Calls -> Versions]
    /\ keys \in [Calls -> SUBSET Perms]
    /\ attempt \in [Calls -> 0..MaxResolveRetry]
    /\ witness \in [Calls -> (SUBSET Perms) \cup {Nothing}]

\* A cached set of the environment's present version is what the tables grant
\* now, and no entry waits for a version still to come: a change of roles,
\* grants or membership never leaves a usable stale entry behind.
CacheCoherent ==
    \A u \in Users, e \in Envs, v \in Versions :
        cache[<<u, e, v>>] # Nothing =>
            /\ v <= envVersion[e]
            /\ v = envVersion[e] => cache[<<u, e, v>>] = Grants(u, e)

\* Every answer was the truth: what Resolve returns is exactly what the account
\* was entitled to at the moment its account row was last read, although the
\* answer is put together from up to eight reads that no transaction joins.
AnswersWereTrue == \A c \in Calls : pc[c] = "done" => keys[c] = witness[c]

\* ErrConcurrentChange is never spurious: a call gives up only after as many
\* changes of its environment as it made attempts.
BusyMeansChanged ==
    \A c \in Calls :
        pc[c] = "busy" => envVersion[scope[c]] >= since[c] + MaxResolveRetry

Confirming == {"user2", "user2hit", "env2", "env2hit", "member2", "member2hit"}

\* No call knows a version the environment has not had, its second environment
\* read is not older than the first, and each attempt used up is one version
\* that passed since the call began.
VersionsKnown ==
    \A c \in Calls :
        LET now == envVersion[scope[c]] IN
        /\ ver[c] <= now /\ seen[c] <= now
        /\ pc[c] \notin Ended => attempt[c] < MaxResolveRetry
        /\ pc[c] \in {"user1", "env1"} => since[c] + attempt[c] <= now
        /\ pc[c] = "member1" => since[c] + attempt[c] <= seen[c]
        /\ pc[c] \in Confirming \cup {"get", "load"} => since[c] + attempt[c] <= ver[c]
        /\ pc[c] \in {"member2", "member2hit"} => ver[c] <= seen[c]

\* While the environment keeps the version an attempt started with, everything
\* the attempt has read is still so.
EvidenceHolds ==
    \A c \in Calls :
        LET u == who[c]
            e == scope[c] IN
        /\ pc[c] = "member1" /\ ~asAdmin[c] /\ seen[c] = envVersion[e] => envEnabled[e]
        /\ pc[c] \in Confirming \cup {"get", "load"} /\ ver[c] = envVersion[e] =>
              envEnabled[e] /\ assigned[<<u, e>>] # {}
        /\ pc[c] \in Confirming \cup {"store"} /\ ver[c] = envVersion[e] =>
              keys[c] = Grants(u, e)

\* Once the account has been read again, the candidate answer is the truth of
\* that moment, unless the version has passed and the call will find out.
WitnessHolds ==
    \A c \in Calls :
        /\ pc[c] \in {"env1", "member1", "env2", "env2hit", "member2", "member2hit"}
              /\ asAdmin[c] => witness[c] = Perms
        /\ pc[c] \in {"env2", "env2hit"} /\ ~asAdmin[c] /\ ver[c] = envVersion[scope[c]] =>
              witness[c] = keys[c]
        /\ pc[c] \in {"member2", "member2hit"} /\ ~asAdmin[c] /\ seen[c] = ver[c] =>
              witness[c] = keys[c]
        /\ pc[c] = "store" => witness[c] = keys[c]

\* The inductive invariant.
Coherent ==
    /\ VersionsKnown
    /\ EvidenceHolds
    /\ WitnessHolds
    /\ CacheCoherent
    /\ AnswersWereTrue
    /\ BusyMeansChanged
=============================================================================
