----------------------- MODULE PermissionResolverProofs -----------------------
(***************************************************************************)
(* What holds of PermissionResolver for any number of accounts,            *)
(* environments, roles and concurrent calls, and any number of attempts.   *)
(* The argument has two halves: no administrative write changes what an    *)
(* environment grants without advancing its version (GrantsAdvance), and   *)
(* what a call has read is still so while the version has not moved        *)
(* (Coherent).                                                             *)
(***************************************************************************)
EXTENDS PermissionResolver, TLAPS

\* Nothing is never taken for a set of permissions.
LEMMA NothingIsNoAnswer ==
    ASSUME NEW P \in SUBSET Perms
    PROVE  P # Nothing
BY ResolverAssumption DEF Nothing

\* KeysForUserEnvironment returns keys of the catalog.
LEMMA GrantsType ==
    ASSUME TypeOK, NEW u \in Users, NEW e \in Envs
    PROVE  Grants(u, e) \in SUBSET Perms
BY DEF TypeOK, Grants, LiveRoles

LEMMA EntitledType ==
    ASSUME TypeOK, NEW u \in Users, NEW e \in Envs
    PROVE  Entitled(u, e) \in (SUBSET Perms) \cup {Nothing}
BY GrantsType DEF Entitled

-----------------------------------------------------------------------------
(* Type correctness *)

\* Every transaction on roles, grants, memberships and environments keeps the
\* tables well formed; in particular no deleted role stays assigned.
LEMMA GrantStepType ==
    ASSUME TypeOK, GrantStep
    PROVE  /\ roleState' \in [Roles -> {"new", "live", "gone"}]
           /\ perms' \in [Roles -> SUBSET Perms]
           /\ assigned' \in [Users \X Envs -> SUBSET LiveRoles']
           /\ envVersion' \in [Envs -> Versions]
           /\ envEnabled' \in [Envs -> BOOLEAN]
           /\ stale' \subseteq Users \X Envs
<1> USE ResolverAssumption
<1> DEFINE Goal == /\ roleState' \in [Roles -> {"new", "live", "gone"}]
                   /\ perms' \in [Roles -> SUBSET Perms]
                   /\ assigned' \in [Users \X Envs -> SUBSET LiveRoles']
                   /\ envVersion' \in [Envs -> Versions]
                   /\ envEnabled' \in [Envs -> BOOLEAN]
                   /\ stale' \subseteq Users \X Envs
<1>1. ASSUME NEW es \in SUBSET Envs, Bump(es) PROVE envVersion' \in [Envs -> Versions]
  BY <1>1 DEF TypeOK, Bump, Versions
<1>2. ASSUME NEW e \in Envs, EnvironmentCreate(e) PROVE Goal
  BY <1>1, <1>2 DEF EnvironmentCreate, TypeOK, LiveRoles, cacheVars
<1>3. ASSUME NEW e \in Envs, NEW b \in BOOLEAN, EnvironmentUpdate(e, b) PROVE Goal
  BY <1>1, <1>3 DEF EnvironmentUpdate, TypeOK, LiveRoles, cacheVars
<1>4. ASSUME NEW r \in Roles, RoleCreate(r) PROVE Goal
  BY <1>4 DEF RoleCreate, TypeOK, LiveRoles, cacheVars
<1>5. ASSUME NEW r \in Roles, RoleDelete(r) PROVE Goal
  <2>1. \A ue \in Users \X Envs : r \notin assigned[ue]
    BY <1>5 DEF RoleDelete, RoleDeletable, Assignments
  <2> QED BY <1>5, <2>1 DEF RoleDelete, RoleDeletable, TypeOK, LiveRoles, cacheVars
<1>6. ASSUME NEW r \in Roles, NEW P \in SUBSET Grantable, UpdatePermissions(r, P) PROVE Goal
  <2>1. EnvironmentsOf(r) \in SUBSET Envs
    BY DEF EnvironmentsOf, Assignments
  <2> QED BY <1>1, <1>6, <2>1 DEF UpdatePermissions, TypeOK, LiveRoles, Assignments
<1>7. ASSUME NEW u \in Users, NEW e \in Envs, NEW R \in SUBSET Roles, ReplaceRoles(u, e, R)
      PROVE  Goal
  BY <1>1, <1>7 DEF ReplaceRoles, TypeOK, LiveRoles
<1> QED BY <1>2, <1>3, <1>4, <1>5, <1>6, <1>7 DEF GrantStep

\* Every step of a call keeps the call variables and the cache well formed.
LEMMA CallStepType ==
    ASSUME TypeOK, CallStep,
           \A c \in Calls : pc[c] \notin Ended => attempt[c] < MaxResolveRetry
    PROVE  TypeOK'
<1> USE ResolverAssumption
<1> USE DEF TypeOK, grantRows, userRows, cacheVars, callTarget, Goto, LiveRoles, Labels, Ended,
            Entries, Versions
<1> PICK c \in Calls : \/ \E u \in Users, e \in Envs : Resolve(c, u, e)
                       \/ EnabledUser(c, "user1", "env1")
                       \/ ReadEnvironment(c, "env1", "member1")
                       \/ AdminDone(c, "member1")
                       \/ FirstMember(c)
                       \/ CachedPermissions(c)
                       \/ LoadKeys(c)
                       \/ EnabledUser(c, "user2", "env2")
                       \/ EnabledUser(c, "user2hit", "env2hit")
                       \/ ReadEnvironment(c, "env2", "member2")
                       \/ ReadEnvironment(c, "env2hit", "member2hit")
                       \/ AdminDone(c, "member2")
                       \/ AdminDone(c, "member2hit")
                       \/ ConfirmMember(c, "member2", "store")
                       \/ ConfirmMember(c, "member2hit", "done")
                       \/ CachePermissions(c)
                       \/ Fail(c)
  BY DEF CallStep
<1>1. ASSUME NEW u \in Users, NEW e \in Envs, Resolve(c, u, e) PROVE TypeOK'
  BY <1>1 DEF Resolve
<1>2. ASSUME NEW here \in Labels, NEW next \in Labels, EnabledUser(c, here, next) PROVE TypeOK'
  BY <1>2, EntitledType DEF EnabledUser
<1>3. ASSUME NEW here \in Labels, NEW next \in Labels, ReadEnvironment(c, here, next) PROVE TypeOK'
  BY <1>3 DEF ReadEnvironment
<1>4. ASSUME NEW here \in Labels, AdminDone(c, here) PROVE TypeOK'
  BY <1>4 DEF AdminDone
<1>5. CASE FirstMember(c)
  BY <1>5 DEF FirstMember
<1>6. CASE CachedPermissions(c)
  BY <1>6 DEF CachedPermissions
<1>7. CASE LoadKeys(c)
  BY <1>7, GrantsType DEF LoadKeys
<1>8. ASSUME NEW here \in Labels \ Ended, NEW next \in Labels, ConfirmMember(c, here, next)
      PROVE  TypeOK'
  <2>1. /\ UNCHANGED <<roleState, perms, assigned, envVersion, envEnabled, userEnabled, userAdmin,
                       cache, stale, who, scope, since, asAdmin, seen, ver, keys, witness>>
        /\ pc' \in {[pc EXCEPT ![c] = "denied"], [pc EXCEPT ![c] = next],
                   [pc EXCEPT ![c] = "user1"], [pc EXCEPT ![c] = "busy"]}
        /\ attempt' \in {attempt, [attempt EXCEPT ![c] = @ + 1]}
        /\ attempt[c] < MaxResolveRetry
    BY <1>8 DEF ConfirmMember
  <2>2. pc' \in [Calls -> Labels]
    BY <2>1
  <2>3. attempt' \in [Calls -> 0..MaxResolveRetry]
    BY <2>1
  <2> QED BY <2>1, <2>2, <2>3
<1>9. CASE CachePermissions(c)
  <2>1. /\ UNCHANGED <<roleState, perms, assigned, envVersion, envEnabled, userEnabled, userAdmin,
                       stale, who, scope, since, asAdmin, seen, ver, keys, attempt, witness>>
        /\ pc' = [pc EXCEPT ![c] = "done"]
        /\ cache' \in {cache, [cache EXCEPT ![<<who[c], scope[c], ver[c]>>] = keys[c]]}
    BY <1>9 DEF CachePermissions
  <2>2. pc' \in [Calls -> Labels]
    BY <2>1
  <2>3. cache' \in [Entries -> (SUBSET Perms) \cup {Nothing}]
    BY <2>1
  <2> QED BY <2>1, <2>2, <2>3
<1>10. CASE Fail(c)
  BY <1>10 DEF Fail
<1> QED BY <1>1, <1>2, <1>3, <1>4, <1>5, <1>6, <1>7, <1>8, <1>9, <1>10

\* Every step of the specification keeps the types.
LEMMA StepType ==
    ASSUME TypeOK, VersionsKnown, [Next]_vars
    PROVE  TypeOK'
<1> USE ResolverAssumption
<1>1. CASE GrantStep
  <2>1. UNCHANGED <<userRows, cache, callVars>>
    BY <1>1 DEF GrantStep, EnvironmentCreate, EnvironmentUpdate, RoleCreate, RoleDelete,
                UpdatePermissions, ReplaceRoles, cacheVars
  <2> QED BY <1>1, <2>1, GrantStepType
             DEF TypeOK, userRows, callVars, callTarget
<1>2. CASE UserStep
  <2>1. PICK u \in Users, b \in BOOLEAN : UpdateManagedStatus(u, b) \/ UpdateManagedUser(u, b)
    BY <1>2 DEF UserStep
  <2>2. userEnabled[u] \in BOOLEAN /\ userAdmin[u] \in BOOLEAN
    BY DEF TypeOK
  <2>3. PICK enabled \in BOOLEAN, admin \in BOOLEAN : SetUser(u, enabled, admin)
    BY <2>1, <2>2 DEF UpdateManagedStatus, UpdateManagedUser
  <2>4. userEnabled' \in [Users -> BOOLEAN] /\ userAdmin' \in [Users -> BOOLEAN]
    BY <2>3 DEF SetUser, TypeOK
  <2> QED BY <2>3, <2>4 DEF SetUser, TypeOK, grantRows, cacheVars, callVars, callTarget, LiveRoles
<1>3. CASE CacheStep
  <2>1. ASSUME NEW u \in Users, NEW e \in Envs, Invalidate(u, e) PROVE TypeOK'
    <3>1. cache' \in [Entries -> (SUBSET Perms) \cup {Nothing}]
      BY <2>1 DEF Invalidate, TypeOK
    <3> QED BY <2>1, <3>1 DEF Invalidate, TypeOK, grantRows, userRows, callVars, callTarget, LiveRoles
  <2>2. ASSUME NEW k \in Entries, Expire(k) PROVE TypeOK'
    <3>1. cache' \in [Entries -> (SUBSET Perms) \cup {Nothing}]
      BY <2>2 DEF Expire, TypeOK
    <3> QED BY <2>2, <3>1 DEF Expire, TypeOK, grantRows, userRows, callVars, callTarget, LiveRoles
  <2> QED BY <1>3, <2>1, <2>2 DEF CacheStep
<1>4. CASE CallStep
  BY <1>4, CallStepType DEF VersionsKnown
<1>5. CASE UNCHANGED vars
  BY <1>5 DEF vars, TypeOK, grantRows, userRows, cacheVars, callVars, callTarget, LiveRoles
<1> QED BY <1>1, <1>2, <1>3, <1>4, <1>5 DEF Next

-----------------------------------------------------------------------------
(* No change of grants without a new version *)

\* What the rows of one environment say about one account.
SameGrants(u, e) ==
    /\ Grants(u, e)' = Grants(u, e)
    /\ assigned'[<<u, e>>] = assigned[<<u, e>>]
    /\ envEnabled'[e] = envEnabled[e]

\* Versions never go back, and a version that stays means grants that stay.
Advancing ==
    \A u \in Users, e \in Envs :
        /\ envVersion'[e] >= envVersion[e]
        /\ envVersion'[e] = envVersion[e] => SameGrants(u, e)

\* The transactions of RoleLogic and EnvironmentLogic are written so.
LEMMA GrantsAdvance ==
    ASSUME TypeOK, GrantStep
    PROVE  Advancing
<1> USE ResolverAssumption
<1> USE DEF Advancing, SameGrants
<1>1. ASSUME NEW es \in SUBSET Envs, Bump(es)
      PROVE  \A e \in Envs : /\ envVersion'[e] >= envVersion[e]
                             /\ envVersion'[e] = envVersion[e] => e \notin es
  BY <1>1 DEF TypeOK, Bump, Versions
<1>2. ASSUME NEW e \in Envs, Bump({e}), NEW b \in BOOLEAN,
             envEnabled' = [envEnabled EXCEPT ![e] = b],
             UNCHANGED <<roleState, perms, assigned>>
      PROVE  Advancing
  <2>1. \A u \in Users, f \in Envs : Grants(u, f)' = Grants(u, f)
    BY <1>2 DEF Grants, LiveRoles
  <2>2. \A f \in Envs \ {e} : envEnabled'[f] = envEnabled[f]
    BY <1>2 DEF TypeOK
  <2>3. \A f \in Envs : /\ envVersion'[f] >= envVersion[f]
                        /\ envVersion'[f] = envVersion[f] => f # e
    BY <1>1, <1>2
  <2> QED BY <1>2, <2>1, <2>2, <2>3
<1>3. ASSUME NEW e \in Envs,
             EnvironmentCreate(e) \/ \E b \in BOOLEAN : EnvironmentUpdate(e, b)
      PROVE  Advancing
  BY <1>2, <1>3 DEF EnvironmentCreate, EnvironmentUpdate
<1>4. ASSUME NEW r \in Roles, RoleCreate(r) PROVE Advancing
  <2>1. \A ue \in Users \X Envs : r \notin assigned[ue]
    BY <1>4 DEF RoleCreate, TypeOK, LiveRoles
  <2>2. \A x \in Roles \ {r} : x \in LiveRoles' <=> x \in LiveRoles
    BY <1>4 DEF RoleCreate, TypeOK, LiveRoles
  <2>3. \A u \in Users, e \in Envs : assigned[<<u, e>>] \subseteq Roles \ {r}
    BY <2>1 DEF TypeOK, LiveRoles
  <2>4. \A u \in Users, e \in Envs : Grants(u, e)' = Grants(u, e)
    BY <1>4, <2>2, <2>3 DEF RoleCreate, Grants
  <2> QED BY <1>4, <2>4 DEF RoleCreate, TypeOK, Versions
<1>5. ASSUME NEW r \in Roles, RoleDelete(r) PROVE Advancing
  <2>1. \A ue \in Users \X Envs : r \notin assigned[ue]
    BY <1>5 DEF RoleDelete, RoleDeletable, Assignments
  <2>2. \A x \in Roles \ {r} : x \in LiveRoles' <=> x \in LiveRoles
    BY <1>5 DEF RoleDelete, TypeOK, LiveRoles
  <2>3. \A u \in Users, e \in Envs : assigned[<<u, e>>] \subseteq Roles \ {r}
    BY <2>1 DEF TypeOK, LiveRoles
  <2>4. \A u \in Users, e \in Envs : Grants(u, e)' = Grants(u, e)
    BY <1>5, <2>2, <2>3 DEF RoleDelete, Grants
  <2> QED BY <1>5, <2>4 DEF RoleDelete, TypeOK, Versions
<1>6. ASSUME NEW r \in Roles, NEW P \in SUBSET Grantable, UpdatePermissions(r, P)
      PROVE  Advancing
  <2>1. EnvironmentsOf(r) \in SUBSET Envs
    BY DEF EnvironmentsOf, Assignments
  <2>2. ASSUME NEW u \in Users, NEW e \in Envs, e \notin EnvironmentsOf(r)
        PROVE  r \notin assigned[<<u, e>>]
    BY <2>2 DEF EnvironmentsOf, Assignments
  <2>3. ASSUME NEW u \in Users, NEW e \in Envs, e \notin EnvironmentsOf(r)
        PROVE  SameGrants(u, e)
    <3>1. /\ UNCHANGED <<roleState, assigned, envEnabled>>
          /\ perms' = [perms EXCEPT ![r] = P]
      BY <1>6 DEF UpdatePermissions
    <3>2. r \notin assigned[<<u, e>>]
      BY <2>2, <2>3
    <3>3. \A x \in Roles \ {r} : perms'[x] = perms[x]
      BY <3>1 DEF TypeOK
    <3>4. \A x \in assigned[<<u, e>>] \cap LiveRoles : x \in Roles \ {r}
      BY <3>2 DEF LiveRoles
    <3>5. Grants(u, e)' = Grants(u, e)
      BY <3>1, <3>3, <3>4 DEF Grants, LiveRoles
    <3> QED BY <3>1, <3>5
  <2> QED BY <1>1, <1>6, <2>1, <2>3 DEF UpdatePermissions
<1>7. ASSUME NEW u \in Users, NEW e \in Envs, NEW R \in SUBSET Roles, ReplaceRoles(u, e, R)
      PROVE  Advancing
  <2>1. \A v \in Users, f \in Envs :
            f # e => /\ assigned'[<<v, f>>] = assigned[<<v, f>>]
                     /\ Grants(v, f)' = Grants(v, f)
    BY <1>7 DEF ReplaceRoles, TypeOK, LiveRoles, Grants
  <2>2. \A f \in Envs : /\ envVersion'[f] >= envVersion[f]
                        /\ envVersion'[f] = envVersion[f] => f # e
    BY <1>1, <1>7 DEF ReplaceRoles
  <2> QED BY <1>7, <2>1, <2>2 DEF ReplaceRoles
<1> QED BY <1>3, <1>4, <1>5, <1>6, <1>7 DEF GrantStep

-----------------------------------------------------------------------------
(* The inductive invariant *)

\* A change of the tables invalidates no evidence: where the version stays the
\* grants stay, and where it moves nothing is claimed any more.
LEMMA CoherentUnderChange ==
    ASSUME TypeOK, TypeOK', Coherent, Advancing, UNCHANGED <<cache, callVars>>
    PROVE  Coherent'
<1> USE ResolverAssumption
<1> USE DEF callVars, callTarget
<1>1. \A c \in Calls : /\ who[c] \in Users /\ scope[c] \in Envs
                       /\ who'[c] = who[c] /\ scope'[c] = scope[c]
  BY DEF TypeOK
<1>2. \A c \in Calls :
          LET e == scope[c] IN
          /\ envVersion[e] \in Nat /\ envVersion'[e] \in Nat
          /\ envVersion'[e] >= envVersion[e]
          /\ envVersion'[e] = envVersion[e] => SameGrants(who[c], e)
  BY <1>1 DEF Advancing, TypeOK, Versions
<1>3. \A c \in Calls : /\ ver[c] \in Nat /\ seen[c] \in Nat /\ since[c] \in Nat
                       /\ attempt[c] \in Nat
  BY DEF TypeOK, Versions
<1>4. VersionsKnown'
  BY <1>1, <1>2, <1>3 DEF Coherent, VersionsKnown
<1>5. EvidenceHolds'
  <2> SUFFICES ASSUME NEW c \in Calls
               PROVE  LET u == who[c]
                          e == scope[c] IN
                      /\ pc[c] = "member1" /\ ~asAdmin[c] /\ seen[c] = envVersion'[e] => envEnabled'[e]
                      /\ pc[c] \in Confirming \cup {"get", "load"} /\ ver[c] = envVersion'[e] =>
                            envEnabled'[e] /\ assigned'[<<u, e>>] # {}
                      /\ pc[c] \in Confirming \cup {"store"} /\ ver[c] = envVersion'[e] =>
                            keys[c] = Grants(u, e)'
    BY DEF EvidenceHolds, Grants, LiveRoles
  <2>1. ver[c] <= envVersion[scope[c]] /\ seen[c] <= envVersion[scope[c]]
    BY DEF Coherent, VersionsKnown
  <2>2. ver[c] = envVersion'[scope[c]] \/ seen[c] = envVersion'[scope[c]] =>
            /\ envVersion'[scope[c]] = envVersion[scope[c]]
            /\ SameGrants(who[c], scope[c])
    BY <1>2, <1>3, <2>1
  <2> QED BY <2>2 DEF Coherent, EvidenceHolds, SameGrants
<1>6. WitnessHolds'
  BY <1>1, <1>2, <1>3 DEF Coherent, WitnessHolds, VersionsKnown
<1>7. CacheCoherent'
  <2> SUFFICES ASSUME NEW u \in Users, NEW e \in Envs, NEW v \in Versions,
                      cache[<<u, e, v>>] # Nothing
               PROVE  /\ v <= envVersion'[e]
                      /\ v = envVersion'[e] => cache[<<u, e, v>>] = Grants(u, e)'
    BY DEF CacheCoherent
  <2>1. /\ v <= envVersion[e]
        /\ v = envVersion[e] => cache[<<u, e, v>>] = Grants(u, e)
    BY DEF Coherent, CacheCoherent
  <2>2. /\ envVersion[e] \in Nat /\ envVersion'[e] \in Nat
        /\ envVersion'[e] >= envVersion[e]
    BY DEF Advancing, TypeOK, Versions
  <2>3. envVersion'[e] = envVersion[e] => Grants(u, e)' = Grants(u, e)
    BY DEF Advancing, SameGrants
  <2> QED BY <2>1, <2>2, <2>3 DEF Versions
<1>8. AnswersWereTrue' /\ BusyMeansChanged'
  BY <1>1, <1>2, <1>3 DEF Coherent, AnswersWereTrue, BusyMeansChanged
<1> QED BY <1>4, <1>5, <1>6, <1>7, <1>8 DEF Coherent

\* One step of one call keeps the invariant; the tables stand still meanwhile.
LEMMA CoherentUnderCall ==
    ASSUME TypeOK, TypeOK', Coherent, CallStep
    PROVE  Coherent'
<1> USE ResolverAssumption
<1> USE DEF grantRows, userRows, cacheVars, callTarget, Goto, Ended, Confirming
<1> DEFINE Steady == \A u \in Users, e \in Envs : Grants(u, e)' = Grants(u, e)
<1>0. ASSUME UNCHANGED grantRows PROVE Steady
  BY <1>0 DEF Grants, LiveRoles
<1>t. \A c \in Calls :
          /\ who[c] \in Users /\ scope[c] \in Envs
          /\ envVersion[scope[c]] \in Nat
          /\ ver[c] \in Nat /\ seen[c] \in Nat /\ since[c] \in Nat /\ attempt[c] \in Nat
          /\ asAdmin[c] \in BOOLEAN
  BY DEF TypeOK, Versions
<1>1. ASSUME NEW c \in Calls, NEW u \in Users, NEW e \in Envs, Resolve(c, u, e) PROVE Coherent'
  <2> USE DEF Resolve
  <2>1. VersionsKnown'
    BY <1>1, <1>t DEF TypeOK, Versions, Coherent, VersionsKnown
  <2>2. EvidenceHolds'
    BY <1>0, <1>1, <1>t DEF TypeOK, Coherent, EvidenceHolds
  <2>3. WitnessHolds'
    BY <1>1, <1>t DEF TypeOK, Coherent, WitnessHolds
  <2>4. CacheCoherent'
    BY <1>0, <1>1 DEF Coherent, CacheCoherent
  <2>5. AnswersWereTrue' /\ BusyMeansChanged'
    BY <1>1 DEF TypeOK, Coherent, AnswersWereTrue, BusyMeansChanged
  <2> QED BY <2>1, <2>2, <2>3, <2>4, <2>5 DEF Coherent
<1>2. ASSUME NEW c \in Calls,
             \/ EnabledUser(c, "user1", "env1")
             \/ EnabledUser(c, "user2", "env2")
             \/ EnabledUser(c, "user2hit", "env2hit")
      PROVE  Coherent'
  <2> USE DEF EnabledUser
  <2>1. VersionsKnown'
    BY <1>2, <1>t DEF TypeOK, Versions, Coherent, VersionsKnown, Entitled
  <2>2. EvidenceHolds'
    BY <1>0, <1>2, <1>t DEF TypeOK, Coherent, EvidenceHolds, VersionsKnown, Entitled
  <2>3. WitnessHolds'
    BY <1>0, <1>2, <1>t DEF TypeOK, Coherent, WitnessHolds, EvidenceHolds, VersionsKnown, Entitled
  <2>4. CacheCoherent'
    BY <1>0, <1>2 DEF Coherent, CacheCoherent
  <2>5. AnswersWereTrue' /\ BusyMeansChanged'
    <3>1. /\ UNCHANGED <<keys, envVersion, scope, since>>
          /\ pc'[c] \notin {"done", "busy"}
          /\ \A q \in Calls \ {c} : pc'[q] = pc[q] /\ witness'[q] = witness[q]
      BY <1>2 DEF TypeOK
    <3> QED BY <3>1 DEF Coherent, AnswersWereTrue, BusyMeansChanged
  <2> QED BY <2>1, <2>2, <2>3, <2>4, <2>5 DEF Coherent
<1>3. ASSUME NEW c \in Calls,
             \/ ReadEnvironment(c, "env1", "member1")
             \/ ReadEnvironment(c, "env2", "member2")
             \/ ReadEnvironment(c, "env2hit", "member2hit")
      PROVE  Coherent'
  <2> USE DEF ReadEnvironment
  <2>1. VersionsKnown'
    BY <1>3, <1>t DEF TypeOK, Versions, Coherent, VersionsKnown, EnvironmentFound
  <2>2. EvidenceHolds'
    BY <1>0, <1>3, <1>t DEF TypeOK, Coherent, EvidenceHolds, VersionsKnown, EnvironmentFound
  <2>3. WitnessHolds'
    BY <1>0, <1>3, <1>t DEF TypeOK, Coherent, WitnessHolds, EvidenceHolds, VersionsKnown, EnvironmentFound
  <2>4. CacheCoherent'
    BY <1>0, <1>3 DEF Coherent, CacheCoherent
  <2>5. AnswersWereTrue' /\ BusyMeansChanged'
    BY <1>3, <1>t DEF TypeOK, Coherent, AnswersWereTrue, BusyMeansChanged, WitnessHolds, VersionsKnown, EnvironmentFound
  <2> QED BY <2>1, <2>2, <2>3, <2>4, <2>5 DEF Coherent
<1>4. ASSUME NEW c \in Calls,
             \/ AdminDone(c, "member1")
             \/ AdminDone(c, "member2")
             \/ AdminDone(c, "member2hit")
      PROVE  Coherent'
  <2> USE DEF AdminDone
  <2>1. VersionsKnown'
    BY <1>4, <1>t DEF TypeOK, Versions, Coherent, VersionsKnown
  <2>2. EvidenceHolds'
    BY <1>0, <1>4, <1>t DEF TypeOK, Coherent, EvidenceHolds, VersionsKnown
  <2>3. WitnessHolds'
    BY <1>4, <1>t DEF TypeOK, Coherent, WitnessHolds
  <2>4. CacheCoherent'
    BY <1>0, <1>4 DEF Coherent, CacheCoherent
  <2>5. AnswersWereTrue' /\ BusyMeansChanged'
    <3>1. /\ UNCHANGED <<witness, envVersion, scope, since>>
          /\ pc[c] \in {"member1", "member2", "member2hit"} /\ asAdmin[c]
          /\ pc'[c] = "done" /\ keys'[c] = Perms
          /\ \A q \in Calls \ {c} : pc'[q] = pc[q] /\ keys'[q] = keys[q]
      BY <1>4 DEF TypeOK
    <3>2. witness[c] = Perms
      BY <3>1 DEF Coherent, WitnessHolds
    <3> QED BY <3>1, <3>2 DEF Coherent, AnswersWereTrue, BusyMeansChanged
  <2> QED BY <2>1, <2>2, <2>3, <2>4, <2>5 DEF Coherent
<1>5. ASSUME NEW c \in Calls, FirstMember(c)
      PROVE  Coherent'
  <2> USE DEF FirstMember
  <2>1. VersionsKnown'
    BY <1>5, <1>t DEF TypeOK, Versions, Coherent, VersionsKnown, Member
  <2>2. EvidenceHolds'
    <3>1. /\ pc'[c] = "get" => assigned[<<who[c], scope[c]>>] # {}
          /\ pc'[c] \in {"get", "denied"}
          /\ ver'[c] = seen[c]
          /\ \A d \in Calls \ {c} : pc'[d] = pc[d] /\ ver'[d] = ver[d]
      BY <1>5 DEF TypeOK, Member
    <3>2. /\ UNCHANGED <<who, scope, asAdmin, seen, keys, envVersion, envEnabled, assigned>>
          /\ pc[c] = "member1" /\ ~asAdmin[c]
      BY <1>5
    <3> QED BY <1>0, <1>5, <1>t, <3>1, <3>2 DEF Coherent, EvidenceHolds
  <2>3. WitnessHolds'
    BY <1>0, <1>5, <1>t DEF TypeOK, Coherent, WitnessHolds, EvidenceHolds, VersionsKnown, Member
  <2>4. CacheCoherent'
    BY <1>0, <1>5 DEF Coherent, CacheCoherent
  <2>5. AnswersWereTrue' /\ BusyMeansChanged'
    BY <1>5, <1>t DEF TypeOK, Coherent, AnswersWereTrue, BusyMeansChanged, WitnessHolds, VersionsKnown, Member
  <2> QED BY <2>1, <2>2, <2>3, <2>4, <2>5 DEF Coherent
<1>6. ASSUME NEW c \in Calls, CachedPermissions(c)
      PROVE  Coherent'
  <2> USE DEF CachedPermissions
  <2>1. VersionsKnown'
    BY <1>6, <1>t DEF TypeOK, Versions, Coherent, VersionsKnown, CacheCoherent, Entries
  <2>2. EvidenceHolds'
    BY <1>0, <1>6, <1>t DEF TypeOK, Coherent, EvidenceHolds, VersionsKnown, CacheCoherent, Entries
  <2>3. WitnessHolds'
    BY <1>0, <1>6, <1>t DEF TypeOK, Coherent, WitnessHolds, EvidenceHolds, VersionsKnown, CacheCoherent, Entries
  <2>4. CacheCoherent'
    BY <1>0, <1>6 DEF Coherent, CacheCoherent
  <2>5. AnswersWereTrue' /\ BusyMeansChanged'
    BY <1>6, <1>t DEF TypeOK, Coherent, AnswersWereTrue, BusyMeansChanged, WitnessHolds, VersionsKnown, CacheCoherent, Entries
  <2> QED BY <2>1, <2>2, <2>3, <2>4, <2>5 DEF Coherent
<1>7. ASSUME NEW c \in Calls, LoadKeys(c)
      PROVE  Coherent'
  <2> USE DEF LoadKeys
  <2>1. VersionsKnown'
    BY <1>7, <1>t DEF TypeOK, Versions, Coherent, VersionsKnown
  <2>2. EvidenceHolds'
    BY <1>0, <1>7, <1>t DEF TypeOK, Coherent, EvidenceHolds, VersionsKnown
  <2>3. WitnessHolds'
    BY <1>0, <1>7, <1>t DEF TypeOK, Coherent, WitnessHolds, EvidenceHolds, VersionsKnown
  <2>4. CacheCoherent'
    BY <1>0, <1>7 DEF Coherent, CacheCoherent
  <2>5. AnswersWereTrue' /\ BusyMeansChanged'
    BY <1>7, <1>t DEF TypeOK, Coherent, AnswersWereTrue, BusyMeansChanged, WitnessHolds, VersionsKnown
  <2> QED BY <2>1, <2>2, <2>3, <2>4, <2>5 DEF Coherent
<1>8. ASSUME NEW c \in Calls,
             \/ ConfirmMember(c, "member2", "store")
             \/ ConfirmMember(c, "member2hit", "done")
      PROVE  Coherent'
  <2> USE DEF ConfirmMember
  <2>1. VersionsKnown'
    <3>1. \A d \in Calls \ {c} : pc'[d] = pc[d] /\ attempt'[d] = attempt[d]
      BY <1>8 DEF TypeOK
    <3>2. UNCHANGED <<who, scope, since, seen, ver, envVersion>>
      BY <1>8
    <3>3. /\ pc[c] \in {"member2", "member2hit"}
          /\ \/ pc'[c] \in Ended \cup {"store"} /\ attempt'[c] = attempt[c]
             \/ /\ seen[c] # ver[c]
                /\ attempt'[c] = attempt[c] + 1
                /\ pc'[c] = "user1" /\ attempt[c] + 1 < MaxResolveRetry
             \/ /\ seen[c] # ver[c]
                /\ attempt'[c] = attempt[c] + 1
                /\ pc'[c] = "busy" /\ attempt[c] + 1 >= MaxResolveRetry
      BY <1>8, <1>t DEF TypeOK, Confirmed, AttemptLeft
    <3> QED BY <1>t, <3>1, <3>2, <3>3 DEF Coherent, VersionsKnown
  <2>2. EvidenceHolds'
    BY <1>0, <1>8, <1>t DEF TypeOK, Coherent, EvidenceHolds, VersionsKnown, Member, Confirmed, AttemptLeft
  <2>3. WitnessHolds'
    BY <1>0, <1>8, <1>t DEF TypeOK, Coherent, WitnessHolds, EvidenceHolds, VersionsKnown, Member, Confirmed, AttemptLeft
  <2>4. CacheCoherent'
    BY <1>0, <1>8 DEF Coherent, CacheCoherent
  <2>5. AnswersWereTrue' /\ BusyMeansChanged'
    <3>1. \A d \in Calls \ {c} : pc'[d] = pc[d]
      BY <1>8 DEF TypeOK
    <3>2. UNCHANGED <<who, scope, since, seen, ver, keys, witness, envVersion>>
      BY <1>8
    <3>3. /\ pc[c] \in {"member2", "member2hit"} /\ ~asAdmin[c]
          /\ pc'[c] = "done" => seen[c] = ver[c]
          /\ pc'[c] = "busy" => seen[c] # ver[c] /\ attempt[c] + 1 >= MaxResolveRetry
      BY <1>8, <1>t DEF TypeOK, Confirmed, AttemptLeft
    <3>4. /\ pc'[c] = "done" => witness[c] = keys[c]
          /\ pc'[c] = "busy" => envVersion[scope[c]] >= since[c] + MaxResolveRetry
      BY <1>t, <3>3 DEF Coherent, WitnessHolds, VersionsKnown
    <3> QED BY <3>1, <3>2, <3>3, <3>4 DEF Coherent, AnswersWereTrue, BusyMeansChanged
  <2> QED BY <2>1, <2>2, <2>3, <2>4, <2>5 DEF Coherent
<1>9. ASSUME NEW c \in Calls, CachePermissions(c)
      PROVE  Coherent'
  <2> USE DEF CachePermissions
  <2>1. VersionsKnown'
    BY <1>9, <1>t DEF TypeOK, Versions, Coherent, VersionsKnown
  <2>2. EvidenceHolds'
    BY <1>0, <1>9, <1>t DEF TypeOK, Coherent, EvidenceHolds, VersionsKnown
  <2>3. WitnessHolds'
    BY <1>0, <1>9, <1>t DEF TypeOK, Coherent, WitnessHolds, EvidenceHolds, VersionsKnown
  <2>4. CacheCoherent'
    <3>1. /\ ver[c] <= envVersion[scope[c]]
          /\ ver[c] = envVersion[scope[c]] => keys[c] = Grants(who[c], scope[c])
      BY <1>9 DEF Coherent, VersionsKnown, EvidenceHolds
    <3>2. \A u \in Users, e \in Envs, v \in Versions :
              \/ cache'[<<u, e, v>>] = cache[<<u, e, v>>]
              \/ u = who[c] /\ e = scope[c] /\ v = ver[c] /\ cache'[<<u, e, v>>] = keys[c]
      <4>1. \A k \in Entries :
                \/ cache'[k] = cache[k]
                \/ k = <<who[c], scope[c], ver[c]>> /\ cache'[k] = keys[c]
        BY <1>9 DEF TypeOK
      <4>2. \A u \in Users, e \in Envs, v \in Versions : <<u, e, v>> \in Entries
        BY DEF Entries
      <4> QED BY <4>1, <4>2
    <3>3. envVersion' = envVersion /\ Steady
      BY <1>0, <1>9
    <3> HIDE DEF Steady
    <3>4. SUFFICES ASSUME NEW u \in Users, NEW e \in Envs, NEW v \in Versions,
                          cache'[<<u, e, v>>] # Nothing
                   PROVE  /\ v <= envVersion'[e]
                          /\ v = envVersion'[e] => cache'[<<u, e, v>>] = Grants(u, e)'
      BY DEF CacheCoherent
    <3>5. /\ v <= envVersion[e]
          /\ v = envVersion[e] => cache'[<<u, e, v>>] = Grants(u, e)
      BY <3>1, <3>2, <3>4 DEF Coherent, CacheCoherent
    <3> QED BY <3>3, <3>5 DEF Steady
  <2>5. AnswersWereTrue' /\ BusyMeansChanged'
    BY <1>9, <1>t DEF TypeOK, Coherent, AnswersWereTrue, BusyMeansChanged, WitnessHolds, VersionsKnown
  <2> QED BY <2>1, <2>2, <2>3, <2>4, <2>5 DEF Coherent
<1>10. ASSUME NEW c \in Calls, Fail(c)
      PROVE  Coherent'
  <2> USE DEF Fail
  <2>1. VersionsKnown'
    BY <1>10, <1>t DEF TypeOK, Versions, Coherent, VersionsKnown
  <2>2. EvidenceHolds'
    BY <1>0, <1>10, <1>t DEF TypeOK, Coherent, EvidenceHolds, VersionsKnown
  <2>3. WitnessHolds'
    BY <1>0, <1>10, <1>t DEF TypeOK, Coherent, WitnessHolds, EvidenceHolds, VersionsKnown
  <2>4. CacheCoherent'
    BY <1>0, <1>10 DEF Coherent, CacheCoherent
  <2>5. AnswersWereTrue' /\ BusyMeansChanged'
    BY <1>10, <1>t DEF TypeOK, Coherent, AnswersWereTrue, BusyMeansChanged, WitnessHolds, VersionsKnown
  <2> QED BY <2>1, <2>2, <2>3, <2>4, <2>5 DEF Coherent
<1> QED BY <1>1, <1>2, <1>3, <1>4, <1>5, <1>6, <1>7, <1>8, <1>9, <1>10 DEF CallStep

\* The cleanup of old entries and their expiry only remove.
LEMMA CoherentUnderExpiry ==
    ASSUME TypeOK, Coherent, CacheStep
    PROVE  Coherent'
<1> USE DEF grantRows, userRows, callVars, callTarget
<1>1. UNCHANGED <<grantRows, userRows, callVars>>
  BY DEF CacheStep, Invalidate, Expire
<1>2. \A k \in Entries : cache'[k] = cache[k] \/ cache'[k] = Nothing
  BY DEF CacheStep, Invalidate, Expire, TypeOK
<1>3. \A u \in Users, e \in Envs : Grants(u, e)' = Grants(u, e)
  BY <1>1 DEF Grants, LiveRoles
<1>4. CacheCoherent'
  <2>1. \A u \in Users, e \in Envs, v \in Versions : <<u, e, v>> \in Entries
    BY DEF Entries
  <2> QED BY <1>1, <1>2, <1>3, <2>1 DEF Coherent, CacheCoherent
<1>5. EvidenceHolds'
  BY <1>1 DEF Coherent, EvidenceHolds, Grants, LiveRoles
<1>6. VersionsKnown' /\ WitnessHolds' /\ AnswersWereTrue' /\ BusyMeansChanged'
  BY <1>1 DEF Coherent, VersionsKnown, WitnessHolds, AnswersWereTrue, BusyMeansChanged
<1> QED BY <1>4, <1>5, <1>6 DEF Coherent

\* The invariant is inductive.
LEMMA CoherentStep ==
    ASSUME TypeOK, Coherent, [Next]_vars
    PROVE  TypeOK' /\ Coherent'
<1>1. TypeOK'
  BY StepType DEF Coherent
<1>2. CASE GrantStep
  <2>1. UNCHANGED <<cache, callVars>>
    BY <1>2 DEF GrantStep, EnvironmentCreate, EnvironmentUpdate, RoleCreate, RoleDelete,
                UpdatePermissions, ReplaceRoles, cacheVars
  <2> QED BY <1>1, <1>2, <2>1, GrantsAdvance, CoherentUnderChange
<1>3. CASE UserStep \/ UNCHANGED vars
  <2>1. UNCHANGED <<grantRows, cache, callVars>>
    BY <1>3 DEF UserStep, UpdateManagedStatus, UpdateManagedUser, SetUser, cacheVars, vars
  <2>2. Advancing
    BY <2>1 DEF Advancing, SameGrants, Grants, LiveRoles, grantRows, TypeOK, Versions
  <2> QED BY <1>1, <2>1, <2>2, CoherentUnderChange
<1>4. CASE CacheStep
  BY <1>1, <1>4, CoherentUnderExpiry
<1>5. CASE CallStep
  BY <1>1, <1>5, CoherentUnderCall
<1> QED BY <1>2, <1>3, <1>4, <1>5 DEF Next

\* Initially no call has read anything and the cache is empty.
LEMMA InitCoherent == Init => TypeOK /\ Coherent
<1> USE ResolverAssumption
<1> SUFFICES ASSUME Init PROVE TypeOK /\ Coherent
  OBVIOUS
<1>1. TypeOK
  BY DEF Init, TypeOK, LiveRoles, Versions, Labels, Ended
<1>2. VersionsKnown
  BY DEF Init, VersionsKnown, Ended, Confirming
<1>3. EvidenceHolds /\ WitnessHolds /\ AnswersWereTrue /\ BusyMeansChanged
  BY DEF Init, EvidenceHolds, WitnessHolds, AnswersWereTrue, BusyMeansChanged, Confirming
<1>4. CacheCoherent
  BY DEF Init, CacheCoherent, Entries
<1> QED BY <1>1, <1>2, <1>3, <1>4 DEF Coherent

-----------------------------------------------------------------------------
(* The theorems *)

\* The inductive invariant holds in every reachable state.
THEOREM AlwaysCoherent == Spec => [](TypeOK /\ Coherent)
BY InitCoherent, CoherentStep, PTL DEF Spec

\* Type correctness; no deleted role is ever assigned.
THEOREM ResolverTypeCorrect == Spec => []TypeOK
BY AlwaysCoherent, PTL

\* A cached permission set of the present environment version is what the
\* tables grant: no change of roles, grants or memberships leaves a usable
\* stale entry, however many calls race with it.
THEOREM CacheAlwaysCoherent == Spec => []CacheCoherent
<1>1. TypeOK /\ Coherent => CacheCoherent
  BY DEF Coherent
<1> QED BY <1>1, AlwaysCoherent, PTL

\* Every answer of Resolve was the truth at the moment it last read the account.
THEOREM EveryAnswerWasTrue == Spec => []AnswersWereTrue
<1>1. TypeOK /\ Coherent => AnswersWereTrue
  BY DEF Coherent
<1> QED BY <1>1, AlwaysCoherent, PTL

\* A call reports ErrConcurrentChange only after that many changes.
THEOREM BusyIsNeverSpurious == Spec => []BusyMeansChanged
<1>1. TypeOK /\ Coherent => BusyMeansChanged
  BY DEF Coherent
<1> QED BY <1>1, AlwaysCoherent, PTL
=============================================================================
