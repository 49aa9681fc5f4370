---------------------------- MODULE ServerProofs ----------------------------
(***************************************************************************)
(* Proofs about a server, for any number of servers, clients and requests: *)
(* that the requests which reach a handler passed what their operation     *)
(* needs, fit where they go and stay within the rate limit (Gateway), and  *)
(* that a server comes up on a complete installation only (SchemaInstall). *)
(***************************************************************************)
EXTENDS Gateway, SchemaInstall, WellFoundedInduction, TLAPS

-----------------------------------------------------------------------------
(* The table of routes *)

\* Where a route is: below /admin unless its service is one of the other three.
Placed(route) ==
    /\ Len(route.path) \in Nat \ {0}
    /\ route.path[1] = IF route.operation \in {"Login", "Refresh", "Logout", "Me"} THEN "auth"
                       ELSE IF route.operation \in {"GetSetupStatus", "CreateInitialAdmin"} THEN "setup"
                       ELSE IF route.operation = "Config" THEN "v1"
                       ELSE "admin"

\* The messages of the operations that store a field or have it given again.
Messages(route) ==
    LET op == route.operation
        message == route.message
    IN /\ op = "CreateInitialAdmin" => message = CreateInitialAdminRequest
       /\ op = "CreateUser" => message = CreateUserRequest
       /\ op = "UpdateUser" => message = UpdateUserRequest
       /\ op = "UpdateUserPassword" => message = UpdateUserPasswordRequest
       /\ op = "CreateRole" => message = CreateRoleRequest
       /\ op = "UpdateRole" => message = UpdateRoleRequest
       /\ op = "CreateEnvironment" => message = CreateEnvironmentRequest
       /\ op = "UpdateEnvironment" => message = UpdateEnvironmentRequest
       /\ op = "CreateProject" => message = CreateProjectRequest
       /\ op = "UpdateProject" => message = UpdateProjectRequest
       /\ op = "CreateProjectApiKey" => message = CreateProjectApiKeyRequest
       /\ op = "CreateConfig" => message = CreateConfigRequest
       /\ op = "UpdateConfig" => message = UpdateConfigRequest
       /\ op = "CreateStructure" => message = CreateStructureRequest
       /\ op = "UpdateStructure" => message = UpdateStructureRequest
       /\ op = "CreateEnum" => message = CreateEnumRequest
       /\ op = "UpdateEnum" => message = UpdateEnumRequest
       /\ op = "CreateSnapshot" => message = CreateSnapshotRequest
       /\ op = "ImportSnapshot" => message = ImportSnapshotRequest

Known(route) == Placed(route) /\ Messages(route)

AllKnown(service) == \E S : service \in Seq(S) /\ \A route \in S : Known(route)

LEMMA JoinKnown ==
    ASSUME NEW s, NEW t, AllKnown(s), AllKnown(t)
    PROVE  AllKnown(s \o t)
<1>1. PICK S : s \in Seq(S) /\ \A route \in S : Known(route)
  BY DEF AllKnown
<1>2. PICK T : t \in Seq(T) /\ \A route \in T : Known(route)
  BY DEF AllKnown
<1>3. s \in Seq(S \cup T) /\ t \in Seq(S \cup T)
  BY <1>1, <1>2
<1>4. s \o t \in Seq(S \cup T)
  BY <1>3
<1> QED BY <1>1, <1>2, <1>4 DEF AllKnown

LEMMA AuthKnown == AllKnown(AuthService)
<1>1. AuthService \in Seq({AuthService[i] : i \in 1..4})
  BY DEF AuthService
<1>2. \A i \in 1..4 : Messages(AuthService[i])
  BY DEF AuthService, Route, Messages
<1>3. \A i \in 1..4 : Placed(AuthService[i])
  BY DEF AuthService, Route, Placed, Environment
<1> QED BY <1>1, <1>2, <1>3 DEF AllKnown, Known

LEMMA EnvironmentsKnown == AllKnown(EnvironmentService)
<1>1. EnvironmentService \in Seq({EnvironmentService[i] : i \in 1..6})
  BY DEF EnvironmentService
<1>2. \A i \in 1..6 : Messages(EnvironmentService[i])
  BY DEF EnvironmentService, Route, Messages
<1>3. \A i \in 1..6 : Placed(EnvironmentService[i])
  BY DEF EnvironmentService, Route, Placed, Environment
<1> QED BY <1>1, <1>2, <1>3 DEF AllKnown, Known

LEMMA SetupKnown == AllKnown(SetupService)
<1>1. SetupService \in Seq({SetupService[i] : i \in 1..2})
  BY DEF SetupService
<1>2. \A i \in 1..2 : Messages(SetupService[i])
  BY DEF SetupService, Route, Messages
<1>3. \A i \in 1..2 : Placed(SetupService[i])
  BY DEF SetupService, Route, Placed, Environment
<1> QED BY <1>1, <1>2, <1>3 DEF AllKnown, Known

LEMMA UsersKnown == AllKnown(UserService)
<1>1. UserService \in Seq({UserService[i] : i \in 1..5})
  BY DEF UserService
<1>2. \A i \in 1..5 : Messages(UserService[i])
  BY DEF UserService, Route, Messages
<1>3. \A i \in 1..5 : Placed(UserService[i])
  BY DEF UserService, Route, Placed, Environment
<1> QED BY <1>1, <1>2, <1>3 DEF AllKnown, Known

LEMMA RolesKnown == AllKnown(RoleService)
<1>1. RoleService \in Seq({RoleService[i] : i \in 1..6})
  BY DEF RoleService
<1>2. \A i \in 1..6 : Messages(RoleService[i])
  BY DEF RoleService, Route, Messages
<1>3. \A i \in 1..6 : Placed(RoleService[i])
  BY DEF RoleService, Route, Placed, Environment
<1> QED BY <1>1, <1>2, <1>3 DEF AllKnown, Known

LEMMA ProjectsKnown == AllKnown(ProjectService)
<1>1. ProjectService \in Seq({ProjectService[i] : i \in 1..4})
  BY DEF ProjectService
<1>2. \A i \in 1..4 : Messages(ProjectService[i])
  BY DEF ProjectService, Route, Messages
<1>3. \A i \in 1..4 : Placed(ProjectService[i])
  BY DEF ProjectService, Route, Placed, Environment
<1> QED BY <1>1, <1>2, <1>3 DEF AllKnown, Known

LEMMA ConfigsKnown == AllKnown(ConfigService)
<1>1. ConfigService \in Seq({ConfigService[i] : i \in 1..6})
  BY DEF ConfigService
<1>2. \A i \in 1..6 : Messages(ConfigService[i])
  BY DEF ConfigService, Route, Messages
<1>3. \A i \in 1..6 : Placed(ConfigService[i])
  BY DEF ConfigService, Route, Placed, Environment
<1> QED BY <1>1, <1>2, <1>3 DEF AllKnown, Known

LEMMA StructuresKnown == AllKnown(StructureService)
<1>1. StructureService \in Seq({StructureService[i] : i \in 1..4})
  BY DEF StructureService
<1>2. \A i \in 1..4 : Messages(StructureService[i])
  BY DEF StructureService, Route, Messages
<1>3. \A i \in 1..4 : Placed(StructureService[i])
  BY DEF StructureService, Route, Placed, Environment
<1> QED BY <1>1, <1>2, <1>3 DEF AllKnown, Known

LEMMA EnumsKnown == AllKnown(EnumService)
<1>1. EnumService \in Seq({EnumService[i] : i \in 1..4})
  BY DEF EnumService
<1>2. \A i \in 1..4 : Messages(EnumService[i])
  BY DEF EnumService, Route, Messages
<1>3. \A i \in 1..4 : Placed(EnumService[i])
  BY DEF EnumService, Route, Placed, Environment
<1> QED BY <1>1, <1>2, <1>3 DEF AllKnown, Known

LEMMA SnapshotsKnown == AllKnown(SnapshotService)
<1>1. SnapshotService \in Seq({SnapshotService[i] : i \in 1..8})
  BY DEF SnapshotService
<1>2. \A i \in 1..8 : Messages(SnapshotService[i])
  BY DEF SnapshotService, Route, Messages
<1>3. \A i \in 1..8 : Placed(SnapshotService[i])
  BY DEF SnapshotService, Route, Placed, Environment
<1> QED BY <1>1, <1>2, <1>3 DEF AllKnown, Known

LEMMA PublicationsKnown == AllKnown(PublicationService)
<1>1. PublicationService \in Seq({PublicationService[i] : i \in 1..2})
  BY DEF PublicationService
<1>2. \A i \in 1..2 : Messages(PublicationService[i])
  BY DEF PublicationService, Route, Messages
<1>3. \A i \in 1..2 : Placed(PublicationService[i])
  BY DEF PublicationService, Route, Placed, Environment
<1> QED BY <1>1, <1>2, <1>3 DEF AllKnown, Known

LEMMA AssetsKnown == AllKnown(AssetService)
<1>1. AssetService \in Seq({AssetService[i] : i \in 1..2})
  BY DEF AssetService
<1>2. \A i \in 1..2 : Messages(AssetService[i])
  BY DEF AssetService, Route, Messages
<1>3. \A i \in 1..2 : Placed(AssetService[i])
  BY DEF AssetService, Route, Placed, Environment
<1> QED BY <1>1, <1>2, <1>3 DEF AllKnown, Known

LEMMA ProjectApiKeysKnown == AllKnown(ProjectApiKeyService)
<1>1. ProjectApiKeyService \in Seq({ProjectApiKeyService[i] : i \in 1..4})
  BY DEF ProjectApiKeyService
<1>2. \A i \in 1..4 : Messages(ProjectApiKeyService[i])
  BY DEF ProjectApiKeyService, Route, Messages
<1>3. \A i \in 1..4 : Placed(ProjectApiKeyService[i])
  BY DEF ProjectApiKeyService, Route, Placed, Environment
<1> QED BY <1>1, <1>2, <1>3 DEF AllKnown, Known

LEMMA TransfersKnown == AllKnown(SnapshotTransferService)
<1>1. SnapshotTransferService \in Seq({SnapshotTransferService[i] : i \in 1..2})
  BY DEF SnapshotTransferService
<1>2. \A i \in 1..2 : Messages(SnapshotTransferService[i])
  BY DEF SnapshotTransferService, Route, Messages
<1>3. \A i \in 1..2 : Placed(SnapshotTransferService[i])
  BY DEF SnapshotTransferService, Route, Placed, Environment
<1> QED BY <1>1, <1>2, <1>3 DEF AllKnown, Known

LEMMA RuntimeKnown == AllKnown(Api)
<1>1. Api \in Seq({Api[i] : i \in 1..1})
  BY DEF Api
<1>2. \A i \in 1..1 : Messages(Api[i])
  BY DEF Api, Route, Messages
<1>3. \A i \in 1..1 : Placed(Api[i])
  BY DEF Api, Route, Placed, Environment
<1> QED BY <1>1, <1>2, <1>3 DEF AllKnown, Known

LEMMA RoutesKnown ==
    ASSUME NEW i \in DOMAIN registerHTTP
    PROVE  i \in Nat /\ Placed(registerHTTP[i]) /\ Messages(registerHTTP[i])
<1>1. AllKnown(AuthService \o SetupService \o EnvironmentService \o UserService \o RoleService)
  BY AuthKnown, SetupKnown, EnvironmentsKnown, UsersKnown, RolesKnown, JoinKnown
<1>2. AllKnown(AuthService \o SetupService \o EnvironmentService \o UserService \o RoleService
               \o ProjectService \o ConfigService \o StructureService \o EnumService)
  BY <1>1, ProjectsKnown, ConfigsKnown, StructuresKnown, EnumsKnown, JoinKnown
<1>3. AllKnown(registerHTTP)
  BY <1>2, SnapshotsKnown, PublicationsKnown, AssetsKnown, ProjectApiKeysKnown, TransfersKnown,
     RuntimeKnown, JoinKnown DEF registerHTTP
<1> QED BY <1>3 DEF AllKnown, Known

-----------------------------------------------------------------------------
(* Lemmas about the router and the middleware *)

\* A set of natural numbers that is not empty has a least element.
LEMMA LeastNumber ==
    ASSUME NEW S, S \subseteq Nat, S # {}
    PROVE  \E n \in S : \A m \in S : n <= m
<1>1. PICK n \in S : \A m \in S : ~(<<m, n>> \in OpToRel(<, Nat))
  BY NatLessThanWellFounded, WFMin, Zenon
<1>2. \A m \in S : m < n => <<m, n>> \in OpToRel(<, Nat)
  BY DEF OpToRel
<1>3. \A m \in S : ~(m < n)
  BY <1>1, <1>2, Zenon
<1> QED BY <1>3

\* The route taken has the method and the path that were asked for.
LEMMA DispatchMatches ==
    ASSUME NEW arrival \in Arrivals
    PROVE  /\ arrival[1] \in DOMAIN registerHTTP /\ arrival[2] \in DOMAIN registerHTTP
           /\ Matches(registerHTTP[arrival[2]], registerHTTP[arrival[1]].method,
                      registerHTTP[arrival[1]].path)
<1>1. PICK i \in DOMAIN registerHTTP :
         arrival = <<i, Dispatch(registerHTTP[i].method, registerHTTP[i].path)>>
  BY DEF Arrivals
<1> DEFINE asked == registerHTTP[i]
           Candidates == {j \in DOMAIN registerHTTP : Matches(registerHTTP[j], asked.method, asked.path)}
<1>2. i \in Candidates
  BY DEF Matches, SegmentMatches
<1>3. \E n \in Candidates : \A m \in Candidates : n <= m
  BY <1>2, RoutesKnown, LeastNumber
<1>4. Dispatch(asked.method, asked.path) \in Candidates
  BY <1>3 DEF Dispatch, Min
<1> QED BY <1>1, <1>4

\* What enters the middleware, part by part.
LEMMA DeliveryParts ==
    ASSUME NEW d \in Deliveries
    PROVE  \E arrival \in Arrivals, via \in Transports :
             LET asked == registerHTTP[arrival[1]]
                 route == IF via = "grpc" THEN asked ELSE registerHTTP[arrival[2]]
             IN /\ \E form : d = [asked |-> asked.operation, operation |-> route.operation,
                                  via |-> via, form |-> form, passed |-> {}, now |-> NoTime,
                                  pending |-> Middleware(via, route.operation)]
                /\ via = "grpc" => asked.operation \in registerGRPC
                /\ via # "grpc" => APIPrefix(via, asked.path)
BY DEF Deliveries, Delivered

\* The layers of either server.
LEMMA MiddlewareTyped ==
    ASSUME NEW via, NEW operation
    PROVE  Middleware(via, operation) \in Seq(Layers)
<1>1. /\ <<>> \in Seq(Layers) /\ <<"auth">> \in Seq(Layers)
      /\ <<"admin", "AdminAuth">> \in Seq(Layers) /\ <<"runtime", "APIKey">> \in Seq(Layers)
  BY DEF Layers, Namespaces
<1> QED
  BY <1>1 DEF Middleware, NewHTTPServer, NewGRPCServer

LEMMA DeliveryTyped ==
    ASSUME NEW d \in Deliveries
    PROVE  /\ d \in Requests
           /\ d.passed = {} /\ d.now = NoTime /\ d.pending = Middleware(d.via, d.operation)
<1>1. PICK via \in Transports :
         \E asked, operation, form :
            d = [asked |-> asked, operation |-> operation, via |-> via, form |-> form,
                 passed |-> {}, now |-> NoTime, pending |-> Middleware(via, operation)]
  BY DeliveryParts
<1>2. \A operation : Middleware(via, operation) \in Seq(Layers)
  BY MiddlewareTyped
<1> QED
  BY <1>1, <1>2 DEF Requests

-----------------------------------------------------------------------------
(* Authentication and limits in front of the handlers *)

\* What Protected asks of a request, among the layers given.
Guarded(r, layers) ==
    /\ r.operation \in NeedPrincipal => {"admin", "AdminAuth"} \subseteq layers /\ r.via = "api"
    /\ r.operation \in {"Login", "Refresh", "CreateInitialAdmin"} => "auth" \in layers
    /\ r.operation = "Config" => {"runtime", "APIKey"} \subseteq layers

\* The operations that need a principal are not public, not the runtime read,
\* and their routes are below /admin or /auth.
LEMMA PrincipalRoutes ==
    ASSUME NEW i \in DOMAIN registerHTTP, registerHTTP[i].operation \in NeedPrincipal
    PROVE  /\ registerHTTP[i].path[1] \in {"admin", "auth"}
           /\ ~publicManagementOperation(registerHTTP[i].operation)
           /\ registerHTTP[i].operation # "Config"
<1> DEFINE operation == registerHTTP[i].operation
<1>1. Placed(registerHTTP[i])
  BY RoutesKnown
<1>2. CASE operation = "Me"
  BY <1>1, <1>2 DEF Placed, publicManagementOperation
<1>3. CASE \E j \in DOMAIN registerHTTP :
              registerHTTP[j].path[1] = "admin" /\ operation = registerHTTP[j].operation
  <2>1. PICK j \in DOMAIN registerHTTP :
           registerHTTP[j].path[1] = "admin" /\ operation = registerHTTP[j].operation
    BY <1>3
  <2>2. Placed(registerHTTP[j])
    BY RoutesKnown
  <2> QED BY <1>1, <2>1, <2>2 DEF Placed, publicManagementOperation
<1> QED BY <1>2, <1>3 DEF NeedPrincipal

\* The HTTP server selects the layers each operation needs.
LEMMA HTTPLayers ==
    ASSUME NEW operation
    PROVE  /\ operation # "Config" /\ ~publicManagementOperation(operation) =>
                {"admin", "AdminAuth"} \subseteq Range(NewHTTPServer(operation))
           /\ operation \in {"Login", "Refresh", "CreateInitialAdmin"} =>
                "auth" \in Range(NewHTTPServer(operation))
           /\ operation = "Config" =>
                {"runtime", "APIKey"} \subseteq Range(NewHTTPServer(operation))
<1>1. CASE operation # "Config" /\ ~publicManagementOperation(operation)
  <2>1. NewHTTPServer(operation) = (<<>> \o <<"admin", "AdminAuth">>) \o <<>>
    BY <1>1 DEF NewHTTPServer, publicManagementOperation
  <2> QED BY <1>1, <2>1 DEF Range, publicManagementOperation
<1>2. CASE operation \in {"Login", "Refresh", "CreateInitialAdmin"}
  <2>1. NewHTTPServer(operation) = (<<"auth">> \o <<>>) \o <<>>
    BY <1>2 DEF NewHTTPServer, publicManagementOperation
  <2> QED BY <1>2, <2>1 DEF Range, publicManagementOperation
<1>3. CASE operation = "Config"
  <2>1. NewHTTPServer(operation) = (<<>> \o <<>>) \o <<"runtime", "APIKey">>
    BY <1>3 DEF NewHTTPServer, publicManagementOperation
  <2> QED BY <1>3, <2>1 DEF Range, publicManagementOperation
<1> QED BY <1>1, <1>2, <1>3 DEF publicManagementOperation

\* A request enters the middleware with every layer its operation needs ahead of
\* it: the route that was taken, not the one asked for, selects them, and a path
\* without /api reaches no operation that needs a principal.
LEMMA DeliveryGuarded ==
    ASSUME NEW d \in Deliveries
    PROVE  Guarded(d, Range(d.pending))
<1>1. PICK arrival \in Arrivals, via \in Transports :
         LET asked == registerHTTP[arrival[1]]
             route == IF via = "grpc" THEN asked ELSE registerHTTP[arrival[2]]
         IN /\ d.operation = route.operation /\ d.via = via
            /\ d.pending = Middleware(via, route.operation)
            /\ via = "grpc" => asked.operation \in registerGRPC
            /\ via # "grpc" => APIPrefix(via, asked.path)
  BY DeliveryParts
<1>2. CASE via = "grpc"
  <2>1. d.operation = "Config" /\ arrival[1] \in DOMAIN registerHTTP
    BY <1>1, <1>2, DispatchMatches DEF registerGRPC, Api, Route
  <2>2. "Config" \notin NeedPrincipal
    BY <1>1, <1>2, <2>1, PrincipalRoutes
  <2>3. {"runtime", "APIKey"} \subseteq Range(d.pending)
    BY <1>1, <1>2 DEF Middleware, NewGRPCServer, Range
  <2> QED BY <2>1, <2>2, <2>3 DEF Guarded
<1>3. CASE via # "grpc"
  <2> DEFINE i == arrival[2]
             asked == registerHTTP[arrival[1]]
  <2>1. /\ i \in DOMAIN registerHTTP /\ arrival[1] \in DOMAIN registerHTTP
        /\ d.operation = registerHTTP[i].operation /\ d.via = via
        /\ d.pending = NewHTTPServer(d.operation)
        /\ APIPrefix(via, asked.path)
        /\ Matches(registerHTTP[i], asked.method, asked.path)
    BY <1>1, <1>3, DispatchMatches DEF Middleware
  <2>2. ASSUME d.operation \in NeedPrincipal
        PROVE  via = "api"
    <3>1. registerHTTP[i].path[1] \in {"admin", "auth"}
      BY <2>1, <2>2, PrincipalRoutes
    <3>2. SegmentMatches(registerHTTP[i].path[1], asked.path[1])
      <4>1. Matches(registerHTTP[i], asked.method, asked.path)
        BY <2>1
      <4>2. Placed(asked)
        BY <2>1, RoutesKnown
      <4>3. 1 \in 1..Len(asked.path)
        BY <4>2 DEF Placed
      <4> QED BY <4>1, <4>3 DEF Matches
    <3>3. asked.path[1] \in {"admin", "auth"}
      BY <3>1, <3>2 DEF SegmentMatches, Variables
    <3> QED BY <1>3, <2>1, <3>3 DEF APIPrefix, reservedManagementPath, Transports
  <2> QED BY <2>1, <2>2, PrincipalRoutes, HTTPLayers DEF Guarded
<1> QED BY <1>2, <1>3

-----------------------------------------------------------------------------
(* Types *)

\* A layer lets a request through: it moves from the layers ahead to those passed.
LetThrough(r) ==
    [r EXCEPT !.passed = @ \cup {Head(r.pending)}, !.pending = Tail(@), !.now = NoTime]

LEMMA PassedStep ==
    ASSUME TypeOK, NEW c \in Clients, Pending(c)
    PROVE  LET r == request[c]
               after == LetThrough(r)
           IN /\ r \in Requests /\ after \in Requests
              /\ Passed(c) = [request EXCEPT ![c] = after]
              /\ after.operation = r.operation /\ after.via = r.via /\ after.now = NoTime
              /\ after.passed \cup Range(after.pending) = r.passed \cup Range(r.pending)
<1> DEFINE r == request[c]
           after == LetThrough(r)
<1>1. r \in Requests /\ r.pending # <<>> /\ r.pending \in Seq(Layers)
  BY DEF TypeOK, Pending, Requests
<1>2. Head(r.pending) \in Layers /\ Tail(r.pending) \in Seq(Layers)
  BY <1>1
<1>3. after \in Requests
  BY <1>1, <1>2 DEF LetThrough, Requests
<1>4. Passed(c) = [request EXCEPT ![c] = after]
  BY <1>1 DEF Passed, LetThrough, TypeOK, Requests
<1>5. Range(r.pending) = {Head(r.pending)} \cup Range(Tail(r.pending))
  <2>1. ASSUME NEW i \in DOMAIN r.pending
        PROVE  r.pending[i] \in {Head(r.pending)} \cup Range(Tail(r.pending))
    <3>1. CASE i = 1
      BY <1>1, <3>1
    <3>2. CASE i # 1
      <4>1. i - 1 \in DOMAIN Tail(r.pending) /\ Tail(r.pending)[i - 1] = r.pending[i]
        BY <1>1, <2>1, <3>2
      <4> QED BY <4>1 DEF Range
    <3> QED BY <3>1, <3>2
  <2>2. ASSUME NEW i \in DOMAIN Tail(r.pending)
        PROVE  Tail(r.pending)[i] \in Range(r.pending)
    <3>1. i + 1 \in DOMAIN r.pending /\ Tail(r.pending)[i] = r.pending[i + 1]
      BY <1>1, <2>2
    <3> QED BY <3>1 DEF Range
  <2>3. Head(r.pending) \in Range(r.pending)
    BY <1>1 DEF Range
  <2> QED BY <2>1, <2>2, <2>3 DEF Range
<1>6. after.passed = r.passed \cup {Head(r.pending)} /\ after.pending = Tail(r.pending)
  BY <1>1 DEF LetThrough, Requests
<1>7. after.operation = r.operation /\ after.via = r.via /\ after.now = NoTime
  BY <1>1 DEF LetThrough, Requests
<1> QED BY <1>1, <1>3, <1>4, <1>5, <1>6, <1>7

\* A step of a client changes its own request: a new one, one that ends, one
\* that reads the time, or one that a layer lets through.
RequestStep(c) ==
    \/ \E d \in Deliveries : request[c] = NoRequest /\ request' = [request EXCEPT ![c] = d]
    \/ request' = Ended(c)
    \/ /\ Pending(c) /\ Head(request[c].pending) \in Namespaces
       /\ request' = [request EXCEPT ![c].now = clock]
    \/ Pending(c) /\ request' = Passed(c)

LEMMA RequestSteps ==
    ASSUME [Next]_vars
    PROVE  request' = request \/ \E c \in Clients : RequestStep(c)
<1>1. ASSUME NEW c \in Clients,
             \/ \E d \in Deliveries : Send(c, d)
             \/ ReadClock(c) \/ RateLimit(c) \/ Unavailable(c) \/ Handle(c)
             \/ \E token, user : AdminAuth(c, token, user)
             \/ \E keys : APIKey(c, keys)
      PROVE  RequestStep(c)
  BY <1>1 DEF RequestStep, Send, ReadClock, RateLimit, Unavailable, Handle, AdminAuth, APIKey,
              InMiddleware
<1> QED BY <1>1 DEF Next, Tick, vars

LEMMA RequestsTyped ==
    ASSUME TypeOK, [Next]_vars
    PROVE  request' \in [Clients -> Requests \cup {NoRequest}]
<1>1. CASE request' = request
  BY <1>1 DEF TypeOK
<1>2. ASSUME NEW c \in Clients, RequestStep(c)
      PROVE  request' \in [Clients -> Requests \cup {NoRequest}]
  <2>1. CASE \E d \in Deliveries : request' = [request EXCEPT ![c] = d]
    BY <2>1, DeliveryTyped DEF TypeOK
  <2>2. CASE request' = Ended(c)
    BY <2>2 DEF Ended, TypeOK
  <2>3. CASE Pending(c) /\ request' = [request EXCEPT ![c].now = clock]
    <3>1. request[c] \in Requests
      BY <2>3 DEF Pending, TypeOK
    <3>2. [request[c] EXCEPT !.now = clock] \in Requests
      BY <3>1 DEF Requests, TypeOK
    <3> QED BY <2>3, <3>2 DEF TypeOK
  <2>4. CASE Pending(c) /\ request' = Passed(c)
    BY <2>4, PassedStep DEF TypeOK
  <2> QED BY <1>2, <2>1, <2>2, <2>3, <2>4 DEF RequestStep
<1> QED BY <1>1, <1>2, RequestSteps

\* The counters, the history and the bounds keep their shapes.
LEMMA CountersTyped ==
    ASSUME TypeOK, [Next]_vars
    PROVE  /\ clock' \in 0..MaxClock /\ sent' \in 0..MaxRequests
           /\ counter' \in [Namespaces -> [count : Nat, expires : Nat]]
           /\ admitted' \in [Namespaces -> Seq(0..MaxClock)]
<1>1. ASSUME NEW c \in Clients, RateLimit(c)
      PROVE  /\ clock' \in 0..MaxClock /\ sent' \in 0..MaxRequests
             /\ counter' \in [Namespaces -> [count : Nat, expires : Nat]]
             /\ admitted' \in [Namespaces -> Seq(0..MaxClock)]
  <2> DEFINE n == Head(request[c].pending)
             entry == Increment(counter[n], request[c].now)
  <2>1. n \in Namespaces /\ request[c] \in Requests /\ request[c].now # NoTime
    BY <1>1 DEF RateLimit, InMiddleware, Pending, TypeOK
  <2>2. request[c].now \in Nat
    BY <2>1, GatewayAssumption DEF Requests
  <2>3. counter[n] \in [count : Nat, expires : Nat]
    BY <2>1 DEF TypeOK
  <2>4. entry \in [count : Nat, expires : Nat]
    BY <2>2, <2>3, GatewayAssumption DEF Increment
  <2>5. counter' = [counter EXCEPT ![n] = entry]
    BY <1>1 DEF RateLimit
  <2>6. admitted' = [admitted EXCEPT ![n] = Append(@, clock)] \/ admitted' = admitted
    BY <1>1 DEF RateLimit
  <2>7. clock' = clock /\ sent' = sent
    BY <1>1 DEF RateLimit
  <2> HIDE DEF n, entry
  <2>8. counter' \in [Namespaces -> [count : Nat, expires : Nat]]
    BY <2>1, <2>4, <2>5 DEF TypeOK
  <2>9. admitted' \in [Namespaces -> Seq(0..MaxClock)]
    <3>1. admitted[n] \in Seq(0..MaxClock) /\ clock \in 0..MaxClock
      BY <2>1 DEF TypeOK
    <3>2. Append(admitted[n], clock) \in Seq(0..MaxClock)
      BY <3>1
    <3> QED BY <2>6, <3>2 DEF TypeOK
  <2> QED BY <2>7, <2>8, <2>9 DEF TypeOK
<1>2. ASSUME NEW c \in Clients,
             \/ \E d \in Deliveries : Send(c, d)
             \/ ReadClock(c) \/ Unavailable(c) \/ Handle(c)
             \/ \E token, user : AdminAuth(c, token, user)
             \/ \E keys : APIKey(c, keys)
      PROVE  /\ clock' = clock /\ counter' = counter /\ admitted' = admitted
             /\ sent' \in 0..MaxRequests
  BY <1>2, GatewayAssumption
     DEF Send, ReadClock, Unavailable, Handle, AdminAuth, APIKey, TypeOK
<1>3. CASE Tick
  BY <1>3, GatewayAssumption DEF Tick, TypeOK
<1>4. CASE UNCHANGED vars
  BY <1>4 DEF vars, TypeOK
<1> QED BY <1>1, <1>2, <1>3, <1>4 DEF Next, TypeOK

\* Requests, clock, counters and history keep their shapes.
THEOREM GatewayTypeCorrect == Spec => []TypeOK
<1>1. Init => TypeOK
  BY GatewayAssumption DEF Init, TypeOK, NoEntry
<1>2. TypeOK /\ [Next]_vars => TypeOK'
  BY RequestsTyped, CountersTyped DEF TypeOK
<1> QED BY <1>1, <1>2, PTL DEF Spec

\* The layers ahead of a request and those it passed are all its operation needs.
Armed ==
    \A c \in Clients : request[c] # NoRequest =>
        Guarded(request[c], request[c].passed \cup Range(request[c].pending))

LEMMA NextArmed == TypeOK /\ Armed /\ [Next]_vars => Armed'
<1> SUFFICES ASSUME TypeOK, Armed, [Next]_vars
             PROVE  Armed'
  OBVIOUS
<1>1. CASE request' = request
  BY <1>1 DEF Armed, Guarded
<1>2. ASSUME NEW c \in Clients, RequestStep(c), request'[c] # NoRequest
      PROVE  Guarded(request'[c], request'[c].passed \cup Range(request'[c].pending))
  <2>1. ASSUME NEW d \in Deliveries, request' = [request EXCEPT ![c] = d]
        PROVE  Guarded(request'[c], request'[c].passed \cup Range(request'[c].pending))
    <3>1. request'[c] = d /\ d.passed = {}
      BY <2>1, DeliveryTyped DEF TypeOK
    <3> QED BY <3>1, DeliveryGuarded
  <2>2. CASE request' = Ended(c)
    BY <1>2, <2>2 DEF Ended, TypeOK
  <2>3. CASE Pending(c) /\ request' = [request EXCEPT ![c].now = clock]
    <3>1. request[c] \in Requests /\ request[c] # NoRequest
      BY <2>3 DEF Pending, TypeOK
    <3>2. /\ request'[c].operation = request[c].operation /\ request'[c].via = request[c].via
          /\ request'[c].passed = request[c].passed /\ request'[c].pending = request[c].pending
      BY <2>3, <3>1 DEF TypeOK, Requests
    <3> QED BY <3>1, <3>2 DEF Armed, Guarded
  <2>4. CASE Pending(c) /\ request' = Passed(c)
    <3>1. request[c] \in Requests /\ request[c] # NoRequest
      BY <2>4 DEF Pending, TypeOK
    <3>2. /\ request'[c].operation = request[c].operation /\ request'[c].via = request[c].via
          /\ request'[c].passed \cup Range(request'[c].pending)
                = request[c].passed \cup Range(request[c].pending)
      <4> DEFINE r == request[c]
                 after == LetThrough(r)
      <4>1. /\ Passed(c) = [request EXCEPT ![c] = after]
            /\ after.operation = r.operation /\ after.via = r.via
            /\ after.passed \cup Range(after.pending) = r.passed \cup Range(r.pending)
        BY <2>4, PassedStep
      <4>2. request'[c] = after
        BY <2>4, <4>1 DEF TypeOK
      <4> QED BY <4>1, <4>2
    <3> QED BY <3>1, <3>2 DEF Armed, Guarded
  <2> QED BY <1>2, <2>1, <2>2, <2>3, <2>4 DEF RequestStep
<1>3. ASSUME NEW c \in Clients, RequestStep(c), NEW b \in Clients \ {c}
      PROVE  request'[b] = request[b]
  BY <1>3 DEF RequestStep, Ended, Passed, TypeOK
<1> QED BY <1>1, <1>2, <1>3, RequestSteps DEF Armed, Guarded

\* No handler runs for a caller that did not pass what its operation needs: the
\* administrator's authentication and limit below /admin and only under /api,
\* the limit of logging in, the key and the limit of a runtime read.  For any
\* number of requests, whichever route the router takes for the path asked for.
THEOREM HandlersProtected == Spec => []Protected
<1>1. Init => Armed
  BY DEF Init, Armed
<1>2. TypeOK /\ Armed => Protected
  <2> SUFFICES ASSUME TypeOK, Armed, NEW c \in Clients, Handling(c)
               PROVE  Guarded(request[c], request[c].passed)
    BY DEF Protected, Guarded
  <2>1. request[c] # NoRequest /\ request[c].pending = <<>>
    BY DEF Handling
  <2>2. Range(request[c].pending) = {}
    BY <2>1 DEF Range
  <2> QED BY <2>1, <2>2 DEF Armed
<1> QED BY <1>1, <1>2, NextArmed, GatewayTypeCorrect, PTL DEF Spec

-----------------------------------------------------------------------------
(* What the handlers receive *)

\* The columns the handlers of an operation write.
LEMMA HandlersTable ==
    /\ DOMAIN Handlers =
         {"CreateEnvironment", "UpdateEnvironment", "CreateUser", "UpdateUser", "CreateInitialAdmin",
          "CreateRole", "UpdateRole", "CreateProject", "UpdateProject", "CreateProjectApiKey",
          "CreateConfig", "UpdateConfig", "CreateStructure", "UpdateStructure", "CreateEnum",
          "UpdateEnum", "CreateSnapshot", "ImportSnapshot"}
    /\ Handlers.CreateEnvironment = environments
    /\ Handlers.UpdateEnvironment = NamesOf(environments)
    /\ Handlers.CreateUser = users
    /\ Handlers.UpdateUser = [display_name |-> users.display_name]
    /\ Handlers.CreateInitialAdmin = users
    /\ Handlers.CreateRole = roles
    /\ Handlers.UpdateRole = NamesOf(roles)
    /\ Handlers.CreateProject = projects
    /\ Handlers.UpdateProject = NamesOf(projects)
    /\ Handlers.CreateProjectApiKey = project_api_keys
    /\ Handlers.CreateConfig = configs
    /\ Handlers.UpdateConfig = [description |-> configs.description]
    /\ Handlers.CreateStructure = structures
    /\ Handlers.UpdateStructure = structures
    /\ Handlers.CreateEnum = config_enums
    /\ Handlers.UpdateEnum = config_enums
    /\ Handlers.CreateSnapshot = snapshots
    /\ Handlers.ImportSnapshot = snapshots ++ import_records
<1> DEFINE first == EnvironmentHandlers ++ UserHandlers ++ SetupHandlers ++ RoleHandlers
           second == first ++ ProjectHandlers ++ APIKeyHandlers ++ ConfigHandlers
<1>2. /\ DOMAIN first = {"CreateEnvironment", "UpdateEnvironment", "CreateUser", "UpdateUser",
                         "CreateInitialAdmin", "CreateRole", "UpdateRole"}
      /\ first["CreateEnvironment"] = environments
      /\ first["UpdateEnvironment"] = NamesOf(environments)
      /\ first["CreateUser"] = users
      /\ first["UpdateUser"] = [display_name |-> users.display_name]
      /\ first["CreateInitialAdmin"] = users
      /\ first["CreateRole"] = roles
      /\ first["UpdateRole"] = NamesOf(roles)
  BY DEF ++, EnvironmentHandlers, UserHandlers, SetupHandlers, RoleHandlers
<1> HIDE DEF first
<1>3. /\ DOMAIN second = DOMAIN first \cup
           {"CreateProject", "UpdateProject", "CreateProjectApiKey", "CreateConfig", "UpdateConfig"}
      /\ \A op \in DOMAIN first : second[op] = first[op]
      /\ second["CreateProject"] = projects
      /\ second["UpdateProject"] = NamesOf(projects)
      /\ second["CreateProjectApiKey"] = project_api_keys
      /\ second["CreateConfig"] = configs
      /\ second["UpdateConfig"] = [description |-> configs.description]
  BY <1>2 DEF ++, ProjectHandlers, APIKeyHandlers, ConfigHandlers
<1>4. Handlers = second ++ StructureHandlers ++ EnumHandlers ++ SnapshotHandlers ++ ImportHandlers
  BY DEF Handlers, first
<1> HIDE DEF second
<1>5. /\ DOMAIN Handlers = DOMAIN second \cup
           {"CreateStructure", "UpdateStructure", "CreateEnum", "UpdateEnum", "CreateSnapshot",
            "ImportSnapshot"}
      /\ \A op \in DOMAIN second : Handlers[op] = second[op]
      /\ Handlers["CreateStructure"] = structures
      /\ Handlers["UpdateStructure"] = structures
      /\ Handlers["CreateEnum"] = config_enums
      /\ Handlers["UpdateEnum"] = config_enums
      /\ Handlers["CreateSnapshot"] = snapshots
      /\ Handlers["ImportSnapshot"] = snapshots ++ import_records
  BY <1>2, <1>3, <1>4 DEF ++, StructureHandlers, EnumHandlers, SnapshotHandlers, ImportHandlers
<1> QED BY <1>2, <1>3, <1>5

\* A rule by its bounds, for a field that has to be given.
Bounds(rule, low, high, shaped) ==
    rule.min = low /\ rule.max = high /\ rule.shaped = shaped /\ rule.optional = FALSE

LEMMA RuleBounds ==
    /\ \A low, high : Bounds(Runes(low, high), low, high, FALSE)
    /\ \A low, high : Bounds(Bytes(low, high), low, high, FALSE)
    /\ Bounds(Key, 1, 64, TRUE)
    /\ Bounds(Name, 1, 64, FALSE)
    /\ Bounds(Description, 0, 255, FALSE)
BY DEF Bounds, Runes, Bytes, Rule, Key, Name, Description, Shaped

\* A field's rule keeps what it accepts within its column.
ColumnFits(message, field, column) ==
    /\ field \in DOMAIN message
    /\ message[field].min \in Nat /\ message[field].max \in Nat /\ column \in Nat
    /\ message[field].optional = FALSE
    /\ message[field].max <= column

\* Every field a handler stores fits its column, operation by operation.
LEMMA ColumnsFit ==
    ASSUME NEW i \in DOMAIN registerHTTP, registerHTTP[i].operation \in DOMAIN Handlers,
           NEW field \in DOMAIN Handlers[registerHTTP[i].operation]
    PROVE  ColumnFits(registerHTTP[i].message, field, Handlers[registerHTTP[i].operation][field])
<1> DEFINE op == registerHTTP[i].operation
           message == registerHTTP[i].message
<1>0. Messages(registerHTTP[i])
  BY RoutesKnown
<1>1. CASE op = "CreateEnvironment"
  <2>1. message = CreateEnvironmentRequest
    BY <1>0, <1>1 DEF Messages
  <2> QED BY <1>1, <2>1, HandlersTable, RuleBounds
          DEF ColumnFits, Bounds, CreateEnvironmentRequest, environments
<1>2. CASE op = "UpdateEnvironment"
  <2>1. message = UpdateEnvironmentRequest
    BY <1>0, <1>2 DEF Messages
  <2> QED BY <1>2, <2>1, HandlersTable, RuleBounds
          DEF ColumnFits, Bounds, UpdateEnvironmentRequest, NamesOf, environments
<1>3. CASE op = "CreateUser"
  <2>1. message = CreateUserRequest
    BY <1>0, <1>3 DEF Messages
  <2> QED BY <1>3, <2>1, HandlersTable, RuleBounds
          DEF ColumnFits, Bounds, CreateUserRequest, users
<1>4. CASE op = "UpdateUser"
  <2>1. message = UpdateUserRequest
    BY <1>0, <1>4 DEF Messages
  <2> QED BY <1>4, <2>1, HandlersTable, RuleBounds
          DEF ColumnFits, Bounds, UpdateUserRequest, users
<1>5. CASE op = "CreateInitialAdmin"
  <2>1. message = CreateInitialAdminRequest
    BY <1>0, <1>5 DEF Messages
  <2> QED BY <1>5, <2>1, HandlersTable, RuleBounds
          DEF ColumnFits, Bounds, CreateInitialAdminRequest, users
<1>6. CASE op = "CreateRole"
  <2>1. message = CreateRoleRequest
    BY <1>0, <1>6 DEF Messages
  <2> QED BY <1>6, <2>1, HandlersTable, RuleBounds
          DEF ColumnFits, Bounds, CreateRoleRequest, roles
<1>7. CASE op = "UpdateRole"
  <2>1. message = UpdateRoleRequest
    BY <1>0, <1>7 DEF Messages
  <2> QED BY <1>7, <2>1, HandlersTable, RuleBounds
          DEF ColumnFits, Bounds, UpdateRoleRequest, NamesOf, roles
<1>8. CASE op = "CreateProject"
  <2>1. message = CreateProjectRequest
    BY <1>0, <1>8 DEF Messages
  <2> QED BY <1>8, <2>1, HandlersTable, RuleBounds
          DEF ColumnFits, Bounds, CreateProjectRequest, projects
<1>9. CASE op = "UpdateProject"
  <2>1. message = UpdateProjectRequest
    BY <1>0, <1>9 DEF Messages
  <2> QED BY <1>9, <2>1, HandlersTable, RuleBounds
          DEF ColumnFits, Bounds, UpdateProjectRequest, NamesOf, projects
<1>10. CASE op = "CreateProjectApiKey"
  <2>1. message = CreateProjectApiKeyRequest
    BY <1>0, <1>10 DEF Messages
  <2> QED BY <1>10, <2>1, HandlersTable, RuleBounds
          DEF ColumnFits, Bounds, CreateProjectApiKeyRequest, project_api_keys
<1>11. CASE op = "CreateConfig"
  <2>1. message = CreateConfigRequest
    BY <1>0, <1>11 DEF Messages
  <2> QED BY <1>11, <2>1, HandlersTable, RuleBounds
          DEF ColumnFits, Bounds, CreateConfigRequest, configs
<1>12. CASE op = "UpdateConfig"
  <2>1. message = UpdateConfigRequest
    BY <1>0, <1>12 DEF Messages
  <2> QED BY <1>12, <2>1, HandlersTable, RuleBounds
          DEF ColumnFits, Bounds, UpdateConfigRequest, configs
<1>13. CASE op = "CreateStructure"
  <2>1. message = CreateStructureRequest
    BY <1>0, <1>13 DEF Messages
  <2> QED BY <1>13, <2>1, HandlersTable, RuleBounds
          DEF ColumnFits, Bounds, CreateStructureRequest, structures
<1>14. CASE op = "UpdateStructure"
  <2>1. message = UpdateStructureRequest
    BY <1>0, <1>14 DEF Messages
  <2> QED BY <1>14, <2>1, HandlersTable, RuleBounds
          DEF ColumnFits, Bounds, UpdateStructureRequest, structures
<1>15. CASE op = "CreateEnum"
  <2>1. message = CreateEnumRequest
    BY <1>0, <1>15 DEF Messages
  <2> QED BY <1>15, <2>1, HandlersTable, RuleBounds
          DEF ColumnFits, Bounds, CreateEnumRequest, config_enums, ++
<1>16. CASE op = "UpdateEnum"
  <2>1. message = UpdateEnumRequest
    BY <1>0, <1>16 DEF Messages
  <2> QED BY <1>16, <2>1, HandlersTable, RuleBounds
          DEF ColumnFits, Bounds, UpdateEnumRequest, config_enums, ++
<1>17. CASE op = "CreateSnapshot"
  <2>1. message = CreateSnapshotRequest
    BY <1>0, <1>17 DEF Messages
  <2> QED BY <1>17, <2>1, HandlersTable, RuleBounds
          DEF ColumnFits, Bounds, CreateSnapshotRequest, snapshots
<1>18. CASE op = "ImportSnapshot"
  <2>1. message = ImportSnapshotRequest
    BY <1>0, <1>18 DEF Messages
  <2> QED BY <1>18, <2>1, HandlersTable, RuleBounds
          DEF ColumnFits, Bounds, ImportSnapshotRequest, snapshots, import_records, ++
<1> QED BY HandlersTable, <1>1, <1>2, <1>3, <1>4, <1>5, <1>6, <1>7, <1>8, <1>9, <1>10, <1>11, <1>12,
           <1>13, <1>14, <1>15, <1>16, <1>17, <1>18

\* What is given again is bounded where it is used no more than where it was stored.
BackFits(message, field, rule) ==
    /\ field \in DOMAIN message
    /\ message[field].min \in Nat \ {0} /\ message[field].max \in Nat
    /\ message[field].optional = FALSE
    /\ rule.min \in 0..1 /\ rule.max \in Nat /\ message[field].max <= rule.max
    /\ rule.shaped = FALSE

LEMMA ComesBackFits ==
    ASSUME NEW i \in DOMAIN registerHTTP, NEW back \in ComesBack,
           back[1] = registerHTTP[i].operation
    PROVE  BackFits(registerHTTP[i].message, back[2], back[3])
<1>0. Messages(registerHTTP[i])
  BY RoutesKnown
<1>1. /\ \A low, high : Optional(Runes(low, high)).min = low /\ Optional(Runes(low, high)).max = high
      /\ \A low, high : Optional(Runes(low, high)).shaped = FALSE
  BY DEF Optional, Runes, Rule
<1>2. CASE back[1] = "CreateProject"
  BY <1>0, <1>1, <1>2, RuleBounds
     DEF Messages, ComesBack, BackFits, Bounds, CreateProjectRequest, ConfigRequest, ListConfigRequest
<1>3. CASE back[1] = "CreateConfig"
  BY <1>0, <1>1, <1>3, RuleBounds
     DEF Messages, ComesBack, BackFits, Bounds, CreateConfigRequest, ConfigRequest, ListConfigRequest
<1>4. CASE back[1] = "CreateUser"
  BY <1>0, <1>4, RuleBounds
     DEF Messages, ComesBack, BackFits, Bounds, CreateUserRequest, LoginRequest
<1>5. CASE back[1] = "CreateInitialAdmin"
  BY <1>0, <1>5, RuleBounds
     DEF Messages, ComesBack, BackFits, Bounds, CreateInitialAdminRequest, LoginRequest
<1>6. CASE back[1] = "UpdateUserPassword"
  BY <1>0, <1>6, RuleBounds
     DEF Messages, ComesBack, BackFits, Bounds, UpdateUserPasswordRequest, LoginRequest
<1> QED BY <1>2, <1>3, <1>4, <1>5, <1>6 DEF ComesBack

\* The values a varying field takes.
Values == [given : BOOLEAN, size : Nat, shaped : BOOLEAN, trimmed : BOOLEAN]

\* The field that varies in a request was accepted by the rules of the route taken,
\* and by the handler if that checks it itself.
LEMMA DeliveryForm ==
    ASSUME NEW d \in Deliveries, d.form # <<>>
    PROVE  \E i \in DOMAIN registerHTTP, value \in Values :
             /\ d.operation = registerHTTP[i].operation
             /\ d.form = <<d.form[1], value>>
             /\ d.form[1] \in DOMAIN registerHTTP[i].message =>
                  AcceptsField(registerHTTP[i].message[d.form[1]], value)
             /\ d.operation = "CreateInitialAdmin" /\ d.form[1] = "username" => value.trimmed
<1>1. PICK arrival \in Arrivals, via \in Transports, origin \in {"own", "other"} :
         d \in Delivered(arrival, via, origin)
  BY DEF Deliveries
<1> DEFINE asked == registerHTTP[arrival[1]]
           i == IF via = "grpc" THEN arrival[1] ELSE arrival[2]
<1>2. i \in DOMAIN registerHTTP
  BY DispatchMatches
<1>3. PICK form \in Forms(asked.message) :
         /\ d.operation = registerHTTP[i].operation
         /\ d.form = Stored(registerHTTP[i].operation, form)
         /\ validateRequest(registerHTTP[i].message, form)
  BY <1>1 DEF Delivered
<1>4. d.form = form /\ validateInitialAdmin(registerHTTP[i].operation, form)
  BY <1>3 DEF Stored
<1>5. PICK field \in DOMAIN asked.message : form \in {field} \X EdgeValues(asked.message[field])
  BY <1>3, <1>4 DEF Forms
<1>6. EdgeValues(asked.message[field]) \subseteq Values
  <2> DEFINE rule == asked.message[field]
  <2>1. EdgeSizes(rule) \subseteq Nat
    BY UnboundedAssumption DEF EdgeSizes
  <2> DEFINE shapes == IF rule.shaped THEN BOOLEAN ELSE {FALSE}
             trims == IF rule.unit \in {"runes", "bytes"} /\ ~rule.shaped THEN BOOLEAN ELSE {TRUE}
  <2>2. shapes \subseteq BOOLEAN /\ trims \subseteq BOOLEAN /\ {TRUE} \subseteq BOOLEAN
    OBVIOUS
  <2>3. [given : {TRUE}, size : EdgeSizes(rule), shaped : shapes, trimmed : trims] \subseteq Values
    <3> HIDE DEF shapes, trims
    <3> QED BY <2>1, <2>2 DEF Values
  <2>4. [given : {FALSE}, size : {0}, shaped : {FALSE}, trimmed : {TRUE}] \subseteq Values
    <3>1. {FALSE} \subseteq BOOLEAN /\ {0} \subseteq Nat
      OBVIOUS
    <3> QED BY <2>2, <3>1, Zenon DEF Values
  <2> QED BY <2>3, <2>4 DEF EdgeValues
<1>7. form = <<field, form[2]>> /\ form[1] = field /\ form[2] \in Values
  BY <1>5, <1>6
<1>8. field \in DOMAIN registerHTTP[i].message =>
        AcceptsField(registerHTTP[i].message[field], form[2])
  BY <1>3, <1>4, <1>7 DEF validateRequest
<1>9. d.operation = registerHTTP[i].operation /\ d.form[1] = field /\ d.form = <<field, form[2]>>
  BY <1>3, <1>4, <1>7
<1>10. d.operation = "CreateInitialAdmin" /\ field = "username" => form[2].trimmed
  BY <1>4, <1>7, <1>9 DEF validateInitialAdmin
<1> HIDE DEF i
<1> QED BY <1>2, <1>7, <1>8, <1>9, <1>10

\* A length in characters is at most the length in bytes, and not zero when that is not.
LEMMA CharactersWithin ==
    ASSUME NEW op, NEW field, NEW size \in Nat, NEW length \in Characters(op, field, size)
    PROVE  length \in Nat /\ length <= size /\ (size >= 1 => length >= 1)
BY DEF Characters

\* What InputsFit asks of the field that varies.
FormFits(op, form) ==
    LET field == form[1]
        value == form[2]
    IN \A length \in Characters(op, field, value.size) :
         /\ op \in DOMAIN Handlers /\ field \in DOMAIN Handlers[op] => length <= Handlers[op][field]
         /\ \A back \in ComesBack : back[1] = op /\ back[2] = field =>
              AcceptsField(back[3], [value EXCEPT !.size = length])
         /\ <<op, field>> \in TrimmedBack => value.trimmed

LEMMA DeliveryFits ==
    ASSUME NEW d \in Deliveries, d.form # <<>>
    PROVE  FormFits(d.operation, d.form)
<1> DEFINE field == d.form[1]
<1>1. PICK i \in DOMAIN registerHTTP, value \in Values :
         /\ d.operation = registerHTTP[i].operation
         /\ d.form = <<field, value>>
         /\ field \in DOMAIN registerHTTP[i].message =>
              AcceptsField(registerHTTP[i].message[field], value)
         /\ d.operation = "CreateInitialAdmin" /\ field = "username" => value.trimmed
  BY DeliveryForm
<1> DEFINE op == registerHTTP[i].operation
           rule == registerHTTP[i].message[field]
<1>2. ASSUME NEW length \in Characters(op, field, value.size)
      PROVE  length \in Nat /\ length <= value.size /\ (value.size >= 1 => length >= 1)
  BY <1>2, CharactersWithin DEF Values
<1>3. ASSUME NEW length \in Characters(op, field, value.size),
             op \in DOMAIN Handlers, field \in DOMAIN Handlers[op]
      PROVE  length <= Handlers[op][field]
  <2>1. ColumnFits(registerHTTP[i].message, field, Handlers[op][field])
    BY <1>3, ColumnsFit
  <2>2. AcceptsField(rule, value)
    BY <1>1, <2>1 DEF ColumnFits
  <2>3. value.size \in Nat /\ value.size <= rule.max
    BY <2>1, <2>2 DEF AcceptsField, ColumnFits, Values
  <2> QED BY <1>2, <2>1, <2>3 DEF ColumnFits
<1>4. ASSUME NEW length \in Characters(op, field, value.size),
             NEW back \in ComesBack, back[1] = op, back[2] = field
      PROVE  AcceptsField(back[3], [value EXCEPT !.size = length])
  <2>1. BackFits(registerHTTP[i].message, field, back[3])
    BY <1>4, ComesBackFits
  <2>2. AcceptsField(rule, value)
    BY <1>1, <2>1 DEF BackFits
  <2>3. value.size \in Nat /\ rule.min <= value.size /\ value.size <= rule.max
    BY <2>1, <2>2 DEF AcceptsField, BackFits, Values
  <2>4. [value EXCEPT !.size = length].size = length
    BY DEF Values
  <2>5. back[3].min <= length /\ length <= back[3].max
    BY <1>2, <2>1, <2>3 DEF BackFits
  <2> QED BY <2>1, <2>4, <2>5 DEF AcceptsField, BackFits
<1>5. <<op, field>> \in TrimmedBack => value.trimmed
  BY <1>1 DEF TrimmedBack
<1> QED BY <1>1, <1>3, <1>4, <1>5 DEF FormFits

\* A request keeps the operation and the field it was delivered with.
Carried ==
    \A c \in Clients : request[c] # NoRequest =>
        \E d \in Deliveries : request[c].operation = d.operation /\ request[c].form = d.form

LEMMA NextCarried == TypeOK /\ Carried /\ [Next]_vars => Carried'
<1> SUFFICES ASSUME TypeOK, Carried, [Next]_vars
             PROVE  Carried'
  OBVIOUS
<1>1. CASE request' = request
  BY <1>1 DEF Carried
<1>2. ASSUME NEW c \in Clients, RequestStep(c), request'[c] # NoRequest
      PROVE  \E d \in Deliveries : request'[c].operation = d.operation /\ request'[c].form = d.form
  <2>1. CASE \E d \in Deliveries : request' = [request EXCEPT ![c] = d]
    BY <2>1 DEF TypeOK
  <2>2. CASE request' = Ended(c)
    BY <1>2, <2>2 DEF Ended, TypeOK
  <2>3. CASE Pending(c) /\ request' = [request EXCEPT ![c].now = clock]
    <3>1. request[c] \in Requests /\ request[c] # NoRequest
      BY <2>3 DEF Pending, TypeOK
    <3>2. request'[c].operation = request[c].operation /\ request'[c].form = request[c].form
      BY <2>3, <3>1 DEF TypeOK, Requests
    <3> QED BY <3>1, <3>2 DEF Carried
  <2>4. CASE Pending(c) /\ request' = Passed(c)
    <3>1. request[c] \in Requests /\ request[c] # NoRequest
      BY <2>4 DEF Pending, TypeOK
    <3>2. request'[c] = LetThrough(request[c])
      BY <2>4, PassedStep DEF TypeOK
    <3>3. request'[c].operation = request[c].operation /\ request'[c].form = request[c].form
      BY <3>1, <3>2 DEF LetThrough, Requests
    <3> QED BY <3>1, <3>3 DEF Carried
  <2> QED BY <1>2, <2>1, <2>2, <2>3, <2>4 DEF RequestStep
<1>3. ASSUME NEW c \in Clients, RequestStep(c), NEW b \in Clients \ {c}
      PROVE  request'[b] = request[b]
  BY <1>3 DEF RequestStep, Ended, Passed, TypeOK
<1> QED BY <1>1, <1>2, <1>3, RequestSteps DEF Carried

\* What the handlers store fits its columns, in characters also where the rule
\* counts bytes, and keys, passwords and the first administrator's name, given
\* again to be used, pass the rules there and Login's trim: from the rules, columns
\* and checks of all operations.
THEOREM InputsAlwaysFit == Spec => []InputsFit
<1>1. Init => Carried
  BY DEF Init, Carried
<1>2. Carried => InputsFit
  <2> SUFFICES ASSUME Carried, NEW c \in Clients, Handling(c), request[c].form # <<>>
               PROVE  FormFits(request[c].operation, request[c].form)
    BY DEF InputsFit, FormFits
  <2>1. PICK d \in Deliveries : request[c].operation = d.operation /\ request[c].form = d.form
    BY DEF Handling, Carried
  <2> QED BY <2>1, DeliveryFits
<1> QED BY <1>1, <1>2, NextCarried, GatewayTypeCorrect, PTL DEF Spec

-----------------------------------------------------------------------------
(* The rate limit *)

\* How the times at which requests passed lie with respect to the windows: m of
\* them passed in the current window, which starts at start, and at most Limit in
\* each window before.  A window's first attempt, and all that passed before it,
\* passed at most MaxWait after the window's start.
Spread(times, m, start) ==
    \A i \in DOMAIN times :
        /\ i <= Len(times) - m + 1 => times[i] <= start + MaxWait
        /\ i <= Len(times) - m - Limit + 1 => times[i] <= start - Window + MaxWait
        /\ i <= Len(times) - m - 2 * Limit + 1 => times[i] <= start - 2 * Window + MaxWait

\* QuotaHolds of one namespace.
Spaced(times) ==
    \A i, j \in DOMAIN times : j - i >= Quota => times[j] - times[i] >= Window

\* An attempt that starts a window: the windows before it move one back.
LEMMA FirstOfWindow ==
    ASSUME NEW times \in Seq(Nat), NEW m \in 0..Limit, NEW start \in Int,
           NEW now \in Nat, NEW time \in Nat, now <= time, time <= now + MaxWait,
           times = <<>> \/ start + Window <= now,
           \A i \in DOMAIN times : times[i] <= time,
           Spread(times, m, start)
    PROVE  Spread(Append(times, time), 1, now)
<1> DEFINE after == Append(times, time)
<1>1. Len(after) = Len(times) + 1 /\ DOMAIN after = 1..(Len(times) + 1)
  OBVIOUS
<1>2. /\ after[Len(times) + 1] = time
      /\ \A i \in 1..Len(times) : i \in DOMAIN times /\ after[i] = times[i] /\ times[i] \in Nat
  OBVIOUS
<1> HIDE DEF after
<1>3. ASSUME NEW i \in 1..Len(times)
      PROVE  /\ after[i] <= now + MaxWait
             /\ i <= Len(times) - Limit + 1 => after[i] <= now - Window + MaxWait
             /\ i <= Len(times) - 2 * Limit + 1 => after[i] <= now - 2 * Window + MaxWait
  <2>1. start + Window <= now /\ times[i] <= time /\ times[i] \in Nat /\ after[i] = times[i]
    BY <1>2
  <2>2. i <= Len(times) - Limit + 1 => times[i] <= start + MaxWait
    BY <1>2, GatewayAssumption DEF Spread
  <2>3. i <= Len(times) - 2 * Limit + 1 => times[i] <= start - Window + MaxWait
    BY <1>2, GatewayAssumption DEF Spread
  <2> QED BY <2>1, <2>2, <2>3, GatewayAssumption
<1>4. Spread(after, 1, now)
  BY <1>1, <1>2, <1>3, GatewayAssumption DEF Spread
<1> QED BY <1>4 DEF after

\* An attempt that passes in the current window.
LEMMA NextOfWindow ==
    ASSUME NEW times \in Seq(Nat), NEW m \in Nat \ {0}, m + 1 <= Limit,
           NEW start \in Int, NEW time \in Nat,
           Spread(times, m, start)
    PROVE  Spread(Append(times, time), m + 1, start)
<1> DEFINE after == Append(times, time)
<1>1. Len(after) = Len(times) + 1 /\ DOMAIN after = 1..(Len(times) + 1)
  OBVIOUS
<1>2. /\ after[Len(times) + 1] = time
      /\ \A i \in 1..Len(times) : i \in DOMAIN times /\ after[i] = times[i] /\ times[i] \in Nat
  OBVIOUS
<1> HIDE DEF after
<1> QED BY <1>1, <1>2, GatewayAssumption DEF Spread

\* Times that are spread over the windows are spaced: the attempt that makes one
\* more than the quota belongs to a window that ended in time.
LEMMA SpreadSpaced ==
    ASSUME NEW times \in Seq(Nat), NEW m \in 1..Limit, NEW start \in Int,
           NEW time \in Nat, start <= time,
           Spaced(times), Spread(Append(times, time), m, start)
    PROVE  Spaced(Append(times, time))
<1> DEFINE after == Append(times, time)
<1>1. Len(after) = Len(times) + 1 /\ DOMAIN after = 1..(Len(times) + 1)
  OBVIOUS
<1>2. /\ after[Len(times) + 1] = time
      /\ \A i \in 1..Len(times) : i \in DOMAIN times /\ after[i] = times[i] /\ times[i] \in Nat
  OBVIOUS
<1>3. Spread(after, m, start)
  OBVIOUS
<1> HIDE DEF after
<1>4. Quota \in Nat \ {0}
  BY GatewayAssumption DEF Quota
<1>5. ASSUME NEW i \in 1..Len(times), (Len(times) + 1) - i >= Quota
      PROVE  time - times[i] >= Window
  <2>1. i \in DOMAIN after /\ after[i] = times[i] /\ times[i] \in Nat
    BY <1>1, <1>2
  <2>2. CASE MaxWait = 0
    <3>0. Quota = 2 * Limit - 1 /\ Limit \in Nat \ {0} /\ Len(times) \in Nat
      BY <2>2, GatewayAssumption DEF Quota
    <3>1. i <= Len(after) - m - Limit + 1
      BY <1>1, <1>5, <3>0
    <3>2. times[i] <= start - Window + MaxWait
      BY <1>3, <2>1, <3>1 DEF Spread
    <3> QED BY <2>1, <2>2, <3>2, GatewayAssumption
  <2>3. CASE MaxWait # 0
    <3>0. Quota = 3 * Limit - 1 /\ Limit \in Nat \ {0} /\ Len(times) \in Nat
      BY <2>3, GatewayAssumption DEF Quota
    <3>1. i <= Len(after) - m - 2 * Limit + 1
      BY <1>1, <1>5, <3>0
    <3>2. times[i] <= start - 2 * Window + MaxWait
      BY <1>3, <2>1, <3>1 DEF Spread
    <3> QED BY <2>1, <3>2, GatewayAssumption
  <2> QED BY <2>2, <2>3
<1>6. ASSUME NEW i \in DOMAIN after, NEW j \in DOMAIN after, j - i >= Quota
      PROVE  after[j] - after[i] >= Window
  <2>1. i \in 1..Len(times)
    BY <1>1, <1>4, <1>6
  <2>2. CASE j = Len(times) + 1
    BY <1>2, <1>5, <1>6, <2>1, <2>2
  <2>3. CASE j \in 1..Len(times)
    BY <1>2, <1>6, <2>1, <2>3 DEF Spaced
  <2> QED BY <1>1, <2>2, <2>3
<1> QED BY <1>6 DEF Spaced, after

\* A request that has read the time counts with one at most MaxWait old.
TimesFresh ==
    \A c \in Clients : StillWaits(c) =>
        request[c].now \in 0..clock /\ clock - request[c].now <= MaxWait

\* What passed in the window of an entry; the others were refused.
InWindow(entry) == IF entry.count <= Limit THEN entry.count ELSE Limit

\* The entry of a namespace and the history agree on the windows.
Counted(n) ==
    \/ counter[n] = NoEntry /\ admitted[n] = <<>>
    \/ /\ counter[n].count # 0
       /\ counter[n].expires - Window \in 0..clock
       /\ Spread(admitted[n], InWindow(counter[n]), counter[n].expires - Window)

\* The inductive invariant of QuotaHolds.
Paced ==
    /\ TimesFresh
    /\ \A n \in Namespaces :
          /\ Counted(n)
          /\ \A i \in DOMAIN admitted[n] : admitted[n][i] <= clock
          /\ Spaced(admitted[n])

LEMMA NextFresh == TypeOK /\ TimesFresh /\ [Next]_vars => TimesFresh'
<1> SUFFICES ASSUME TypeOK, TimesFresh, [Next]_vars
             PROVE  TimesFresh'
  OBVIOUS
<1>1. CASE Tick
  BY <1>1, GatewayAssumption DEF Tick, TimesFresh, StillWaits, TypeOK
<1>2. CASE request' = request /\ clock' = clock
  BY <1>2 DEF TimesFresh, StillWaits
<1>3. ASSUME NEW c \in Clients, RequestStep(c), clock' = clock
      PROVE  TimesFresh'
  <2>1. \A b \in Clients \ {c} : request'[b] = request[b]
    BY <1>3 DEF RequestStep, Ended, Passed, TypeOK
  <2>2. request'[c] = NoRequest \/ request'[c].now = NoTime \/ request'[c].now = clock
    <3>1. CASE \E d \in Deliveries : request' = [request EXCEPT ![c] = d]
      BY <3>1, DeliveryTyped DEF TypeOK
    <3>2. CASE request' = Ended(c)
      BY <3>2 DEF Ended, TypeOK
    <3>3. CASE Pending(c) /\ request' = [request EXCEPT ![c].now = clock]
      BY <3>3 DEF Pending, TypeOK, Requests
    <3>4. CASE Pending(c) /\ request' = Passed(c)
      BY <3>4, PassedStep DEF TypeOK
    <3> QED BY <1>3, <3>1, <3>2, <3>3, <3>4 DEF RequestStep
  <2>3. clock \in Nat /\ clock - clock <= MaxWait
    BY GatewayAssumption DEF TypeOK
  <2> QED BY <1>3, <2>1, <2>2, <2>3 DEF TimesFresh, StillWaits
<1>4. Tick \/ clock' = clock
  BY DEF Next, Tick, Send, ReadClock, RateLimit, AdminAuth, APIKey, Unavailable, Handle, vars
<1> QED BY <1>1, <1>2, <1>3, <1>4, RequestSteps

\* One attempt: it starts a window, passes in the current one or is refused.
LEMMA RateLimitPaced ==
    ASSUME TypeOK, Paced, NEW c \in Clients, RateLimit(c), NEW n \in Namespaces
    PROVE  /\ Counted(n)'
           /\ \A i \in DOMAIN admitted'[n] : admitted'[n][i] <= clock
           /\ Spaced(admitted'[n])
<1> DEFINE now == request[c].now
           entry == Increment(counter[n], now)
           times == admitted[n]
           start == counter[n].expires - Window
<1>1. /\ now \in Nat /\ now <= clock /\ clock <= now + MaxWait
      /\ clock \in Nat /\ clock' = clock
  BY GatewayAssumption DEF RateLimit, InMiddleware, Pending, Paced, TimesFresh, StillWaits, TypeOK
<1>2. /\ times \in Seq(Nat) /\ counter[n] \in [count : Nat, expires : Nat]
      /\ \A i \in DOMAIN times : times[i] <= clock
      /\ Counted(n) /\ Spaced(times)
  <2>1. times \in Seq(0..MaxClock)
    BY DEF TypeOK
  <2> QED BY <2>1, GatewayAssumption DEF TypeOK, Paced
<1>3. CASE n # Head(request[c].pending)
  <2>1. counter'[n] = counter[n] /\ admitted'[n] = times
    BY <1>3 DEF RateLimit, TypeOK
  <2> QED BY <1>1, <1>2, <2>1 DEF Counted, Spread, InWindow
<1>4. CASE n = Head(request[c].pending)
  <2>1. counter'[n] = entry
    BY <1>4 DEF RateLimit, TypeOK
  <2>2. IF WithinLimit(entry) THEN admitted'[n] = Append(times, clock) ELSE admitted'[n] = times
    BY <1>4 DEF RateLimit, TypeOK
  <2>3. CASE Expired(counter[n], now)
    <3>1. entry = [count |-> 1, expires |-> now + Window] /\ WithinLimit(entry)
      BY <2>3, GatewayAssumption DEF Increment, WithinLimit
    <3>2. admitted'[n] = Append(times, clock)
      BY <2>2, <3>1
    <3>3. entry.count = 1 /\ entry.expires - Window = now /\ InWindow(entry) = 1
      BY <1>1, <3>1, GatewayAssumption DEF InWindow
    <3>4. Spread(Append(times, clock), 1, now)
      <4>1. CASE counter[n] = NoEntry
        BY <1>1, <1>2, <4>1, FirstOfWindow, GatewayAssumption DEF Counted, Spread, NoEntry
      <4>2. CASE counter[n] # NoEntry
        <5>1. /\ start \in Int /\ start + Window <= now
              /\ InWindow(counter[n]) \in 0..Limit /\ Spread(times, InWindow(counter[n]), start)
          BY <1>1, <1>2, <2>3, <4>2, GatewayAssumption DEF Counted, Expired, InWindow
        <5> QED BY <1>1, <1>2, <5>1, FirstOfWindow
      <4> QED BY <4>1, <4>2
    <3>5. Spaced(Append(times, clock))
      <4>1. 1 \in 1..Limit /\ now \in Int
        BY <1>1, GatewayAssumption
      <4> QED BY <1>1, <1>2, <3>4, <4>1, SpreadSpaced
    <3> QED BY <1>1, <1>2, <2>1, <3>2, <3>3, <3>4, <3>5 DEF Counted
  <2>4. CASE ~Expired(counter[n], now)
    <3>1. /\ counter[n].count \in Nat \ {0} /\ start \in 0..clock
          /\ Spread(times, InWindow(counter[n]), start)
      BY <1>2, <2>4 DEF Expired, Counted
    <3>2. entry.count = counter[n].count + 1 /\ entry.expires = counter[n].expires
      BY <1>2, <2>4 DEF Increment
    <3>3. CASE WithinLimit(entry)
      <4>1. /\ InWindow(counter[n]) = counter[n].count /\ InWindow(entry) = counter[n].count + 1
            /\ counter[n].count + 1 <= Limit
        BY <3>1, <3>2, <3>3, GatewayAssumption DEF InWindow, WithinLimit
      <4>2. Spread(Append(times, clock), counter[n].count + 1, start)
        BY <1>1, <1>2, <3>1, <4>1, NextOfWindow
      <4>3. Spaced(Append(times, clock))
        <5>1. counter[n].count + 1 \in 1..Limit /\ start \in Int /\ start <= clock
          BY <1>1, <3>1, <4>1, GatewayAssumption
        <5> QED BY <1>1, <1>2, <4>2, <5>1, SpreadSpaced
      <4>4. admitted'[n] = Append(times, clock)
        BY <2>2, <3>3
      <4>5. \A i \in DOMAIN Append(times, clock) : Append(times, clock)[i] <= clock
        BY <1>1, <1>2
      <4>6. Counted(n)'
        BY <1>1, <2>1, <3>1, <3>2, <4>1, <4>2, <4>4 DEF Counted
      <4> QED BY <4>3, <4>4, <4>5, <4>6
    <3>4. CASE ~WithinLimit(entry)
      <4>1. InWindow(entry) = InWindow(counter[n])
        BY <1>2, <3>1, <3>2, <3>4, GatewayAssumption DEF InWindow, WithinLimit
      <4> QED BY <1>1, <1>2, <2>1, <2>2, <3>1, <3>2, <3>4, <4>1 DEF Counted
    <3> QED BY <3>3, <3>4
  <2> QED BY <2>3, <2>4
<1> QED BY <1>3, <1>4

LEMMA NextPaced == TypeOK /\ Paced /\ [Next]_vars => Paced'
<1> SUFFICES ASSUME TypeOK, Paced, [Next]_vars
             PROVE  Paced'
  OBVIOUS
<1>1. TimesFresh'
  BY NextFresh DEF Paced
<1>2. ASSUME NEW c \in Clients, RateLimit(c)
      PROVE  Paced'
  BY <1>1, <1>2, RateLimitPaced DEF Paced, RateLimit
<1>3. CASE counter' = counter /\ admitted' = admitted /\ clock' \in {clock, clock + 1}
  <2> SUFFICES ASSUME NEW n \in Namespaces
               PROVE  /\ Counted(n)'
                      /\ \A i \in DOMAIN admitted[n] : admitted[n][i] <= clock'
    BY <1>1, <1>3 DEF Paced
  <2>1. clock \in Nat
    BY DEF TypeOK
  <2>2. \A i \in DOMAIN admitted[n] : admitted[n][i] <= clock'
    <3>1. admitted[n] \in Seq(0..MaxClock)
      BY DEF TypeOK
    <3>2. ASSUME NEW i \in DOMAIN admitted[n]
          PROVE  admitted[n][i] <= clock'
      <4>1. admitted[n][i] \in 0..MaxClock
        BY <3>1, GatewayAssumption
      <4>2. admitted[n][i] <= clock
        BY DEF Paced
      <4> QED BY <1>3, <2>1, <4>1, <4>2
    <3> QED BY <3>2
  <2>3. counter[n].expires - Window \in 0..clock => counter[n].expires - Window \in 0..clock'
    BY <1>3, <2>1
  <2> QED BY <1>3, <2>2, <2>3 DEF Paced, Counted, Spread
<1>4. \/ \E c \in Clients : RateLimit(c)
      \/ counter' = counter /\ admitted' = admitted /\ clock' \in {clock, clock + 1}
  BY DEF Next, Tick, Send, ReadClock, AdminAuth, APIKey, Unavailable, Handle, vars
<1> QED BY <1>2, <1>3, <1>4

\* FixedWindowRateLimit lets at most the quota pass in any stretch as long as its
\* window, for every limit and window, whatever the interleaving of the attempts
\* and of the two transports: with the Redis store (no wait between the time and
\* the count) one less than twice the limit, with the memory store, whose waits
\* stay below a window, one less than three times.
THEOREM RateLimitHolds == Spec => []QuotaHolds
<1>1. Init => Paced
  BY GatewayAssumption DEF Init, Paced, TimesFresh, StillWaits, Counted, Spaced
<1>2. Paced => QuotaHolds
  BY DEF Paced, QuotaHolds, Spaced
<1> QED BY <1>1, <1>2, NextPaced, GatewayTypeCorrect, PTL DEF Spec

-----------------------------------------------------------------------------
(* How processes start on one database: SchemaInstall.                     *)

USE InstallAssumption, TableAssumption

\* The start of an empty database has the shapes of the tables and processes.
LEMMA InstallInitTyped == InstallInit => InstallTypeOK
BY DEF InstallInit, InstallTypeOK, Stages, NoSecrets

\* Moving a process keeps the map of stages.
LEMMA StageTyped ==
    ASSUME InstallTypeOK, NEW i \in Instances,
           NEW label \in Stages, GoStage(i, label)
    PROVE  stage' \in [Instances -> Stages]
BY DEF GoStage, InstallTypeOK

\* Every statement, failure and restart keeps the shapes of the variables.
LEMMA InstallNextTyped == InstallTypeOK /\ [InstallNext]_installVars => InstallTypeOK'
<1> SUFFICES ASSUME InstallTypeOK, [InstallNext]_installVars
             PROVE  InstallTypeOK'
  OBVIOUS
<1>1. ASSUME NEW i \in Instances, Start(i)
      PROVE  InstallTypeOK'
  <2>1. starts' \in [Instances -> 0..MaxStarts] /\ created' \in [Instances -> 0..TableCount]
    BY <1>1 DEF Start, InstallTypeOK
  <2> QED BY <1>1, <2>1, StageTyped DEF Start, InstallTypeOK, Stages
<1>2. ASSUME NEW i \in Instances, CreateTable(i)
      PROVE  InstallTypeOK'
  <2>1. created[i] + 1 \in 1..(TableCount + 1)
    BY DEF InstallTypeOK
  <2>2. tables' \in 0..TableCount /\ created' \in [Instances -> 0..TableCount]
    BY <1>2, <2>1 DEF CreateTable, InstallTypeOK
  <2> QED BY <1>2, <2>2, StageTyped DEF CreateTable, InstallTypeOK, Stages
<1>3. ASSUME NEW i \in Instances, SeedApplicationSecrets(i)
      PROVE  InstallTypeOK'
  BY <1>3, StageTyped DEF SeedApplicationSecrets, InstallTypeOK, Stages
<1>4. ASSUME NEW i \in Instances, CommitSeed(i)
      PROVE  InstallTypeOK'
  BY <1>4, StageTyped DEF CommitSeed, InstallTypeOK, Stages, NoSecrets
<1>5. ASSUME NEW i \in Instances, ReleaseSchemaLock(i)
      PROVE  InstallTypeOK'
  BY <1>5, StageTyped DEF ReleaseSchemaLock, InstallTypeOK, Stages,
        NoSecrets
<1>6. ASSUME NEW i \in Instances, Crash(i)
      PROVE  InstallTypeOK'
  BY <1>6 DEF Crash, InstallTypeOK, Stages, NoSecrets
<1>7. ASSUME NEW i \in Instances,
             \/ AcquireSchemaLock(i) \/ Inspect(i) \/ ValidateSchema(i)
             \/ ConnectEngine(i)
             \/ OpenObjectStorage(i) \/ ProvideApplicationSecrets(i)
             \/ LockNotAcquired(i) \/ StatementFails(i) \/ ProviderFails(i)
      PROVE  InstallTypeOK'
  BY <1>7, StageTyped DEF AcquireSchemaLock, Inspect, ValidateSchema,
        ConnectEngine, OpenObjectStorage, ProvideApplicationSecrets,
        LockNotAcquired, StatementFails, ProviderFails, InstallTypeOK,
        Stages
<1>8. CASE UNCHANGED installVars
  BY <1>8 DEF installVars, InstallTypeOK
<1> QED
  BY <1>1, <1>2, <1>3, <1>4, <1>5, <1>6, <1>7, <1>8 DEF InstallNext, Progress,
        Fault

\* The database, the lock and the processes keep their shapes, for any number of
\* processes and tables.
THEOREM InstallTypeCorrect == InstallSpec => []InstallTypeOK
BY InstallInitTyped, InstallNextTyped, PTL DEF InstallSpec

-----------------------------------------------------------------------------
(* The advisory lock *)

\* A process holds the advisory lock exactly while it is between taking and
\* releasing it (acquireSchemaLock, releaseSchemaLock, the end of its session).
LockHeld == \A i \in Instances : schemaLock = i <=> stage[i] \in Locked

\* Statements of the installation run one process at a time.
OneInstaller ==
    \A i, j \in Instances : stage[i] \in Locked /\ stage[j] \in Locked => i = j

\* Taking, keeping and releasing the lock go with the stages, deaths included.
LEMMA NextLockHeld == InstallTypeOK /\ LockHeld /\ [InstallNext]_installVars => LockHeld'
<1> SUFFICES ASSUME InstallTypeOK, LockHeld, [InstallNext]_installVars
             PROVE  LockHeld'
  OBVIOUS
<1> USE DEF LockHeld, Locked, InstallTypeOK
<1>1. ASSUME NEW i \in Instances, AcquireSchemaLock(i)
      PROVE  LockHeld'
  BY <1>1 DEF AcquireSchemaLock, GoStage
<1>2. ASSUME NEW i \in Instances, ReleaseSchemaLock(i) \/ Crash(i)
      PROVE  LockHeld'
  BY <1>2 DEF ReleaseSchemaLock, Crash, GoStage
<1>3. ASSUME NEW i \in Instances,
             \/ Inspect(i) \/ CreateTable(i) \/ SeedApplicationSecrets(i)
             \/ CommitSeed(i) \/ ValidateSchema(i) \/ StatementFails(i)
      PROVE  LockHeld'
  <2>1. /\ stage[i] \in Locked
        /\ schemaLock' = schemaLock
        /\ \E label \in Locked : stage' = [stage EXCEPT ![i] = label]
    BY <1>3 DEF Inspect, CreateTable, SeedApplicationSecrets,
          CommitSeed, ValidateSchema, StatementFails, GoStage
  <2> QED BY <2>1
<1>4. ASSUME NEW i \in Instances,
             \/ Start(i) \/ LockNotAcquired(i) \/ ConnectEngine(i)
             \/ OpenObjectStorage(i) \/ ProvideApplicationSecrets(i) \/ ProviderFails(i)
      PROVE  LockHeld'
  <2>1. /\ stage[i] \notin Locked
        /\ schemaLock' = schemaLock
        /\ \E label \in Stages \ Locked : stage' = [stage EXCEPT ![i] = label]
    BY <1>4 DEF Start, LockNotAcquired, ConnectEngine,
          OpenObjectStorage, ProvideApplicationSecrets, ProviderFails,
          GoStage, Stages
  <2> QED BY <2>1
<1>5. CASE UNCHANGED installVars
  BY <1>5 DEF installVars
<1> QED
  BY <1>1, <1>2, <1>3, <1>4, <1>5 DEF InstallNext, Progress, Fault

\* No two processes ever inspect, create or seed at the same time, whichever of
\* them fail or die on the way.
THEOREM InstallersExclude == InstallSpec => []OneInstaller
<1>1. InstallInit => LockHeld
  BY DEF InstallInit, LockHeld, Locked
<1>2. LockHeld => OneInstaller
  BY DEF LockHeld, OneInstaller
<1> QED
  BY <1>1, <1>2, NextLockHeld, InstallTypeCorrect, PTL DEF InstallSpec

-----------------------------------------------------------------------------
(* What a server finds when it is ready *)

\* The stages a process reaches only after ValidateSchema has counted the tables.
Validated == {"unlock", "open", "object", "secrets", "ready"}

\* The inductive invariant of ReadyIsInstalled: the tables a process has counted
\* are still there, not only at the end.
Installed ==
    /\ \A i \in Instances : stage[i] \in Validated => tables = TableCount
    /\ ReadyIsInstalled

\* Tables are only created and committed secrets stay: a second seed is a
\* duplicate of the row (primary key 1).
LEMMA DatabaseGrows ==
    ASSUME InstallTypeOK, [InstallNext]_installVars
    PROVE  /\ tables = TableCount => tables' = TableCount
           /\ secrets # NoSecrets => secrets' = secrets
<1>1. ASSUME NEW i \in Instances, CreateTable(i)
      PROVE  /\ tables = TableCount => tables' = TableCount
             /\ secrets # NoSecrets => secrets' = secrets
  BY <1>1 DEF CreateTable, InstallTypeOK
<1>2. ASSUME NEW i \in Instances, CommitSeed(i)
      PROVE  /\ tables = TableCount => tables' = TableCount
             /\ secrets # NoSecrets => secrets' = secrets
  BY <1>2 DEF CommitSeed
<1>3. ASSUME NEW i \in Instances,
             \/ Start(i) \/ Fault(i)
             \/ Progress(i) /\ ~CreateTable(i) /\ ~CommitSeed(i)
      PROVE  UNCHANGED <<tables, secrets>>
  BY <1>3 DEF Start, Fault, Progress, AcquireSchemaLock,
        Inspect, SeedApplicationSecrets, ValidateSchema,
        ReleaseSchemaLock, ConnectEngine, OpenObjectStorage,
        ProvideApplicationSecrets, LockNotAcquired, StatementFails,
        ProviderFails, Crash
<1>4. CASE UNCHANGED installVars
  BY <1>4 DEF installVars
<1> QED
  BY <1>1, <1>2, <1>3, <1>4 DEF InstallNext

\* A process enters the validated stages by the count, and becomes ready with the
\* secrets it has just read.
LEMMA NextInstalled == InstallTypeOK /\ Installed /\ [InstallNext]_installVars => Installed'
<1> SUFFICES ASSUME InstallTypeOK, Installed, [InstallNext]_installVars
             PROVE  Installed'
  OBVIOUS
<1> USE DEF Installed, ReadyIsInstalled, Validated
<1>1. /\ tables = TableCount => tables' = TableCount
      /\ secrets # NoSecrets => secrets' = secrets
  BY DatabaseGrows
\* i is the process that moves, j any other one.
<1>2. ASSUME NEW i \in Instances, Start(i) \/ Progress(i) \/ Fault(i),
             NEW j \in Instances, i # j
      PROVE  stage'[j] = stage[j] /\ loaded'[j] = loaded[j]
  BY <1>2 DEF Start, Fault, Progress, AcquireSchemaLock,
        Inspect, CreateTable, SeedApplicationSecrets,
        CommitSeed, ValidateSchema, ReleaseSchemaLock,
        ConnectEngine, OpenObjectStorage, ProvideApplicationSecrets,
        LockNotAcquired, StatementFails, ProviderFails, Crash,
        GoStage, InstallTypeOK
<1>3. ASSUME NEW i \in Instances, Start(i) \/ Progress(i) \/ Fault(i)
      PROVE  stage'[i] \in Validated => tables' = TableCount
  <2>1. CASE ValidateSchema(i)
    BY <1>1, <2>1 DEF ValidateSchema, GoStage, InstallTypeOK
  <2>2. CASE \/ ReleaseSchemaLock(i) \/ ConnectEngine(i)
             \/ OpenObjectStorage(i) \/ ProvideApplicationSecrets(i)
    <3>1. stage[i] = "undo" \/ stage[i] \in Validated
      BY <2>2 DEF ReleaseSchemaLock, ConnectEngine, OpenObjectStorage,
            ProvideApplicationSecrets
    <3>2. stage[i] = "undo" => stage'[i] = "failed"
      BY <2>2 DEF ReleaseSchemaLock, ConnectEngine, OpenObjectStorage,
            ProvideApplicationSecrets, GoStage, InstallTypeOK
    <3> QED BY <1>1, <3>1, <3>2
  <2>3. CASE \/ Start(i) \/ Fault(i) \/ AcquireSchemaLock(i)
             \/ Inspect(i) \/ CreateTable(i)
             \/ SeedApplicationSecrets(i) \/ CommitSeed(i)
    BY <2>3 DEF Start, Fault, AcquireSchemaLock, Inspect,
          CreateTable, SeedApplicationSecrets, CommitSeed,
          LockNotAcquired, StatementFails, ProviderFails, Crash,
          GoStage, InstallTypeOK
  <2> QED BY <1>3, <2>1, <2>2, <2>3 DEF Progress
<1>4. ASSUME NEW i \in Instances \ Commands, Start(i) \/ Progress(i) \/ Fault(i),
             stage'[i] = "ready"
      PROVE  secrets' # NoSecrets /\ loaded'[i] = secrets'
  <2>1. CASE ProvideApplicationSecrets(i)
    BY <1>4, <2>1 DEF ProvideApplicationSecrets, GoStage, InstallTypeOK
  <2>2. CASE ~ProvideApplicationSecrets(i)
    BY <1>4, <2>2 DEF Start, Fault, Progress, AcquireSchemaLock,
          Inspect, CreateTable, SeedApplicationSecrets,
          CommitSeed, ValidateSchema, ReleaseSchemaLock,
          ConnectEngine, OpenObjectStorage, LockNotAcquired,
          StatementFails, ProviderFails, Crash, GoStage,
          InstallTypeOK
  <2> QED BY <2>1, <2>2
<1>5. ASSUME NEW i \in Instances, Start(i) \/ Progress(i) \/ Fault(i)
      PROVE  Installed'
  BY <1>1, <1>2, <1>3, <1>4, <1>5
<1>6. CASE UNCHANGED installVars
  BY <1>6 DEF installVars
<1> QED
  BY <1>5, <1>6 DEF InstallNext

\* No server comes up on half a schema, without secrets or with others than the
\* database holds, for any number of processes, tables, failures and deaths.
THEOREM ReadyAlwaysInstalled == InstallSpec => []ReadyIsInstalled
<1>1. InstallInit => Installed
  BY DEF InstallInit, Installed, ReadyIsInstalled, Validated
<1>2. Installed => ReadyIsInstalled
  BY DEF Installed
<1> QED
  BY <1>1, <1>2, NextInstalled, InstallTypeCorrect, PTL DEF InstallSpec

\* Secrets that were committed are never replaced: no later start, failure or
\* second installation invalidates the tokens and key digests made with them.
SecretsPermanent == [][secrets # NoSecrets => secrets' = secrets]_installVars

\* The row of secrets is written once, whatever starts and fails.
THEOREM SecretsNeverReplaced == InstallSpec => SecretsPermanent
<1>1. InstallTypeOK /\ [InstallNext]_installVars => [secrets # NoSecrets => secrets' = secrets]_installVars
  BY DatabaseGrows
<1> QED
  BY <1>1, InstallTypeCorrect, PTL DEF InstallSpec, SecretsPermanent

=============================================================================
