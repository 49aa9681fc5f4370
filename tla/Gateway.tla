------------------------------- MODULE Gateway -------------------------------
(***************************************************************************)
(* A request on its way to a handler: the HTTP filters, the router, the    *)
(* validation of the message, and the middleware selected for the          *)
(* operation (rate limits, administrator and API-key authentication), over *)
(* HTTP with and without the /api prefix and over gRPC.  What the handlers *)
(* do is the subject of the other modules; here they only receive the      *)
(* request.  A request that is refused changes nothing and just ends.      *)
(*                                                                         *)
(* One field of a request varies, around the bounds of its rule; the other *)
(* fields are valid.  All requests come from one peer with one credential, *)
(* so that each namespace of the rate limit has one counter.               *)
(***************************************************************************)
EXTENDS Services, Integers, FiniteSetsExt

CONSTANTS
    Clients,      \* connections with at most one request under way each
    Explorers,    \* the clients that send every operation
    Competing,    \* the operations the other clients send
    Window,       \* rateWindow
    Limit,        \* the rate limit of every namespace
    MaxWait,      \* how long a request waits for the cache store at most
    MaxClock,     \* bound on the clock
    MaxRequests   \* bound on the requests that reach the middleware

ASSUME GatewayAssumption ==
    /\ Explorers \subseteq Clients
    /\ Competing \subseteq {registerHTTP[i].operation : i \in DOMAIN registerHTTP}
    /\ Window \in Nat \ {0} /\ Limit \in Nat \ {0}
    /\ MaxWait \in 0..Window
    /\ MaxClock \in Nat /\ MaxRequests \in Nat

VARIABLES
    request,   \* what each client has under way
    clock,     \* the time of the cache store
    counter,   \* per namespace the entry of the cache store
    admitted,  \* per namespace the times at which the limit let a request pass (history)
    sent       \* requests that reached the middleware

vars == <<request, clock, counter, admitted, sent>>

Namespaces == {"auth", "admin", "runtime"}

NoRequest == [asked |-> "none"]

NoTime == -1

NoEntry == [count |-> 0, expires |-> 0]

Transports == {"api", "bare", "grpc"}

-----------------------------------------------------------------------------
(* The filters in front of the router.                                     *)

\* The prefixes are whole segments of the path.
reservedManagementPath(path) ==
    \/ path[1] \in {"admin", "auth"}
    \/ path[1] = "setup" /\ path[2] \in {"status", "admin"}

\* With /api the prefix is cut off, without it the management paths are hidden.
APIPrefix(via, path) == via = "bare" => ~reservedManagementPath(path)

\* origin: the Origin header compared with the public address; own if there is none.
SameOrigin(origin) == origin # "other"

-----------------------------------------------------------------------------
(* The router: the first registered route with the method and the path.    *)

Variables == {"id", "environment_id", "project_id", "user_id", "role_id", "key_id",
              "snapshot_id", "source_environment_id", "target_environment_id"}

\* A request gives a number for each variable of the path it asks for.
SegmentMatches(pattern, segment) == pattern \in Variables \/ pattern = segment

Matches(route, method, path) ==
    /\ route.method = method
    /\ Len(route.path) = Len(path)
    /\ \A i \in 1..Len(path) : SegmentMatches(route.path[i], path[i])

Dispatch(method, path) ==
    Min({i \in DOMAIN registerHTTP : Matches(registerHTTP[i], method, path)})

\* Each route a client may ask for, with the route the router takes.
Arrivals ==
    {<<i, Dispatch(registerHTTP[i].method, registerHTTP[i].path)>> : i \in DOMAIN registerHTTP}

\* gRPC serves the runtime service only, and calls name their operation.
registerGRPC == {Api[i].operation : i \in DOMAIN Api}

-----------------------------------------------------------------------------
(* The middleware in front of the handlers, per operation.                 *)

Bug_PublicServices(operation) ==
    operation \in {"Login", "Refresh", "Logout", "Me", "GetSetupStatus", "CreateInitialAdmin"}

publicManagementOperation(operation) ==
    operation \in {"Login", "Refresh", "Logout", "GetSetupStatus", "CreateInitialAdmin"}

\* ValidateRequest comes first and is part of Send; recovery only answers panics.
NewHTTPServer(operation) ==
    (IF operation \in {"Login", "Refresh", "CreateInitialAdmin"} THEN <<"auth">> ELSE <<>>)
    \o (IF operation # "Config" /\ ~publicManagementOperation(operation)
        THEN <<"admin", "AdminAuth">> ELSE <<>>)
    \o (IF operation = "Config" THEN <<"runtime", "APIKey">> ELSE <<>>)

\* The key is read by an interceptor, which runs after the middleware.
NewGRPCServer(operation) == <<"runtime", "APIKey">>

Middleware(via, operation) ==
    IF via = "grpc" THEN NewGRPCServer(operation) ELSE NewHTTPServer(operation)

-----------------------------------------------------------------------------
Init ==
    /\ request = [c \in Clients |-> NoRequest]
    /\ clock = 0
    /\ counter = [n \in Namespaces |-> NoEntry]
    /\ admitted = [n \in Namespaces |-> <<>>]
    /\ sent = 0

\* The sizes around the bounds of a rule.
EdgeSizes(rule) ==
    {rule.min - 1, rule.min, rule.max, rule.max + 1} \cap 0..Unbounded

\* trimmed: strings.TrimSpace leaves a text as it is.  No pattern has room for
\* blanks at the ends.
EdgeValues(rule) ==
    {v \in [given : {TRUE}, size : EdgeSizes(rule), shaped : IF rule.shaped THEN BOOLEAN ELSE {FALSE},
            trimmed : IF rule.unit \in {"runes", "bytes"} /\ ~rule.shaped THEN BOOLEAN ELSE {TRUE}] :
        v.size = 0 => v.trimmed}
    \cup [given : {FALSE}, size : {0}, shaped : {FALSE}, trimmed : {TRUE}]

\* The field that varies; a message without rules has none.
Forms(message) ==
    IF DOMAIN message = {} THEN {<<>>}
    ELSE UNION {{f} \X EdgeValues(message[f]) : f \in DOMAIN message}

\* Validate: the first rule that fails refuses the message.
validateRequest(message, form) ==
    form # <<>> /\ form[1] \in DOMAIN message => AcceptsField(message[form[1]], form[2])

\* Fields whose stored value is given again in a field of another request, and the
\* rule of that field.  The username of CreateUser is not among them: it is stored
\* as it is given and Login trims it, so that one with blanks around it never logs in.
ComesBack == {
    <<"CreateProject", "key", ConfigRequest.project>>,
    <<"CreateProject", "key", ListConfigRequest.project_key>>,
    <<"CreateConfig", "key", ConfigRequest.key>>,
    <<"CreateConfig", "key", ListConfigRequest.key>>,
    <<"CreateUser", "password", LoginRequest.password>>,
    <<"CreateInitialAdmin", "username", LoginRequest.username>>,
    <<"CreateInitialAdmin", "password", LoginRequest.password>>,
    <<"UpdateUserPassword", "password", LoginRequest.password>>}

\* Those whose other request is trimmed by its handler: Login looks for the name
\* without the blanks around it.
TrimmedBack == {<<"CreateInitialAdmin", "username">>}

\* The setup handler refuses names with blanks around them.
validateInitialAdmin(operation, form) ==
    operation = "CreateInitialAdmin" /\ form[1] \in {"username", "display_name"} => form[2].trimmed

\* The varying field is remembered if the handler stores it.
Stored(operation, form) ==
    IF \/ form = <<>>
       \/ /\ \/ operation \in DOMAIN Handlers /\ form[1] \in DOMAIN Handlers[operation]
             \/ \E back \in ComesBack : back[1] = operation /\ back[2] = form[1]
          /\ validateInitialAdmin(operation, form)
    THEN form ELSE <<>>

\* The requests that pass the filters, are dispatched, decoded and validated, as
\* they enter the middleware.  None of this depends on the state.
Delivered(arrival, via, origin) ==
    LET asked == registerHTTP[arrival[1]]
        route == IF via = "grpc" THEN asked ELSE registerHTTP[arrival[2]]
    IN
    {[asked |-> asked.operation, operation |-> route.operation, via |-> via,
      form |-> Stored(route.operation, form), passed |-> {}, now |-> NoTime,
      pending |-> Middleware(via, route.operation)] :
        form \in {f \in Forms(asked.message) :
                   /\ IF via = "grpc" THEN asked.operation \in registerGRPC
                      ELSE APIPrefix(via, asked.path) /\ SameOrigin(origin)
                   /\ validateRequest(route.message, f)}}

Deliveries ==
    UNION {Delivered(arrival, via, origin) :
           arrival \in Arrivals, via \in Transports, origin \in {"own", "other"}}

Send(c, delivery) ==
    /\ request[c] = NoRequest
    /\ sent < MaxRequests
    /\ c \in Explorers \/ delivery.asked \in Competing
    /\ request' = [request EXCEPT ![c] = delivery]
    /\ sent' = sent + 1
    /\ UNCHANGED <<clock, counter, admitted>>

Pending(c) == request[c] # NoRequest /\ request[c].pending # <<>>

InMiddleware(c, names) == Pending(c) /\ Head(request[c].pending) \in names

\* next(ctx, request)
Passed(c) ==
    [request EXCEPT ![c].passed = @ \cup {Head(request[c].pending)},
                    ![c].pending = Tail(@),
                    ![c].now = NoTime]

Ended(c) == [request EXCEPT ![c] = NoRequest]

-----------------------------------------------------------------------------
(* FixedWindowRateLimit and the cache's counter.                           *)

\* Increment reads the time before it takes the store's lock.
ReadClock(c) ==
    /\ InMiddleware(c, Namespaces)
    /\ request[c].now = NoTime
    /\ request' = [request EXCEPT ![c].now = clock]
    /\ UNCHANGED <<clock, counter, admitted, sent>>

Expired(entry, now) == entry = NoEntry \/ now >= entry.expires

\* The first attempt starts the window, the others keep its end.
Increment(entry, now) ==
    IF Expired(entry, now) THEN [count |-> 1, expires |-> now + Window]
    ELSE [entry EXCEPT !.count = @ + 1]

Bug_OneMore(entry) == entry.count <= Limit + 1

WithinLimit(entry) == entry.count <= Limit

RateLimit(c) ==
    /\ InMiddleware(c, Namespaces)
    /\ request[c].now # NoTime
    /\ LET n == Head(request[c].pending)
           entry == Increment(counter[n], request[c].now)
       IN /\ counter' = [counter EXCEPT ![n] = entry]
          /\ IF WithinLimit(entry)
             THEN /\ request' = Passed(c)
                  /\ admitted' = [admitted EXCEPT ![n] = Append(@, clock)]
             ELSE request' = Ended(c) /\ UNCHANGED admitted
    /\ UNCHANGED <<clock, sent>>

-----------------------------------------------------------------------------
(* Authentication.                                                         *)

\* AdminAuth: the token verifies, and the row of its user is read now.
Admits(operation, token, user) ==
    /\ token = "verified"
    /\ user \in {"enabled", "must change password"}
    /\ user = "must change password" => operation = "UpdateUserPassword"

AdminAuth(c, token, user) ==
    /\ InMiddleware(c, {"AdminAuth"})
    /\ request' = IF Admits(request[c].operation, token, user) THEN Passed(c) ELSE Ended(c)
    /\ UNCHANGED <<clock, counter, admitted, sent>>

\* HTTPAPIKey and UnaryAPIKey: a key that is not blank, and over gRPC only one;
\* the runtime read verifies it (module RuntimeKeys).
APIKey(c, keys) ==
    /\ InMiddleware(c, {"APIKey"})
    /\ request' = IF keys = 1 \/ (keys > 1 /\ request[c].via # "grpc") THEN Passed(c) ELSE Ended(c)
    /\ UNCHANGED <<clock, counter, admitted, sent>>

-----------------------------------------------------------------------------
\* The cache store or the database does not answer, or the deadline has passed.
Unavailable(c) ==
    /\ InMiddleware(c, Namespaces \cup {"AdminAuth"})
    /\ request' = Ended(c)
    /\ UNCHANGED <<clock, counter, admitted, sent>>

Handling(c) == request[c] # NoRequest /\ request[c].pending = <<>>

\* The handler answers.
Handle(c) ==
    /\ Handling(c)
    /\ request' = Ended(c)
    /\ UNCHANGED <<clock, counter, admitted, sent>>

\* The memory store is waited for behind other increments (MaxWait), the Redis
\* store counts with its own time (MaxWait = 0).
StillWaits(c) == request[c] # NoRequest /\ request[c].now # NoTime

Tick ==
    /\ clock < MaxClock
    /\ \A c \in Clients : StillWaits(c) => clock - request[c].now < MaxWait
    /\ clock' = clock + 1
    /\ UNCHANGED <<request, counter, admitted, sent>>

Next ==
    \/ Tick
    \/ \E c \in Clients :
         \/ \E delivery \in Deliveries : Send(c, delivery)
         \/ ReadClock(c)
         \/ RateLimit(c)
         \/ \E token \in {"none", "verified"},
               user \in {"unknown", "disabled", "enabled", "must change password"} :
              AdminAuth(c, token, user)
         \/ \E keys \in 0..2 : APIKey(c, keys)
         \/ Unavailable(c)
         \/ Handle(c)

Spec == Init /\ [][Next]_vars

-----------------------------------------------------------------------------
(* Properties.                                                             *)

Layers == Namespaces \cup {"AdminAuth", "APIKey"}

Requests ==
    [asked : {d.asked : d \in Deliveries}, operation : {d.operation : d \in Deliveries},
     via : Transports, form : {d.form : d \in Deliveries}, passed : SUBSET Layers,
     now : {NoTime} \cup 0..MaxClock, pending : Seq(Layers)]

TypeOK ==
    /\ request \in [Clients -> Requests \cup {NoRequest}]
    /\ clock \in 0..MaxClock
    /\ counter \in [Namespaces -> [count : Nat, expires : Nat]]
    /\ admitted \in [Namespaces -> Seq(0..MaxClock)]
    /\ sent \in 0..MaxRequests

\* What a stretch of time as long as the window lets pass: what one window has
\* left after its first attempt, all of the next one, and all of a third when
\* attempts count with a time that was read before they waited for the store.
Quota == IF MaxWait = 0 THEN 2 * Limit - 1 ELSE 3 * Limit - 1

\* In any stretch of time as long as the window at most the quota passes
\* FixedWindowRateLimit, however the attempts straddle the end of a window or
\* come over HTTP and gRPC together: of more attempts than the quota the last
\* passes a window after the first.
QuotaHolds ==
    \A n \in Namespaces : \A i, j \in DOMAIN admitted[n] :
        j - i >= Quota => admitted[n][j] - admitted[n][i] >= Window

\* The operations below /admin, and Me, which answers with the principal.
NeedPrincipal ==
    {registerHTTP[i].operation : i \in {j \in DOMAIN registerHTTP : registerHTTP[j].path[1] = "admin"}}
    \cup {"Me"}

\* A handler below /admin, and Me, which answers with the principal, only runs
\* for an authenticated administrator within the limit and under /api; logging
\* in, refreshing and the first setup only within the limit; a runtime read only
\* with a key, on either transport.
Protected ==
    \A c \in Clients : Handling(c) =>
        LET r == request[c] IN
        /\ r.operation \in NeedPrincipal =>
             {"admin", "AdminAuth"} \subseteq r.passed /\ r.via = "api"
        /\ r.operation \in {"Login", "Refresh", "CreateInitialAdmin"} => "auth" \in r.passed
        /\ r.operation = "Config" => {"runtime", "APIKey"} \subseteq r.passed

\* The fields whose rule counts bytes.
CountedInBytes ==
    UNION {{<<registerHTTP[i].operation, f>> :
            f \in {g \in DOMAIN registerHTTP[i].message : registerHTTP[i].message[g].unit = "bytes"}} :
           i \in DOMAIN registerHTTP}

\* The least and the greatest length in characters, of one to four bytes each.
Characters(operation, field, size) ==
    IF <<operation, field>> \in CountedInBytes THEN {(size + 3) \div 4, size} ELSE {size}

\* What a handler stores fits its columns, in characters also where the rule counts
\* bytes, and what has to be given again to be used (a key to read, the first
\* administrator's name, a password) is accepted there: it passes the rule of that
\* request and is not changed by its handler's trim.
InputsFit ==
    \A c \in Clients : Handling(c) /\ request[c].form # <<>> =>
        LET op == request[c].operation
            field == request[c].form[1]
            value == request[c].form[2]
        IN \A length \in Characters(op, field, value.size) :
             /\ op \in DOMAIN Handlers /\ field \in DOMAIN Handlers[op] =>
                  length <= Handlers[op][field]
             /\ \A back \in ComesBack : back[1] = op /\ back[2] = field =>
                  AcceptsField(back[3], [value EXCEPT !.size = length])
             /\ <<op, field>> \in TrimmedBack => value.trimmed
=============================================================================
