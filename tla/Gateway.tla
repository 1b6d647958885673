------------------------------ MODULE Gateway ------------------------------
(***************************************************************************)
(* The process around the handlers: its two listeners, the gateway that    *)
(* turns an HTTP request into a call of the gRPC server over a loopback    *)
(* connection, the interceptors in front of every handler, and the lines   *)
(* both sides log.                                                         *)
(*                                                                         *)
(* Each element of Calls is one request of a client, sent by HTTP or       *)
(* straight to the gRPC server.  A path is the sequence of its segments.   *)
(* A message is reduced to the id it names, a numeral; "0" is a message    *)
(* that names none.  A handler is any computation that commits at most one *)
(* change and ends with one of the codes the handlers return, as the other *)
(* modules say which.                                                      *)
(***************************************************************************)
EXTENDS Integers, Sequences, FiniteSets, FiniteSetsExt

CONSTANTS
  Calls,         \* requests of clients
  Users,         \* those who hold a valid access token
  RequestIds,    \* what a client puts in X-Request-Id
  Ids,           \* the numerals that name an id
  Requests,      \* the requests the clients may send
  Scenarios,     \* which of them are sent together
  Initial,       \* SamplingConfig.Initial
  Thereafter     \* SamplingConfig.Thereafter

Rpcs == {"CreateUser", "LoginUser", "RenewAccessToken", "VerifyEmail",
         "UpdateUser", "CreateAccount", "GetAccount", "ListAccounts",
         "ListEntries", "UpdateAccount", "DeleteAccount", "LookUpAccount",
         "CreateTransfer"}

\* An authorization header: a user's access token, no header, one that has a
\* single field, one of another type, one whose token VerifyToken refuses.
Headers == Users \cup {"missing", "malformed", "basic", "invalid"}

Parameter == Ids \cup {"empty", "malformed"}

HTTPRequest == [via : {"http"}, verb : STRING, path : Seq(STRING),
                body : Parameter, query : Parameter,
                auth : Headers, rid : RequestIds \cup {"none"}]

GRPCRequest == [via : {"grpc"}, rpc : Rpcs \cup {"Unregistered"},
                id : Parameter, auth : Headers, rid : RequestIds \cup {"none"}]

\* The reflection service knows of no ids.
StreamRequest == [via : {"grpc"}, rpc : {"Reflection"}, id : {"empty"},
                  auth : Headers, rid : RequestIds \cup {"none"}]

ASSUME GatewayAssumption ==
  /\ Initial \in Nat \ {0} /\ Thereafter \in Nat \ {0}
  /\ IsFiniteSet(Calls)
  /\ {"empty", "malformed"} \cap Ids = {}
  /\ Requests \subseteq HTTPRequest \cup GRPCRequest \cup StreamRequest
  /\ Scenarios \subseteq [Calls -> Requests]

VARIABLES
  alive,     \* whether the process runs
  serving,   \* the listeners that accept
  conn,      \* the gateway's connection to the gRPC server
  count,     \* of each level and message: the lines of the current second
  req,       \* of each call: its request
  gw, srv,   \* its next step in the gateway and in the gRPC server
  msg,       \* the message sent to the gRPC server
  handled,   \* the message and the user its handler was entered with
  effect,    \* whether a change its handler made has been committed
  code,      \* the code its handler, or an interceptor, ended with
  status,    \* the HTTP status it was answered with, 0 before
  rid,       \* the request id its HTTP response carries
  lines      \* what has been logged about it

vars == <<alive, serving, conn, count, req, gw, srv, msg, handled, effect,
          code, status, rid, lines>>

None == {}
Listeners == {"http", "grpc"}
Messages == {"HTTP", "gRPC", "stream"}
Levels == {"debug", "info", "warn", "error"}

Init ==
  /\ alive = TRUE
  /\ serving = {}
  /\ conn = "idle"
  /\ count = [k \in Levels \X Messages |-> 0]
  /\ req \in Scenarios
  /\ gw = [c \in Calls |-> "idle"]
  /\ srv = [c \in Calls |-> "idle"]
  /\ msg = [c \in Calls |-> None]
  /\ handled = [c \in Calls |-> None]
  /\ effect = [c \in Calls |-> FALSE]
  /\ code = [c \in Calls |-> "none"]
  /\ status = [c \in Calls |-> 0]
  /\ rid = [c \in Calls |-> "none"]
  /\ lines = [c \in Calls |-> {}]

-----------------------------------------------------------------------------
\* The requests the gateway accepts, and where each takes its message from.
\* What is read later overrides what was read before.

request_GoBank_CreateUser_0 == <<"body">>
request_GoBank_LoginUser_0 == <<"body">>
request_GoBank_RenewAccessToken_0 == <<"body">>
request_GoBank_VerifyEmail_0 == <<"query">>
request_GoBank_UpdateUser_0 == <<"body">>
request_GoBank_CreateAccount_0 == <<"body">>
request_GoBank_GetAccount_0 == <<"path">>
request_GoBank_ListAccounts_0 == <<"query">>
request_GoBank_ListEntries_0 == <<"query">>

\* MUTANT, RoutedAsDocumented: the path is read first, so the body wins.
UpdateAccountBodyLast == <<"path", "body">>
request_GoBank_UpdateAccount_0 == <<"body", "path">>
request_GoBank_DeleteAccount_0 == <<"path">>
request_GoBank_LookUpAccount_0 == <<"query">>
request_GoBank_CreateTransfer_0 == <<"body">>

Route(verb, pattern, rpc, sources) ==
  [verb |-> verb, pattern |-> <<"v1">> \o pattern, rpc |-> rpc, sources |-> sources]

\* mux.Handle, in the order of registration.  A template names its variable "id".
UserRoutes == <<
  Route("POST", <<"users">>, "CreateUser", request_GoBank_CreateUser_0),
  Route("POST", <<"auth", "login">>, "LoginUser", request_GoBank_LoginUser_0),
  Route("POST", <<"auth", "renew_access">>, "RenewAccessToken",
        request_GoBank_RenewAccessToken_0),
  Route("GET", <<"verify_email">>, "VerifyEmail", request_GoBank_VerifyEmail_0),
  Route("PATCH", <<"users">>, "UpdateUser", request_GoBank_UpdateUser_0)>>

AccountRoutes == <<
  Route("POST", <<"accounts">>, "CreateAccount", request_GoBank_CreateAccount_0),
  Route("GET", <<"accounts", "id">>, "GetAccount", request_GoBank_GetAccount_0),
  Route("GET", <<"accounts">>, "ListAccounts", request_GoBank_ListAccounts_0),
  Route("GET", <<"entries">>, "ListEntries", request_GoBank_ListEntries_0),
  Route("PUT", <<"accounts", "id">>, "UpdateAccount", request_GoBank_UpdateAccount_0),
  Route("DELETE", <<"accounts", "id">>, "DeleteAccount", request_GoBank_DeleteAccount_0),
  Route("GET", <<"accounts", "lookup">>, "LookUpAccount", request_GoBank_LookUpAccount_0),
  Route("POST", <<"transfers">>, "CreateTransfer", request_GoBank_CreateTransfer_0)>>

Routes == UserRoutes \o AccountRoutes

Matches(route, path) ==
  /\ Len(route.pattern) = Len(path)
  /\ \A i \in 1..Len(path) : route.pattern[i] \in {path[i], "id"}

\* ServeMux.Handle puts a handler in front of the earlier ones of its verb,
\* and ServeHTTP takes the first that matches.
Candidates(r) ==
  {i \in 1..Len(Routes) : Routes[i].verb = r.verb /\ Matches(Routes[i], r.path)}

Chosen(r) == Routes[Max(Candidates(r))]

\* MUTANT, TypeOK: the segment is passed on as it is.
Int64Unchecked(segment) == segment

\* runtime.Int64
Int64(segment) == IF segment \in Ids THEN segment ELSE "malformed"

\* What a source says.
Read(r, source) ==
  CASE source = "body"  -> r.body
    [] source = "query" -> r.query
    [] source = "path"  -> Int64(r.path[Len(r.path)])

\* The message the sources make together: no id where one is malformed.
Decoded(r, sources) ==
  LET said == [i \in 1..Len(sources) |-> Read(r, sources[i])]
      says == {i \in 1..Len(sources) : said[i] # "empty"}
  IN  IF \E i \in says : said[i] = "malformed" THEN "malformed"
      ELSE IF says = {} THEN "0" ELSE said[Max(says)]

\* runtime.HTTPStatusFromCode
HTTPStatus(c) ==
  CASE c = "OK" -> 200
    [] c \in {"InvalidArgument", "FailedPrecondition"} -> 400
    [] c = "Unauthenticated"  -> 401
    [] c = "PermissionDenied" -> 403
    [] c = "NotFound"         -> 404
    [] c = "AlreadyExists"    -> 409
    [] c = "Canceled"         -> 499
    [] c = "Unimplemented"    -> 501
    [] c = "Unavailable"      -> 503
    [] OTHER                  -> 500

\* The headers WithIncomingHeaderMatcher passes on to the gRPC server.
\* MUTANT, LinesAgree: only those the default matcher knows.
ForwardedByDefault == {"authorization"}
Forwarded == {"authorization", "x-request-id", "x-trace-id", "x-span-id"}

-----------------------------------------------------------------------------
\* Logging.

defaultHTTPDecider(s) ==
  IF s >= 500 THEN "error" ELSE IF s >= 400 THEN "warn" ELSE "info"

isClientError(c) ==
  c \in {"InvalidArgument", "NotFound", "AlreadyExists", "PermissionDenied",
         "FailedPrecondition", "Unauthenticated", "ResourceExhausted", "Canceled"}

defaultDecider(c) ==
  IF c = "OK" THEN "info" ELSE IF isClientError(c) THEN "warn" ELSE "error"

\* MUTANT, LinesKept: messages of one level share a counter.
CountedByLevel(level, message) == <<level, "gRPC">>

\* What the sampler counts apart.
Counter(level, message) == <<level, message>>

\* The n-th entry of a counter in a second is kept.
Sampled(n) == n <= Initial \/ (n - Initial) % Thereafter = 0

\* Logger.Info, Warn or Error through the sampler, at DefaultConfig's level.
Log(c, level, message, id) ==
  LET k == Counter(level, message)
      n == count[k] + 1
  IN  IF level = "debug" THEN UNCHANGED <<count, lines>>
      ELSE /\ count' = [count EXCEPT ![k] = n]
           /\ lines' = [lines EXCEPT ![c] = @ \cup
                          {[message |-> message, level |-> level, rid |-> id,
                            kept |-> Sampled(n)]}]

\* The sampler's second is over.
Second(k) ==
  /\ alive /\ count[k] > 0
  /\ count' = [count EXCEPT ![k] = 0]
  /\ UNCHANGED <<alive, serving, conn, req, gw, srv, msg, handled, effect, code,
                 status, rid, lines>>

-----------------------------------------------------------------------------
\* The process.

Listen(l) ==
  /\ alive /\ l \notin serving
  /\ serving' = serving \cup {l}
  /\ UNCHANGED <<alive, conn, count, req, gw, srv, msg, handled, effect, code,
                 status, rid, lines>>

\* runGatewayServer and runGRPCServer run concurrently, in no order.
ListenHTTP == Listen("http")
ListenGRPC == Listen("grpc")

\* l.Fatal in either of them, or in runTaskProcessor, ends the process.
Fatal ==
  /\ alive /\ alive' = FALSE
  /\ UNCHANGED <<serving, conn, count, req, gw, srv, msg, handled, effect, code,
                 status, rid, lines>>

\* RegisterGoBankHandlerFromEndpoint makes an idle connection.  The first call
\* makes it dial; it dials again as long as nobody listens.
Connect ==
  /\ alive
  /\ conn = "idle" => \E c \in Calls : gw[c] = "invoke"
  /\ conn # "ready"
  /\ conn' = IF "grpc" \in serving THEN "ready" ELSE "failed"
  /\ UNCHANGED <<alive, serving, count, req, gw, srv, msg, handled, effect, code,
                 status, rid, lines>>

-----------------------------------------------------------------------------
\* The gateway.

\* The first header counts, as responseRecorder has it.
WriteHeader(c, s) == status' = [status EXCEPT ![c] = IF @ = 0 THEN s ELSE @]

\* Answered by the mux itself, and not logged.
Static == {"healthz", "readyz", "swagger"}
Skipped(r) == r.path[1] \in Static

\* corsMiddleware answers it at once.
Preflight(r) == r.verb = "OPTIONS"

\* The request id of the response.  A generated one is named after the call.
ResponseId(c) == IF Skipped(req[c]) THEN "none"
                 ELSE IF req[c].rid = "none" THEN c ELSE req[c].rid

\* HTTPMiddleware, corsMiddleware, the mux, and the handler a route was
\* registered with, up to the call of the client stub.
ServeHTTP(c) ==
  LET r == req[c]
      Answer(s) == /\ WriteHeader(c, s)
                   /\ gw' = [gw EXCEPT ![c] = IF Skipped(r) THEN "done" ELSE "log"]
                   /\ UNCHANGED msg
      Call(rpc, id) == /\ msg' = [msg EXCEPT ![c] = {[rpc |-> rpc, id |-> id]}]
                       /\ gw' = [gw EXCEPT ![c] = "invoke"]
                       /\ UNCHANGED status
  IN  /\ alive /\ gw[c] = "idle" /\ r.via = "http" /\ "http" \in serving
      /\ rid' = [rid EXCEPT ![c] = ResponseId(c)]
      /\ IF Preflight(r) \/ Skipped(r) THEN Answer(200)
         ELSE IF Candidates(r) = {}
           THEN Answer(HTTPStatus(IF \E i \in 1..Len(Routes) : Matches(Routes[i], r.path)
                                  THEN "Unimplemented" ELSE "NotFound"))
         ELSE LET id == Decoded(r, Chosen(r).sources)
              IN  IF id = "malformed" THEN Answer(HTTPStatus("InvalidArgument"))
                                      ELSE Call(Chosen(r).rpc, id)
      /\ UNCHANGED <<alive, serving, conn, count, req, srv, handled, effect, code, lines>>

\* The client stub: cc.Invoke sends the message when the connection is ready,
\* waits while it dials for the first time and fails once that has failed.
Invoke(c) ==
  /\ alive /\ gw[c] = "invoke"
  /\ \/ /\ conn = "ready"
        /\ gw' = [gw EXCEPT ![c] = "waiting"]
        /\ srv' = [srv EXCEPT ![c] = "decode"]
        /\ UNCHANGED status
     \/ /\ conn = "failed"
        /\ gw' = [gw EXCEPT ![c] = "log"]
        /\ WriteHeader(c, HTTPStatus("Unavailable"))
        /\ UNCHANGED srv
  /\ UNCHANGED <<alive, serving, conn, count, req, msg, handled, effect, code, rid, lines>>

\* The client goes away: its context ends the call of the stub.  The server
\* may not have read the message yet, and then drops it.
Disconnect(c) ==
  /\ alive /\ gw[c] \in {"invoke", "waiting", "reply"}
  /\ gw' = [gw EXCEPT ![c] = "log"]
  /\ WriteHeader(c, HTTPStatus("Canceled"))
  /\ \/ UNCHANGED srv
     \/ srv[c] = "decode" /\ srv' = [srv EXCEPT ![c] = "done"]
  /\ UNCHANGED <<alive, serving, conn, count, req, msg, handled, effect, code, rid, lines>>

\* MUTANT, StatusTellsEffect: the response is forwarded whatever err is.
ReplyUnchecked(c) ==
  /\ alive /\ gw[c] = "reply"
  /\ gw' = [gw EXCEPT ![c] = "log"]
  /\ WriteHeader(c, HTTPStatus("OK"))
  /\ UNCHANGED <<alive, serving, conn, count, req, srv, msg, handled, effect,
                 code, rid, lines>>

\* runtime.HTTPError or ForwardResponseMessage.
Reply(c) ==
  /\ alive /\ gw[c] = "reply"
  /\ gw' = [gw EXCEPT ![c] = "log"]
  /\ WriteHeader(c, HTTPStatus(code[c]))
  /\ UNCHANGED <<alive, serving, conn, count, req, srv, msg, handled, effect,
                 code, rid, lines>>

\* The end of HTTPMiddleware, after the response has been written.
LogHTTP(c) ==
  LET level == defaultHTTPDecider(status[c])
  IN  /\ alive /\ gw[c] = "log"
      /\ gw' = [gw EXCEPT ![c] = "done"]
      /\ Log(c, IF req[c].path = <<"metrics">> /\ level = "info" THEN "debug" ELSE level,
             "HTTP", rid[c])
      /\ UNCHANGED <<alive, serving, conn, req, srv, msg, handled, effect, code,
                     status, rid>>

-----------------------------------------------------------------------------
\* The gRPC server.

Stream == "Reflection"

\* A client calls the gRPC server itself.  A method nobody registered is
\* refused before any interceptor runs.
ReceiveGRPC(c) ==
  LET r == req[c]
  IN  /\ alive /\ srv[c] = "idle" /\ r.via = "grpc" /\ "grpc" \in serving
      /\ IF r.rpc = "Unregistered"
           THEN /\ srv' = [srv EXCEPT ![c] = "done"]
                /\ code' = [code EXCEPT ![c] = "Unimplemented"]
                /\ UNCHANGED msg
           ELSE /\ srv' = [srv EXCEPT ![c] = IF r.rpc = Stream THEN "handle" ELSE "decode"]
                /\ msg' = [msg EXCEPT ![c] = {[rpc |-> r.rpc,
                                               id |-> IF r.id = "empty" THEN "0" ELSE r.id]}]
                /\ UNCHANGED code
      /\ UNCHANGED <<alive, serving, conn, count, req, gw, handled, effect, status,
                     rid, lines>>

Sent(c) == CHOOSE m \in msg[c] : TRUE

\* The generated handler decodes the message before it calls the interceptors.
Decode(c) ==
  /\ alive /\ srv[c] = "decode"
  /\ IF Sent(c).id = "malformed"
       THEN /\ srv' = [srv EXCEPT ![c] = "done"]
            /\ code' = [code EXCEPT ![c] = "Internal"]
       ELSE /\ srv' = [srv EXCEPT ![c] = "intercept"]
            /\ UNCHANGED code
  /\ UNCHANGED <<alive, serving, conn, count, req, gw, msg, handled, effect, status,
                 rid, lines>>

\* MUTANT, HandlersAuthenticated: one route too many.
PublicAndLookUp ==
  {"CreateUser", "LoginUser", "RenewAccessToken", "VerifyEmail", "LookUpAccount"}

publicRoutes == {"CreateUser", "LoginUser", "RenewAccessToken", "VerifyEmail"}

\* authInterceptor.
Intercept(c) ==
  /\ alive /\ srv[c] = "intercept"
  /\ IF Sent(c).rpc \in publicRoutes \/ req[c].auth \in Users
       THEN /\ srv' = [srv EXCEPT ![c] = "handle"]
            /\ UNCHANGED code
       ELSE /\ srv' = [srv EXCEPT ![c] = "return"]
            /\ code' = [code EXCEPT ![c] = "Unauthenticated"]
  /\ UNCHANGED <<alive, serving, conn, count, req, gw, msg, handled, effect, status,
                 rid, lines>>

Mutating == {"CreateUser", "LoginUser", "VerifyEmail", "UpdateUser",
             "CreateAccount", "UpdateAccount", "DeleteAccount", "CreateTransfer"}

HandlerCodes == {"OK", "InvalidArgument", "Unauthenticated", "PermissionDenied",
                 "NotFound", "AlreadyExists", "FailedPrecondition", "Internal"}

\* What a handler is entered with.
Entry(c) ==
  LET rpc == Sent(c).rpc
  IN  [rpc |-> rpc, id |-> Sent(c).id,
       user |-> IF rpc \in publicRoutes \cup {Stream} THEN "none" ELSE req[c].auth]

\* The accounts that are gone.  An id is not given a second time.
Deleted ==
  {Sent(c).id : c \in {d \in Calls : effect[d] /\ Sent(d).rpc = "DeleteAccount"}}

\* The write of a handler is committed, and others see it before it answers.
Commit(c) ==
  /\ alive /\ srv[c] = "handle"
  /\ Sent(c).rpc \in Mutating /\ ~effect[c]
  /\ Sent(c).rpc = "DeleteAccount" => Sent(c).id \notin Deleted
  /\ effect' = [effect EXCEPT ![c] = TRUE]
  /\ handled' = [handled EXCEPT ![c] = {Entry(c)}]
  /\ UNCHANGED <<alive, serving, conn, count, req, gw, srv, msg, code, status, rid, lines>>

\* What a handler that answers OK has seen to.  To delete what another call has
\* deleted since authorizeAccount found it is no error, and changes nothing.
Done(c) ==
  IF Sent(c).rpc = "DeleteAccount" THEN Sent(c).id \in Deleted
  ELSE effect[c] <=> Sent(c).rpc \in Mutating

\* A handler of the service ends.  Once its write is committed only the reply to
\* it can be lost.  The reflection service changes nothing.
Handle(c) ==
  /\ alive /\ srv[c] = "handle"
  /\ srv' = [srv EXCEPT ![c] = "return"]
  /\ handled' = [handled EXCEPT ![c] = {Entry(c)}]
  /\ \E result \in IF Sent(c).rpc = Stream THEN {"OK", "Canceled"} ELSE HandlerCodes :
       /\ effect[c] => result \in {"OK", "Internal"}
       /\ result = "OK" => Done(c)
       /\ code' = [code EXCEPT ![c] = result]
  /\ UNCHANGED <<alive, serving, conn, count, req, gw, msg, effect, status, rid, lines>>

\* What extractGRPCFields finds under x-request-id.
IncomingId(c) ==
  IF req[c].via = "grpc" \/ "x-request-id" \in Forwarded THEN req[c].rid ELSE "none"

\* The end of UnaryServerInterceptor, and the answer.
Return(c) ==
  /\ alive /\ srv[c] = "return" /\ Sent(c).rpc # Stream
  /\ srv' = [srv EXCEPT ![c] = "done"]
  /\ gw' = [gw EXCEPT ![c] = IF @ = "waiting" THEN "reply" ELSE @]
  /\ Log(c, defaultDecider(code[c]), "gRPC", IncomingId(c))
  /\ UNCHANGED <<alive, serving, conn, req, msg, handled, effect, code, status, rid>>

\* The end of StreamServerInterceptor.
ReturnStream(c) ==
  /\ alive /\ srv[c] = "return" /\ Sent(c).rpc = Stream
  /\ srv' = [srv EXCEPT ![c] = "done"]
  /\ Log(c, defaultDecider(code[c]), "stream", IncomingId(c))
  /\ UNCHANGED <<alive, serving, conn, req, gw, msg, handled, effect, code, status, rid>>

-----------------------------------------------------------------------------
Finished(c) == IF req[c].via = "http"
               THEN gw[c] = "done" /\ srv[c] \in {"idle", "done"}
               ELSE srv[c] = "done"

\* Nothing is left to do, or nobody to do it.
Quiescent == (~alive \/ \A c \in Calls : Finished(c)) /\ UNCHANGED vars

Next ==
  \/ ListenHTTP \/ ListenGRPC \/ Connect \/ Fatal \/ Quiescent
  \/ \E k \in Levels \X Messages : Second(k)
  \/ \E c \in Calls :
       \/ ServeHTTP(c) \/ Invoke(c) \/ Disconnect(c) \/ Reply(c) \/ LogHTTP(c)
       \/ ReceiveGRPC(c) \/ Decode(c) \/ Intercept(c) \/ Commit(c) \/ Handle(c)
       \/ Return(c) \/ ReturnStream(c)

Spec == Init /\ [][Next]_vars

-----------------------------------------------------------------------------
\* Properties.

Message == [rpc : Rpcs \cup {Stream}, id : Ids \cup {"0", "malformed"}]

Entered == [rpc : Rpcs \cup {Stream}, id : Ids \cup {"0"}, user : Headers \cup {"none"}]

LineIds == RequestIds \cup Calls \cup {"none"}

Line == [message : Messages, level : Levels, rid : LineIds, kept : BOOLEAN]

\* Every variable stays in its range; in particular an id reaches a handler
\* only as a number.
TypeOK ==
  /\ alive \in BOOLEAN /\ serving \subseteq Listeners
  /\ conn \in {"idle", "ready", "failed"}
  /\ count \in [Levels \X Messages -> Nat]
  /\ req \in [Calls -> Requests]
  /\ gw \in [Calls -> {"idle", "invoke", "waiting", "reply", "log", "done"}]
  /\ srv \in [Calls -> {"idle", "decode", "intercept", "handle", "return", "done"}]
  /\ msg \in [Calls -> SUBSET Message]
  /\ handled \in [Calls -> SUBSET Entered]
  /\ effect \in [Calls -> BOOLEAN]
  /\ code \in [Calls -> HandlerCodes \cup {"none", "Unimplemented", "Canceled"}]
  /\ status \in [Calls -> {0, 200, 400, 401, 403, 404, 409, 499, 500, 501, 503}]
  /\ rid \in [Calls -> LineIds]
  /\ lines \in [Calls -> SUBSET Line]

\* The methods service_go_bank.proto declares with an empty security requirement.
Unprotected == {"CreateUser", "LoginUser", "RenewAccessToken", "VerifyEmail"}

\* Whichever way a call comes in, the handler of a protected method is entered
\* only on behalf of the user whose valid token came with the request: "all
\* auth and logging interceptors run for both REST and gRPC traffic".
HandlersAuthenticated ==
  \A c \in Calls : \A h \in handled[c] :
    h.rpc \in Rpcs \ Unprotected => h.user \in Users /\ h.user = req[c].auth

Variables(route) == {i \in 1..Len(route.pattern) : route.pattern[i] = "id"}

\* A request reaches the method whose template fits its path most literally,
\* /v1/accounts/lookup not being the account "lookup", and the handler sees
\* the id of the path, whatever the body says.
RoutedAsDocumented ==
  \A c \in Calls : req[c].via = "http" =>
    \A h \in handled[c] : \E i \in Candidates(req[c]) :
      /\ h.rpc = Routes[i].rpc
      /\ \A j \in Candidates(req[c]) :
           Cardinality(Variables(Routes[i])) <= Cardinality(Variables(Routes[j]))
      /\ \A v \in Variables(Routes[i]) : h.id = req[c].path[v]

\* What a client may conclude from a status, though the connection, the client
\* or the process may have failed at any moment.  200 of DeleteAccount means that
\* the account is gone, by this call or by one that overtook it; 200 of another
\* method that changes the database, that this call has changed it; an error
\* other than 500 and 499, that it has not.
StatusTellsEffect ==
  \A c \in Calls :
    /\ status[c] = 200 /\ handled[c] # None =>
         IF Sent(c).rpc = "DeleteAccount"
         THEN Sent(c).id \in Deleted
         ELSE effect[c] <=> Sent(c).rpc \in Mutating
    /\ status[c] \notin {0, 200, 499, 500} => ~effect[c]

LinesOf(c, message) == {l \in lines[c] : l.message = message}

\* Sampling drops a line only when Initial lines of its own level and message
\* have been kept: a flood of one kind hides no line of another.
LinesKept ==
  \A c \in Calls : \A l \in lines[c] : ~l.kept =>
    Cardinality({d \in Calls :
      \E k \in lines[d] : k.kept /\ k.level = l.level /\ k.message = l.message}) >= Initial

\* The lines tell one story of a call.  A request that names its request id
\* finds it in the response and in every line about it, on both sides, and
\* unless the client has gone away the gateway and the gRPC server, deciding by
\* status and by code, log the call at the same level.
LinesAgree ==
  \A c \in Calls :
    /\ req[c].rid # "none" =>
         \A l \in lines[c] : l.rid = req[c].rid /\ rid[c] \in {"none", l.rid}
    /\ status[c] # 499 =>
         \A h \in LinesOf(c, "HTTP") : \A g \in LinesOf(c, "gRPC") :
           h.level = g.level

\* VIOLATED: every line the gRPC server logs about an HTTP request carries the
\* id of the HTTP line, as the comment of UnaryServerInterceptor shows it.  An
\* id the middleware generated stays in the HTTP response and context; the
\* metadata of the gRPC call are made from the request's headers.
EveryCallCorrelated ==
  \A c \in Calls : \A h \in LinesOf(c, "HTTP") : \A g \in LinesOf(c, "gRPC") :
    g.rid = h.rid
=============================================================================
