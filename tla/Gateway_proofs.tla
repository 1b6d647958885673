--------------------------- MODULE Gateway_proofs ---------------------------
(***************************************************************************)
(* For any number of calls, any users and any requests: whichever way a    *)
(* call comes in, the handler of a protected method runs only for the user *)
(* of a valid token (HandlersAuthenticated), it is the handler of the most *)
(* literal template and sees the id of the path (RoutedAsDocumented); a    *)
(* status tells what has become of the database (StatusTellsEffect); the   *)
(* two sides' log lines agree (LinesAgree) and are dropped only in a flood *)
(* of their own kind (LinesKept).                                          *)
(***************************************************************************)
EXTENDS Gateway, FiniteSetTheorems, TLAPS

\* An HTTP request nobody has looked at has not reached the gRPC server, so the
\* gateway never replaces the message of a call that was let through.
Untouched ==
  \A c \in Calls : req[c].via = "http" /\ gw[c] = "idle" => srv[c] = "idle"

\* What the auth interceptor, or its absence on streams, has let through.
LetThrough ==
  \A c \in Calls : srv[c] = "handle" =>
    Sent(c).rpc \in publicRoutes \cup {Stream} \/ req[c].auth \in Users

Domains == /\ DOMAIN gw = Calls /\ DOMAIN srv = Calls
           /\ DOMAIN msg = Calls /\ DOMAIN handled = Calls

AuthInv == Domains /\ Untouched /\ LetThrough /\ HandlersAuthenticated

\* The message that was sent is the one in the call's slot.
LEMMA SentIsMessage ==
  ASSUME NEW c \in Calls, NEW m, msg[c] = {m}
  PROVE  Sent(c) = m
BY DEF Sent

\* The steps of the gRPC server that come after a call has arrived.
Beyond == {"decode", "intercept", "handle", "return", "done"}

\* Steps that enter no handler and let nothing through keep the invariant.
LEMMA Elsewhere ==
  ASSUME AuthInv, UNCHANGED <<req, msg, handled>>,
         DOMAIN gw' = Calls, DOMAIN srv' = Calls,
         \A c \in Calls : srv'[c] = "handle" => srv[c] = "handle",
         \A c \in Calls : gw'[c] = "idle" => gw[c] = "idle" /\ srv[c] \in {srv'[c]} \cup Beyond
  PROVE  AuthInv'
<1>1. Domains' BY DEF AuthInv, Domains
<1>2. Untouched' BY DEF AuthInv, Untouched, Beyond
<1>3. LetThrough' BY DEF AuthInv, LetThrough, Sent
<1>4. HandlersAuthenticated' BY DEF AuthInv, HandlersAuthenticated
<1> QED BY <1>1, <1>2, <1>3, <1>4 DEF AuthInv

LEMMA InitAuth == Init => AuthInv
BY DEF Init, AuthInv, Domains, Untouched, LetThrough, HandlersAuthenticated, None

\* A message is put into the slot of a call only before the call is let through.
LEMMA ServeHTTPAuth ==
  ASSUME AuthInv, NEW c \in Calls, ServeHTTP(c)
  PROVE  AuthInv'
<1> USE DEF AuthInv
<1>1. /\ DOMAIN gw' = Calls /\ DOMAIN msg' = Calls /\ srv[c] = "idle" /\ gw'[c] # "idle"
      /\ \A d \in Calls \ {c} : gw'[d] = gw[d] /\ msg'[d] = msg[d]
      /\ UNCHANGED <<req, srv, handled>>
  BY DEF ServeHTTP, Domains, Untouched
<1>2. Domains' BY <1>1 DEF Domains
<1>3. Untouched' BY <1>1 DEF Untouched
<1>4. LetThrough' BY <1>1 DEF LetThrough, Sent
<1>5. HandlersAuthenticated' BY <1>1 DEF HandlersAuthenticated
<1> QED BY <1>2, <1>3, <1>4, <1>5

\* Only the reflection stream goes past the auth interceptor.
LEMMA ReceiveAuth ==
  ASSUME AuthInv, NEW c \in Calls, ReceiveGRPC(c)
  PROVE  AuthInv'
<1> USE DEF AuthInv
<1>1. /\ DOMAIN srv' = Calls /\ DOMAIN msg' = Calls /\ req[c].via = "grpc"
      /\ \A d \in Calls \ {c} : srv'[d] = srv[d] /\ msg'[d] = msg[d]
      /\ UNCHANGED <<req, gw, handled>>
  BY DEF ReceiveGRPC, Domains
<1>2. ASSUME srv'[c] = "handle" PROVE Sent(c)'.rpc = Stream
  <2> DEFINE id  == IF req[c].id = "empty" THEN "0" ELSE req[c].id
             m   == [rpc |-> req[c].rpc, id |-> id]
  <2>1. msg'[c] = {m} /\ req[c].rpc = Stream
    BY <1>2 DEF ReceiveGRPC, Domains
  <2>2. Sent(c)' = m BY <2>1 DEF Sent
  <2> QED BY <2>1, <2>2
<1>3. Domains' BY <1>1 DEF Domains
<1>4. Untouched' BY <1>1 DEF Untouched
<1>5. ASSUME NEW d \in Calls, srv'[d] = "handle"
      PROVE  Sent(d)'.rpc \in publicRoutes \cup {Stream} \/ req'[d].auth \in Users
  <2>1. CASE d = c BY <1>2, <1>5, <2>1
  <2>2. CASE d # c
    <3>1. Sent(d)' = Sent(d) BY <1>1, <2>2 DEF Sent
    <3> QED BY <1>1, <1>5, <2>2, <3>1 DEF LetThrough
  <2> QED BY <2>1, <2>2
<1>6. LetThrough' BY <1>5 DEF LetThrough
<1>7. HandlersAuthenticated' BY <1>1 DEF HandlersAuthenticated
<1> QED BY <1>3, <1>4, <1>6, <1>7

\* authInterceptor lets through the public methods and the users.
LEMMA InterceptAuth ==
  ASSUME AuthInv, NEW c \in Calls, Intercept(c)
  PROVE  AuthInv'
<1> USE DEF AuthInv
<1>1. /\ DOMAIN srv' = Calls /\ srv[c] = "intercept"
      /\ srv'[c] = "handle" => Sent(c).rpc \in publicRoutes \/ req[c].auth \in Users
      /\ \A d \in Calls \ {c} : srv'[d] = srv[d]
      /\ UNCHANGED <<req, gw, msg, handled>>
  BY DEF Intercept, Domains
<1>2. Domains' BY <1>1 DEF Domains
<1>3. Untouched' BY <1>1 DEF Untouched
<1>4. \A d \in Calls : Sent(d)' = Sent(d) BY <1>1 DEF Sent
<1>5. LetThrough' BY <1>1, <1>4 DEF LetThrough
<1>6. HandlersAuthenticated' BY <1>1 DEF HandlersAuthenticated
<1> QED BY <1>2, <1>3, <1>5, <1>6

\* A handler that is entered for a protected method finds a user.
LEMMA HandleAuth ==
  ASSUME AuthInv, NEW c \in Calls, Commit(c) \/ Handle(c)
  PROVE  AuthInv'
<1> USE DEF AuthInv
<1>1. /\ DOMAIN srv' = Calls /\ DOMAIN handled' = Calls
      /\ srv[c] = "handle" /\ srv'[c] \in {"handle", "return"} /\ handled'[c] = {Entry(c)}
      /\ \A d \in Calls \ {c} : srv'[d] = srv[d] /\ handled'[d] = handled[d]
      /\ UNCHANGED <<req, gw, msg>>
  BY DEF Commit, Handle, Domains
<1>2. Domains' BY <1>1 DEF Domains
<1>3. Untouched' BY <1>1 DEF Untouched
<1>4. \A d \in Calls : Sent(d)' = Sent(d) BY <1>1 DEF Sent
<1>5. LetThrough' BY <1>1, <1>4 DEF LetThrough
<1>6. Entry(c).rpc \in Rpcs \ Unprotected =>
        Entry(c).user \in Users /\ Entry(c).user = req[c].auth
  BY <1>1 DEF LetThrough, Entry, Unprotected, publicRoutes, Rpcs, Stream
<1>7. HandlersAuthenticated' BY <1>1, <1>6 DEF HandlersAuthenticated
<1> QED BY <1>2, <1>3, <1>5, <1>7

\* The steps of the process, which touch no call.
LEMMA ProcessAuth ==
  ASSUME AuthInv, UNCHANGED <<req, gw, srv, msg, handled>>
  PROVE  AuthInv'
BY Elsewhere DEF AuthInv, Domains

\* The steps of the gateway after ServeHTTP.
LEMMA GatewayAuth ==
  ASSUME AuthInv, NEW c \in Calls,
         Invoke(c) \/ Disconnect(c) \/ Reply(c) \/ LogHTTP(c)
  PROVE  AuthInv'
<1>1. /\ UNCHANGED <<req, msg, handled>>
      /\ DOMAIN gw' = Calls /\ gw'[c] # "idle" /\ \A d \in Calls \ {c} : gw'[d] = gw[d]
  BY DEF Invoke, Disconnect, Reply, LogHTTP, AuthInv, Domains
<1>2. /\ DOMAIN srv' = Calls /\ \A d \in Calls \ {c} : srv'[d] = srv[d]
      /\ srv'[c] \in {srv[c], "decode", "done"}
  BY DEF Invoke, Disconnect, Reply, LogHTTP, AuthInv, Domains
<1> QED BY <1>1, <1>2, Elsewhere

\* The steps of the gRPC server before and after the interceptors and the handler.
LEMMA ServerAuth ==
  ASSUME AuthInv, NEW c \in Calls, Decode(c) \/ Return(c) \/ ReturnStream(c)
  PROVE  AuthInv'
<1>1. /\ UNCHANGED <<req, msg, handled>>
      /\ DOMAIN gw' = Calls /\ \A d \in Calls : gw'[d] = "idle" => gw[d] = "idle"
  BY DEF Decode, Return, ReturnStream, AuthInv, Domains
<1>2. /\ DOMAIN srv' = Calls /\ \A d \in Calls \ {c} : srv'[d] = srv[d]
      /\ srv[c] \in Beyond /\ srv'[c] # "handle"
  BY DEF Decode, Return, ReturnStream, AuthInv, Domains, Beyond
<1> QED BY <1>1, <1>2, Elsewhere

LEMMA NextAuth == AuthInv /\ [Next]_vars => AuthInv'
<1> SUFFICES ASSUME AuthInv, [Next]_vars PROVE AuthInv' OBVIOUS
<1>1. CASE UNCHANGED vars BY <1>1, ProcessAuth DEF vars
<1>2. CASE ListenHTTP \/ ListenGRPC \/ Connect \/ Fatal \/ Quiescent
  BY <1>2, ProcessAuth DEF ListenHTTP, ListenGRPC, Listen, Connect, Fatal, Quiescent, vars
<1>3. CASE \E k \in Levels \X Messages : Second(k)
  BY <1>3, ProcessAuth DEF Second
<1>4. ASSUME NEW c \in Calls, ServeHTTP(c) PROVE AuthInv' BY <1>4, ServeHTTPAuth
<1>5. ASSUME NEW c \in Calls, Invoke(c) \/ Disconnect(c) \/ Reply(c) \/ LogHTTP(c)
      PROVE  AuthInv'
  BY <1>5, GatewayAuth
<1>6. ASSUME NEW c \in Calls, ReceiveGRPC(c) PROVE AuthInv' BY <1>6, ReceiveAuth
<1>7. ASSUME NEW c \in Calls, Decode(c) \/ Return(c) \/ ReturnStream(c) PROVE AuthInv'
  BY <1>7, ServerAuth
<1>8. ASSUME NEW c \in Calls, Intercept(c) PROVE AuthInv' BY <1>8, InterceptAuth
<1>9. ASSUME NEW c \in Calls, Commit(c) \/ Handle(c) PROVE AuthInv' BY <1>9, HandleAuth
<1> QED BY <1>1, <1>2, <1>3, <1>4, <1>5, <1>6, <1>7, <1>8, <1>9 DEF Next

\* HandlersAuthenticated: by REST, by gRPC, or on the unguarded stream, the
\* handler of a protected method runs only for the user whose valid token came
\* with the request.
THEOREM Authenticated == Spec => []HandlersAuthenticated
<1>1. AuthInv => HandlersAuthenticated BY DEF AuthInv
<1> QED BY InitAuth, NextAuth, <1>1, PTL DEF Spec

-----------------------------------------------------------------------------
(* StatusTellsEffect.  The property is about the end of a call; the        *)
(* invariant says at each step what the two sides know of each other.      *)

\* The code tells of the effect, once the handler has ended or been left out.
CodeTells(c) ==
  /\ code[c] = "OK" /\ handled[c] # None => Done(c)
  /\ effect[c] => code[c] \in {"OK", "Internal"}

\* What the status of one call tells.
StatusTells(c) ==
  /\ status[c] = 200 /\ handled[c] # None => Done(c)
  /\ status[c] \notin {0, 200, 499, 500} => ~effect[c]

\* A call is in the gateway, then in the gRPC server, and has a status only when
\* nothing can happen to it in the server any more, or the client is gone.
Progress(c) ==
  /\ gw[c] \in {"idle", "invoke", "waiting", "reply"} => status[c] = 0
  /\ req[c].via = "grpc" => gw[c] = "idle"
  /\ req[c].via = "http" /\ gw[c] = "idle" => srv[c] = "idle"
  /\ gw[c] = "invoke" => srv[c] = "idle"
  /\ gw[c] = "reply" => srv[c] = "done"
  /\ srv[c] \in {"idle", "decode", "intercept"} => ~effect[c] /\ handled[c] = None
  /\ srv[c] \in {"return", "done"} => CodeTells(c)
  /\ status[c] \notin {0, 499} => srv[c] \in {"idle", "done"} /\ StatusTells(c)

Shapes == /\ DOMAIN gw = Calls /\ DOMAIN srv = Calls /\ DOMAIN msg = Calls
          /\ DOMAIN handled = Calls /\ DOMAIN code = Calls /\ DOMAIN status = Calls
          /\ effect \in [Calls -> BOOLEAN]

StatusInv == Shapes /\ \A c \in Calls : Progress(c)

\* What a step may leave alone of a call.
Same(d) == /\ gw'[d] = gw[d] /\ srv'[d] = srv[d] /\ msg'[d] = msg[d]
           /\ handled'[d] = handled[d] /\ effect'[d] = effect[d]
           /\ code'[d] = code[d] /\ status'[d] = status[d]

\* What is deleted stays deleted: a message does not change once its handler has
\* committed, and neither does that it has.
LEMMA DeletedStays ==
  ASSUME \A d \in Calls : effect[d] => effect'[d] /\ msg'[d] = msg[d]
  PROVE  Deleted \subseteq Deleted'
<1>1. \A d \in Calls : effect[d] => Sent(d)' = Sent(d) BY DEF Sent
<1> QED BY <1>1 DEF Deleted

\* So a handler that has seen to what it was asked for stays so.
LEMMA DoneStays ==
  ASSUME NEW d \in Calls, Done(d), msg'[d] = msg[d], effect'[d] = effect[d],
         Deleted \subseteq Deleted'
  PROVE  Done(d)'
<1>1. Sent(d)' = Sent(d) BY DEF Sent
<1> QED BY <1>1 DEF Done

LEMMA SameProgress ==
  ASSUME NEW d \in Calls, Progress(d), Same(d), req' = req, Deleted \subseteq Deleted'
  PROVE  Progress(d)'
<1>1. Done(d) => Done(d)' BY DoneStays DEF Same
<1> QED BY <1>1 DEF Progress, Same, CodeTells, StatusTells, None

\* A step of one call has to be looked at for that call only.
LEMMA OneCall ==
  ASSUME StatusInv, NEW c \in Calls, Shapes', Progress(c)', req' = req,
         Deleted \subseteq Deleted', \A d \in Calls \ {c} : Same(d)
  PROVE  StatusInv'
<1>1. ASSUME NEW d \in Calls PROVE Progress(d)'
  <2>1. CASE d = c BY <2>1
  <2>2. CASE d # c BY <2>2, SameProgress DEF StatusInv
  <2> QED BY <2>1, <2>2
<1> QED BY <1>1 DEF StatusInv

LEMMA NoCall ==
  ASSUME StatusInv, UNCHANGED <<req, gw, srv, msg, handled, effect, code, status>>
  PROVE  StatusInv'
<1>1. \A d \in Calls : Same(d) BY DEF Same
<1>2. Shapes' BY DEF StatusInv, Shapes
<1>3. Deleted \subseteq Deleted' BY DeletedStays
<1> QED BY <1>1, <1>2, <1>3, SameProgress DEF StatusInv

\* HTTPStatus keeps success, failure and what lies between apart.
LEMMA StatusOfCode ==
  ASSUME NEW x
  PROVE  /\ HTTPStatus(x) = 200 => x = "OK"
         /\ HTTPStatus(x) # 0
         /\ x = "Internal" => HTTPStatus(x) = 500
         /\ x = "OK" => HTTPStatus(x) = 200
         /\ HTTPStatus("Canceled") = 499
         /\ HTTPStatus("Unavailable") = 503
         /\ HTTPStatus("InvalidArgument") = 400
         /\ HTTPStatus("NotFound") = 404
         /\ HTTPStatus("Unimplemented") = 501
BY DEF HTTPStatus

LEMMA InitStatus == Init => StatusInv
BY DEF Init, StatusInv, Shapes, Progress, None

\* The steps of the gateway.  It gives a status once, and while the client is
\* there only to a call the server has done with, or never got.
LEMMA GatewayStatus ==
  ASSUME StatusInv, NEW c \in Calls,
         ServeHTTP(c) \/ Invoke(c) \/ Disconnect(c) \/ Reply(c) \/ LogHTTP(c)
  PROVE  StatusInv'
<1> USE DEF WriteHeader
<1>1. Shapes /\ Progress(c) BY DEF StatusInv
<1>2. CASE ServeHTTP(c)
  <2>1. /\ srv[c] = "idle" /\ handled[c] = None /\ ~effect[c] /\ req[c].via = "http"
        /\ gw'[c] \in {"invoke", "log", "done"}
        /\ gw'[c] = "invoke" => status'[c] = 0
    BY <1>1, <1>2 DEF ServeHTTP, Progress, Shapes
  <2>2. /\ UNCHANGED <<req, srv, handled, effect, code>>
        /\ DOMAIN gw' = Calls /\ DOMAIN msg' = Calls /\ DOMAIN status' = Calls
        /\ \A d \in Calls \ {c} : gw'[d] = gw[d] /\ msg'[d] = msg[d] /\ status'[d] = status[d]
    BY <1>1, <1>2 DEF ServeHTTP, Shapes
  <2>3. Progress(c)' BY <2>1, <2>2 DEF Progress, StatusTells
  <2>4. Deleted \subseteq Deleted' BY <2>1, <2>2, DeletedStays
  <2> QED BY <1>1, <2>2, <2>3, <2>4, OneCall DEF Shapes, Same
<1>3. CASE Invoke(c)
  <2>1. /\ srv[c] = "idle" /\ handled[c] = None /\ ~effect[c] /\ req[c].via # "grpc"
        /\ \/ gw'[c] = "waiting" /\ srv'[c] = "decode" /\ status'[c] = 0
           \/ gw'[c] = "log" /\ srv'[c] = "idle"
    BY <1>1, <1>3 DEF Invoke, Progress, Shapes
  <2>2. /\ UNCHANGED <<req, msg, handled, effect, code>>
        /\ DOMAIN gw' = Calls /\ DOMAIN srv' = Calls /\ DOMAIN status' = Calls
        /\ \A d \in Calls \ {c} : gw'[d] = gw[d] /\ srv'[d] = srv[d] /\ status'[d] = status[d]
    BY <1>1, <1>3 DEF Invoke, Shapes
  <2>3. Progress(c)' BY <2>1, <2>2 DEF Progress, StatusTells
  <2>4. Deleted \subseteq Deleted' BY <2>2, DeletedStays
  <2> QED BY <1>1, <2>2, <2>3, <2>4, OneCall DEF Shapes, Same
<1>4. CASE Disconnect(c)
  <2>1. /\ gw'[c] = "log" /\ status'[c] = 499 /\ req[c].via # "grpc"
        /\ srv'[c] = srv[c] \/ (srv[c] = "decode" /\ srv'[c] = "done")
    BY <1>1, <1>4, StatusOfCode DEF Disconnect, Progress, Shapes
  <2>2. /\ UNCHANGED <<req, msg, handled, effect, code>>
        /\ DOMAIN gw' = Calls /\ DOMAIN srv' = Calls /\ DOMAIN status' = Calls
        /\ \A d \in Calls \ {c} : gw'[d] = gw[d] /\ srv'[d] = srv[d] /\ status'[d] = status[d]
    BY <1>1, <1>4 DEF Disconnect, Shapes
  <2>3. Deleted \subseteq Deleted' BY <2>2, DeletedStays
  <2>4. Done(c) => Done(c)' BY <2>2, <2>3, DoneStays
  <2>5. Progress(c)' BY <1>1, <2>1, <2>2, <2>4 DEF Progress, CodeTells, None
  <2> QED BY <1>1, <2>2, <2>3, <2>5, OneCall DEF Shapes, Same
<1>5. CASE Reply(c)
  <2>1. /\ srv[c] = "done" /\ CodeTells(c) /\ req[c].via # "grpc"
        /\ gw'[c] = "log" /\ status'[c] = HTTPStatus(code[c])
    BY <1>1, <1>5 DEF Reply, Progress, Shapes
  <2>2. /\ UNCHANGED <<req, srv, msg, handled, effect, code>>
        /\ DOMAIN gw' = Calls /\ DOMAIN status' = Calls
        /\ \A d \in Calls \ {c} : gw'[d] = gw[d] /\ status'[d] = status[d]
    BY <1>1, <1>5 DEF Reply, Shapes
  <2>3. Deleted \subseteq Deleted' BY <2>2, DeletedStays
  <2>4. Done(c) => Done(c)' BY <2>2, <2>3, DoneStays
  <2>5. CodeTells(c)' BY <2>1, <2>2, <2>4 DEF CodeTells, None
  <2>6. StatusTells(c)'
    BY <2>1, <2>2, <2>4, StatusOfCode DEF CodeTells, StatusTells, None
  <2>7. Progress(c)' BY <2>1, <2>2, <2>5, <2>6 DEF Progress
  <2> QED BY <1>1, <2>2, <2>3, <2>7, OneCall DEF Shapes, Same
<1>6. CASE LogHTTP(c)
  <2>1. /\ gw[c] = "log" /\ gw'[c] = "done" /\ req[c].via # "grpc"
        /\ UNCHANGED <<req, srv, msg, handled, effect, code, status>>
    BY <1>1, <1>6 DEF LogHTTP, Progress, Shapes
  <2>2. /\ DOMAIN gw' = Calls /\ \A d \in Calls \ {c} : gw'[d] = gw[d]
    BY <1>1, <1>6 DEF LogHTTP, Shapes
  <2>3. Deleted \subseteq Deleted' BY <2>1, DeletedStays
  <2>4. Done(c) => Done(c)' BY <2>1, <2>3, DoneStays
  <2>5. Progress(c)' BY <1>1, <2>1, <2>4 DEF Progress, CodeTells, StatusTells, None
  <2> QED BY <1>1, <2>1, <2>2, <2>3, <2>5, OneCall DEF Shapes, Same
<1> QED BY <1>2, <1>3, <1>4, <1>5, <1>6

\* The steps of the gRPC server.
LEMMA ServerStatus ==
  ASSUME StatusInv, NEW c \in Calls,
         \/ ReceiveGRPC(c) \/ Decode(c) \/ Intercept(c) \/ Commit(c) \/ Handle(c)
         \/ Return(c) \/ ReturnStream(c)
  PROVE  StatusInv'
<1>1. Shapes /\ Progress(c) BY DEF StatusInv
<1>2. CASE ReceiveGRPC(c)
  <2>1. /\ srv[c] = "idle" /\ handled[c] = None /\ ~effect[c]
        /\ req[c].via = "grpc" /\ gw[c] = "idle" /\ status[c] = 0
        /\ srv'[c] \in {"done", "handle", "decode"}
    BY <1>1, <1>2 DEF ReceiveGRPC, Progress, Shapes
  <2>2. /\ UNCHANGED <<req, gw, handled, effect, status>>
        /\ DOMAIN srv' = Calls /\ DOMAIN msg' = Calls /\ DOMAIN code' = Calls
        /\ \A d \in Calls \ {c} : srv'[d] = srv[d] /\ msg'[d] = msg[d] /\ code'[d] = code[d]
    BY <1>1, <1>2 DEF ReceiveGRPC, Shapes
  <2>3. Progress(c)' BY <2>1, <2>2 DEF Progress, CodeTells, None
  <2>4. Deleted \subseteq Deleted' BY <2>1, <2>2, DeletedStays
  <2> QED BY <1>1, <2>2, <2>3, <2>4, OneCall DEF Shapes, Same
<1>3. CASE Decode(c) \/ Intercept(c)
  <2>1. /\ srv[c] \in {"decode", "intercept"}
        /\ srv'[c] \in {"intercept", "handle", "return", "done"}
    BY <1>1, <1>3 DEF Decode, Intercept, Shapes
  <2>2. /\ UNCHANGED <<req, gw, msg, handled, effect, status>>
        /\ DOMAIN srv' = Calls /\ DOMAIN code' = Calls
        /\ \A d \in Calls \ {c} : srv'[d] = srv[d] /\ code'[d] = code[d]
    BY <1>1, <1>3 DEF Decode, Intercept, Shapes
  <2>3. Progress(c)' BY <1>1, <2>1, <2>2 DEF Progress, CodeTells, None
  <2>4. Deleted \subseteq Deleted' BY <2>2, DeletedStays
  <2> QED BY <1>1, <2>2, <2>3, <2>4, OneCall DEF Shapes, Same
<1>4. CASE Handle(c)
  <2>1. PICK result : /\ code' = [code EXCEPT ![c] = result]
                      /\ effect[c] => result \in {"OK", "Internal"}
                      /\ result = "OK" => Done(c)
    BY <1>4 DEF Handle
  <2>2. /\ srv[c] = "handle" /\ srv'[c] = "return"
        /\ UNCHANGED <<req, gw, msg, effect, status>>
        /\ DOMAIN srv' = Calls /\ DOMAIN handled' = Calls
        /\ \A d \in Calls \ {c} : srv'[d] = srv[d] /\ handled'[d] = handled[d]
    BY <1>1, <1>4 DEF Handle, Shapes
  <2>3. code'[c] = result BY <1>1, <2>1 DEF Shapes
  <2>4. Deleted \subseteq Deleted' BY <2>2, DeletedStays
  <2>5. Done(c) => Done(c)' BY <2>2, <2>4, DoneStays
  <2>6. CodeTells(c)' BY <2>1, <2>2, <2>3, <2>5 DEF CodeTells
  <2>7. Progress(c)' BY <1>1, <2>2, <2>6 DEF Progress
  <2>8. Shapes' BY <1>1, <2>1, <2>2 DEF Shapes
  <2>9. \A d \in Calls \ {c} : Same(d) BY <1>1, <2>1, <2>2 DEF Shapes, Same
  <2> QED BY <2>2, <2>4, <2>7, <2>8, <2>9, OneCall
<1>5. CASE Return(c) \/ ReturnStream(c)
  <2>1. /\ srv[c] = "return" /\ srv'[c] = "done"
        /\ gw'[c] = gw[c] \/ (gw[c] = "waiting" /\ gw'[c] = "reply")
    BY <1>1, <1>5 DEF Return, ReturnStream, Shapes
  <2>2. /\ UNCHANGED <<req, msg, handled, effect, code, status>>
        /\ DOMAIN srv' = Calls /\ DOMAIN gw' = Calls
        /\ \A d \in Calls \ {c} : srv'[d] = srv[d] /\ gw'[d] = gw[d]
    BY <1>1, <1>5 DEF Return, ReturnStream, Shapes
  <2>3. Deleted \subseteq Deleted' BY <2>2, DeletedStays
  <2>4. Done(c) => Done(c)' BY <2>2, <2>3, DoneStays
  <2>5. Progress(c)' BY <1>1, <2>1, <2>2, <2>4 DEF Progress, CodeTells, None
  <2> QED BY <1>1, <2>2, <2>3, <2>5, OneCall DEF Shapes, Same
<1>6. CASE Commit(c)
  <2>1. /\ srv[c] = "handle" /\ UNCHANGED <<req, gw, srv, msg, code, status>>
        /\ effect' = [effect EXCEPT ![c] = TRUE]
        /\ handled' = [handled EXCEPT ![c] = {Entry(c)}]
    BY <1>6 DEF Commit
  <2>2. Shapes' /\ \A d \in Calls \ {c} : Same(d) BY <1>1, <2>1 DEF Shapes, Same
  <2>3. Deleted \subseteq Deleted' BY <1>1, <2>1, DeletedStays DEF Shapes
  <2>4. Progress(c)' BY <1>1, <2>1 DEF Progress
  <2> QED BY <2>1, <2>2, <2>3, <2>4, OneCall
<1> QED BY <1>2, <1>3, <1>4, <1>5, <1>6

LEMMA NextStatus == StatusInv /\ [Next]_vars => StatusInv'
<1> SUFFICES ASSUME StatusInv, [Next]_vars PROVE StatusInv' OBVIOUS
<1>1. CASE UNCHANGED vars BY <1>1, NoCall DEF vars
<1>2. CASE ListenHTTP \/ ListenGRPC \/ Connect \/ Fatal \/ Quiescent
  BY <1>2, NoCall DEF ListenHTTP, ListenGRPC, Listen, Connect, Fatal, Quiescent, vars
<1>3. CASE \E k \in Levels \X Messages : Second(k) BY <1>3, NoCall DEF Second
<1>4. ASSUME NEW c \in Calls,
             ServeHTTP(c) \/ Invoke(c) \/ Disconnect(c) \/ Reply(c) \/ LogHTTP(c)
      PROVE  StatusInv'
  BY <1>4, GatewayStatus
<1>5. ASSUME NEW c \in Calls,
             \/ ReceiveGRPC(c) \/ Decode(c) \/ Intercept(c) \/ Commit(c) \/ Handle(c)
             \/ Return(c) \/ ReturnStream(c)
      PROVE  StatusInv'
  BY <1>5, ServerStatus
<1> QED BY <1>1, <1>2, <1>3, <1>4, <1>5 DEF Next

\* StatusTellsEffect: a client may take 200 for a change this call has made, or of
\* DeleteAccount for an account that is gone, whichever call deleted it, and an
\* error other than 500 and 499 for no change by this call, whoever has failed or
\* gone away, and when.
THEOREM StatusHonest == Spec => []StatusTellsEffect
<1>1. StatusInv => StatusTellsEffect
  BY DEF StatusInv, Progress, StatusTells, Done, StatusTellsEffect
<1> QED BY InitStatus, NextStatus, <1>1, PTL DEF Spec

-----------------------------------------------------------------------------
(* The routes.                                                             *)

LEMMA Concatenation ==
  ASSUME NEW S, NEW s \in Seq(S), NEW t \in Seq(S)
  PROVE  /\ Len(s \o t) = Len(s) + Len(t)
         /\ \A i \in 1..Len(s) : (s \o t)[i] = s[i]
         /\ \A i \in 1..Len(t) : (s \o t)[Len(s) + i] = t[i]
OBVIOUS

\* A template without a variable.
Literal(route) ==
  Len(route.pattern) \in 2..3 /\ \A k \in 1..Len(route.pattern) : route.pattern[k] # "id"

\* The templates of one and of two segments after the version.
LEMMA ShortRoute ==
  ASSUME NEW verb, NEW a, NEW rpc, NEW sources
  PROVE  LET route == Route(verb, <<a>>, rpc, sources)
         IN  /\ route.verb = verb /\ route.rpc = rpc /\ route.sources = sources
             /\ Len(route.pattern) = 2
             /\ route.pattern[1] = "v1" /\ route.pattern[2] = a
             /\ a # "id" => Literal(route)
<1>1. ASSUME NEW v
      PROVE  Len(<<v>> \o <<a>>) = 2 /\ (<<v>> \o <<a>>)[1] = v /\ (<<v>> \o <<a>>)[2] = a
  OBVIOUS
<1>2. PICK v : v = "v1" OBVIOUS
<1>3. PICK route : route = Route(verb, <<a>>, rpc, sources) OBVIOUS
<1>4. /\ route.verb = verb /\ route.rpc = rpc /\ route.sources = sources
      /\ Len(route.pattern) = 2 /\ route.pattern[1] = "v1" /\ route.pattern[2] = a
  BY <1>1, <1>2, <1>3 DEF Route
<1>5. a # "id" => Literal(route)
  <2>1. \A k \in 1..2 : k = 1 \/ k = 2 OBVIOUS
  <2> QED BY <1>4, <2>1 DEF Literal
<1> QED BY <1>3, <1>4, <1>5

LEMMA LongRoute ==
  ASSUME NEW verb, NEW a, NEW b, NEW rpc, NEW sources
  PROVE  LET route == Route(verb, <<a, b>>, rpc, sources)
         IN  /\ route.verb = verb /\ route.rpc = rpc /\ route.sources = sources
             /\ Len(route.pattern) = 3
             /\ route.pattern[1] = "v1" /\ route.pattern[2] = a /\ route.pattern[3] = b
             /\ a # "id" /\ b # "id" => Literal(route)
<1>1. ASSUME NEW v
      PROVE  /\ Len(<<v>> \o <<a, b>>) = 3 /\ (<<v>> \o <<a, b>>)[1] = v
             /\ (<<v>> \o <<a, b>>)[2] = a /\ (<<v>> \o <<a, b>>)[3] = b
  OBVIOUS
<1>2. PICK v : v = "v1" OBVIOUS
<1>3. PICK route : route = Route(verb, <<a, b>>, rpc, sources) OBVIOUS
<1>4. /\ route.verb = verb /\ route.rpc = rpc /\ route.sources = sources
      /\ Len(route.pattern) = 3
      /\ route.pattern[1] = "v1" /\ route.pattern[2] = a /\ route.pattern[3] = b
  BY <1>1, <1>2, <1>3 DEF Route
<1>5. a # "id" /\ b # "id" => Literal(route)
  <2>1. \A k \in 1..3 : k = 1 \/ k = 2 \/ k = 3 OBVIOUS
  <2> QED BY <1>4, <2>1 DEF Literal
<1> QED BY <1>3, <1>4, <1>5

LEMMA RoutesSplit ==
  /\ Len(Routes) = 13
  /\ \A i \in 1..5 : Routes[i] = UserRoutes[i]
  /\ \A i \in 1..8 : Routes[5 + i] = AccountRoutes[i]
<1>1. Len(UserRoutes) = 5 /\ Len(AccountRoutes) = 8
  BY DEF UserRoutes, AccountRoutes
<1>2. PICK S : S = {UserRoutes[i] : i \in 1..5} \cup {AccountRoutes[i] : i \in 1..8}
  OBVIOUS
<1>3. UserRoutes \in Seq(S)
  <2>1. \A i \in 1..5 : UserRoutes[i] \in S BY <1>2
  <2>2. UserRoutes = <<UserRoutes[1], UserRoutes[2], UserRoutes[3], UserRoutes[4],
                       UserRoutes[5]>>
    BY DEF UserRoutes
  <2>3. <<UserRoutes[1], UserRoutes[2], UserRoutes[3], UserRoutes[4], UserRoutes[5]>>
          \in Seq(S)
    BY <2>1
  <2> QED BY <2>2, <2>3
<1>4. AccountRoutes \in Seq(S)
  <2>1. \A i \in 1..8 : AccountRoutes[i] \in S BY <1>2
  <2>2. AccountRoutes = <<AccountRoutes[1], AccountRoutes[2], AccountRoutes[3],
                          AccountRoutes[4], AccountRoutes[5], AccountRoutes[6],
                          AccountRoutes[7], AccountRoutes[8]>>
    BY DEF AccountRoutes
  <2>3. <<AccountRoutes[1], AccountRoutes[2], AccountRoutes[3], AccountRoutes[4],
          AccountRoutes[5], AccountRoutes[6], AccountRoutes[7], AccountRoutes[8]>> \in Seq(S)
    BY <2>1
  <2> QED BY <2>2, <2>3
<1>5. /\ Len(Routes) = Len(UserRoutes) + Len(AccountRoutes)
      /\ \A i \in 1..Len(UserRoutes) : Routes[i] = UserRoutes[i]
      /\ \A i \in 1..Len(AccountRoutes) : Routes[Len(UserRoutes) + i] = AccountRoutes[i]
  BY <1>3, <1>4, Concatenation DEF Routes
<1> QED BY <1>1, <1>5

\* The three templates with a variable.
Named == {7, 10, 11}

LEMMA RouteFacts ==
  /\ \A i \in 1..13 : Routes[i].rpc \in Rpcs
  /\ \A i \in Named : /\ Len(Routes[i].pattern) = 3
                      /\ Routes[i].pattern[1] # "id" /\ Routes[i].pattern[2] # "id"
                      /\ Routes[i].pattern[3] = "id"
                      /\ Routes[i].sources \in
                           {request_GoBank_GetAccount_0, request_GoBank_UpdateAccount_0,
                            request_GoBank_DeleteAccount_0}
  /\ \A i \in (1..13) \ Named : Literal(Routes[i])
  /\ Routes[7].verb = "GET" /\ Routes[10].verb = "PUT" /\ Routes[11].verb = "DELETE"
  /\ \A i \in 1..6 : Routes[i].verb = "GET" => Len(Routes[i].pattern) = 2
  /\ \A i \in 1..9 : Routes[i].verb # "PUT"
  /\ \A i \in 1..10 : Routes[i].verb # "DELETE"
<1>0. /\ Routes[1] = UserRoutes[1] /\ Routes[2] = UserRoutes[2] /\ Routes[3] = UserRoutes[3]
      /\ Routes[4] = UserRoutes[4] /\ Routes[5] = UserRoutes[5]
      /\ Routes[6] = AccountRoutes[1] /\ Routes[7] = AccountRoutes[2]
      /\ Routes[8] = AccountRoutes[3] /\ Routes[9] = AccountRoutes[4]
      /\ Routes[10] = AccountRoutes[5] /\ Routes[11] = AccountRoutes[6]
      /\ Routes[12] = AccountRoutes[7] /\ Routes[13] = AccountRoutes[8]
  BY RoutesSplit
<1>1. /\ Routes[1].verb = "POST" /\ Routes[1].rpc = "CreateUser" /\ Len(Routes[1].pattern) = 2 /\ Literal(Routes[1])
  <2>1. Routes[1] = Route("POST", <<"users">>, "CreateUser", request_GoBank_CreateUser_0)
    BY <1>0 DEF UserRoutes
  <2> QED BY <2>1, ShortRoute
<1>2. /\ Routes[2].verb = "POST" /\ Routes[2].rpc = "LoginUser" /\ Len(Routes[2].pattern) = 3 /\ Literal(Routes[2])
  <2>1. Routes[2] = Route("POST", <<"auth", "login">>, "LoginUser", request_GoBank_LoginUser_0)
    BY <1>0 DEF UserRoutes
  <2> QED BY <2>1, LongRoute
<1>3. /\ Routes[3].verb = "POST" /\ Routes[3].rpc = "RenewAccessToken" /\ Len(Routes[3].pattern) = 3 /\ Literal(Routes[3])
  <2>1. Routes[3] = Route("POST", <<"auth", "renew_access">>, "RenewAccessToken", request_GoBank_RenewAccessToken_0)
    BY <1>0 DEF UserRoutes
  <2> QED BY <2>1, LongRoute
<1>4. /\ Routes[4].verb = "GET" /\ Routes[4].rpc = "VerifyEmail" /\ Len(Routes[4].pattern) = 2 /\ Literal(Routes[4])
  <2>1. Routes[4] = Route("GET", <<"verify_email">>, "VerifyEmail", request_GoBank_VerifyEmail_0)
    BY <1>0 DEF UserRoutes
  <2> QED BY <2>1, ShortRoute
<1>5. /\ Routes[5].verb = "PATCH" /\ Routes[5].rpc = "UpdateUser" /\ Len(Routes[5].pattern) = 2 /\ Literal(Routes[5])
  <2>1. Routes[5] = Route("PATCH", <<"users">>, "UpdateUser", request_GoBank_UpdateUser_0)
    BY <1>0 DEF UserRoutes
  <2> QED BY <2>1, ShortRoute
<1>6. /\ Routes[6].verb = "POST" /\ Routes[6].rpc = "CreateAccount" /\ Len(Routes[6].pattern) = 2 /\ Literal(Routes[6])
  <2>1. Routes[6] = Route("POST", <<"accounts">>, "CreateAccount", request_GoBank_CreateAccount_0)
    BY <1>0 DEF AccountRoutes
  <2> QED BY <2>1, ShortRoute
<1>7. /\ Routes[7].verb = "GET" /\ Routes[7].rpc = "GetAccount" /\ Len(Routes[7].pattern) = 3
      /\ Routes[7].pattern[1] = "v1" /\ Routes[7].pattern[2] = "accounts" /\ Routes[7].pattern[3] = "id"
  <2>1. Routes[7] = Route("GET", <<"accounts", "id">>, "GetAccount", request_GoBank_GetAccount_0)
    BY <1>0 DEF AccountRoutes
  <2> QED BY <2>1, LongRoute
<1>8. /\ Routes[8].verb = "GET" /\ Routes[8].rpc = "ListAccounts" /\ Len(Routes[8].pattern) = 2 /\ Literal(Routes[8])
  <2>1. Routes[8] = Route("GET", <<"accounts">>, "ListAccounts", request_GoBank_ListAccounts_0)
    BY <1>0 DEF AccountRoutes
  <2> QED BY <2>1, ShortRoute
<1>9. /\ Routes[9].verb = "GET" /\ Routes[9].rpc = "ListEntries" /\ Len(Routes[9].pattern) = 2 /\ Literal(Routes[9])
  <2>1. Routes[9] = Route("GET", <<"entries">>, "ListEntries", request_GoBank_ListEntries_0)
    BY <1>0 DEF AccountRoutes
  <2> QED BY <2>1, ShortRoute
<1>10. /\ Routes[10].verb = "PUT" /\ Routes[10].rpc = "UpdateAccount" /\ Len(Routes[10].pattern) = 3
      /\ Routes[10].pattern[1] = "v1" /\ Routes[10].pattern[2] = "accounts" /\ Routes[10].pattern[3] = "id"
  <2>1. Routes[10] = Route("PUT", <<"accounts", "id">>, "UpdateAccount", request_GoBank_UpdateAccount_0)
    BY <1>0 DEF AccountRoutes
  <2> QED BY <2>1, LongRoute
<1>11. /\ Routes[11].verb = "DELETE" /\ Routes[11].rpc = "DeleteAccount" /\ Len(Routes[11].pattern) = 3
      /\ Routes[11].pattern[1] = "v1" /\ Routes[11].pattern[2] = "accounts" /\ Routes[11].pattern[3] = "id"
  <2>1. Routes[11] = Route("DELETE", <<"accounts", "id">>, "DeleteAccount", request_GoBank_DeleteAccount_0)
    BY <1>0 DEF AccountRoutes
  <2> QED BY <2>1, LongRoute
<1>12. /\ Routes[12].verb = "GET" /\ Routes[12].rpc = "LookUpAccount" /\ Len(Routes[12].pattern) = 3 /\ Literal(Routes[12])
  <2>1. Routes[12] = Route("GET", <<"accounts", "lookup">>, "LookUpAccount", request_GoBank_LookUpAccount_0)
    BY <1>0 DEF AccountRoutes
  <2> QED BY <2>1, LongRoute
<1>13. /\ Routes[13].verb = "POST" /\ Routes[13].rpc = "CreateTransfer" /\ Len(Routes[13].pattern) = 2 /\ Literal(Routes[13])
  <2>1. Routes[13] = Route("POST", <<"transfers">>, "CreateTransfer", request_GoBank_CreateTransfer_0)
    BY <1>0 DEF AccountRoutes
  <2> QED BY <2>1, ShortRoute
<1>14. /\ Routes[1].rpc \in Rpcs
       /\ Routes[2].rpc \in Rpcs
       /\ Routes[3].rpc \in Rpcs
       /\ Routes[4].rpc \in Rpcs
       /\ Routes[5].rpc \in Rpcs
       /\ Routes[6].rpc \in Rpcs
       /\ Routes[7].rpc \in Rpcs
       /\ Routes[8].rpc \in Rpcs
       /\ Routes[9].rpc \in Rpcs
       /\ Routes[10].rpc \in Rpcs
       /\ Routes[11].rpc \in Rpcs
       /\ Routes[12].rpc \in Rpcs
       /\ Routes[13].rpc \in Rpcs
  BY <1>1, <1>2, <1>3, <1>4, <1>5, <1>6, <1>7, <1>8, <1>9, <1>10, <1>11, <1>12, <1>13 DEF Rpcs
<1>15. \A i \in (1..13) \ Named : Literal(Routes[i])
  <2>1. \A i \in (1..13) \ Named : i \in {1, 2, 3, 4, 5, 6, 8, 9, 12, 13} BY DEF Named
  <2> QED BY <2>1, <1>1, <1>2, <1>3, <1>4, <1>5, <1>6, <1>8, <1>9, <1>12, <1>13
<1>16. /\ \A i \in 1..6 : Routes[i].verb = "GET" => Len(Routes[i].pattern) = 2
       /\ \A i \in 1..9 : Routes[i].verb # "PUT"
       /\ \A i \in 1..10 : Routes[i].verb # "DELETE"
  <2>1. \A i \in 1..10 : i \in {1, 2, 3, 4, 5, 6, 7, 8, 9, 10} OBVIOUS
  <2>2. /\ Routes[1].verb = "POST" /\ Routes[2].verb = "POST" /\ Routes[3].verb = "POST"
        /\ Routes[4].verb = "GET" /\ Routes[5].verb = "PATCH" /\ Routes[6].verb = "POST"
        /\ Routes[7].verb = "GET" /\ Routes[8].verb = "GET" /\ Routes[9].verb = "GET"
        /\ Routes[10].verb = "PUT" /\ Len(Routes[4].pattern) = 2
    BY <1>1, <1>2, <1>3, <1>4, <1>5, <1>6, <1>7, <1>8, <1>9, <1>10
  <2>3. \A i \in {1, 2, 3, 4, 5, 6, 7, 8, 9, 10} :
          /\ i <= 6 /\ Routes[i].verb = "GET" => Len(Routes[i].pattern) = 2
          /\ i <= 9 => Routes[i].verb # "PUT"
          /\ Routes[i].verb # "DELETE"
    BY <2>2
  <2> QED BY <2>1, <2>3
<1>18. /\ Routes[7].sources = request_GoBank_GetAccount_0
       /\ Routes[10].sources = request_GoBank_UpdateAccount_0
       /\ Routes[11].sources = request_GoBank_DeleteAccount_0
  BY <1>0 DEF AccountRoutes, Route
<1>17. \A i \in 1..13 : Routes[i].rpc \in Rpcs
  <2>1. \A i \in 1..13 : i \in {1, 2, 3, 4, 5, 6, 7, 8, 9, 10, 11, 12, 13} OBVIOUS
  <2> QED BY <1>14, <2>1
<1> QED BY <1>7, <1>10, <1>11, <1>15, <1>16, <1>17, <1>18 DEF Named

\* A finite nonempty set of positions has its last one.
LEMMA MaxIsLast ==
  ASSUME NEW S \in SUBSET (1..13), S # {}
  PROVE  Max(S) \in S /\ \A y \in S : y <= Max(S)
<1>1. \E x \in S : \A y \in S : x >= y
  <2> SUFFICES ASSUME \A x \in S : \E y \in S : x < y PROVE FALSE OBVIOUS
  <2>1. 13 \notin S OBVIOUS
  <2>2. 12 \notin S BY <2>1
  <2>3. 11 \notin S BY <2>1, <2>2
  <2>4. 10 \notin S BY <2>1, <2>2, <2>3
  <2>5. 9 \notin S BY <2>1, <2>2, <2>3, <2>4
  <2>6. 8 \notin S BY <2>1, <2>2, <2>3, <2>4, <2>5
  <2>7. 7 \notin S BY <2>1, <2>2, <2>3, <2>4, <2>5, <2>6
  <2>8. S \subseteq 1..6 BY <2>1, <2>2, <2>3, <2>4, <2>5, <2>6, <2>7
  <2>9. 6 \notin S BY <2>8
  <2>10. 5 \notin S BY <2>8, <2>9
  <2>11. 4 \notin S BY <2>8, <2>9, <2>10
  <2>12. 3 \notin S BY <2>8, <2>9, <2>10, <2>11
  <2>13. 2 \notin S BY <2>8, <2>9, <2>10, <2>11, <2>12
  <2>14. \A x \in S : x = 1 BY <2>8, <2>9, <2>10, <2>11, <2>12, <2>13
  <2>15. PICK x \in S : TRUE OBVIOUS
  <2>16. PICK y \in S : x < y OBVIOUS
  <2> QED BY <2>14, <2>15, <2>16
<1> QED BY <1>1 DEF Max

\* Where a message is read from, as far as the routes say.
Readable(sources) ==
  /\ Len(sources) \in 1..2
  /\ \A k \in 1..Len(sources) : sources[k] \in {"body", "query", "path"}

LEMMA RoutesReadable == \A i \in 1..13 : Readable(Routes[i].sources)
<1>1. /\ Readable(<<"body">>) /\ Readable(<<"query">>) /\ Readable(<<"path">>)
      /\ Readable(<<"body", "path">>)
  BY DEF Readable
<1>2. \A i \in 1..5 : Readable(UserRoutes[i].sources)
  <2>1. /\ Readable(UserRoutes[1].sources) /\ Readable(UserRoutes[2].sources)
        /\ Readable(UserRoutes[3].sources) /\ Readable(UserRoutes[4].sources)
        /\ Readable(UserRoutes[5].sources)
    BY <1>1 DEF UserRoutes, Route, request_GoBank_CreateUser_0, request_GoBank_LoginUser_0,
       request_GoBank_RenewAccessToken_0, request_GoBank_VerifyEmail_0,
       request_GoBank_UpdateUser_0
  <2>2. \A i \in 1..5 : i \in {1, 2, 3, 4, 5} OBVIOUS
  <2> QED BY <2>1, <2>2
<1>3. \A i \in 1..8 : Readable(AccountRoutes[i].sources)
  <2>1. /\ Readable(AccountRoutes[1].sources) /\ Readable(AccountRoutes[2].sources)
        /\ Readable(AccountRoutes[3].sources) /\ Readable(AccountRoutes[4].sources)
        /\ Readable(AccountRoutes[5].sources) /\ Readable(AccountRoutes[6].sources)
        /\ Readable(AccountRoutes[7].sources) /\ Readable(AccountRoutes[8].sources)
    BY <1>1 DEF AccountRoutes, Route, request_GoBank_CreateAccount_0,
       request_GoBank_GetAccount_0, request_GoBank_ListAccounts_0,
       request_GoBank_ListEntries_0, request_GoBank_UpdateAccount_0,
       request_GoBank_DeleteAccount_0, request_GoBank_LookUpAccount_0,
       request_GoBank_CreateTransfer_0
  <2>2. \A i \in 1..8 : i \in {1, 2, 3, 4, 5, 6, 7, 8} OBVIOUS
  <2> QED BY <2>1, <2>2
<1>4. \A i \in 1..13 : i \in 1..5 \/ \E j \in 1..8 : i = 5 + j
  <2> SUFFICES ASSUME NEW i \in 1..13, i \notin 1..5 PROVE \E j \in 1..8 : i = 5 + j
    OBVIOUS
  <2>1. i - 5 \in 1..8 /\ i = 5 + (i - 5) OBVIOUS
  <2> QED BY <2>1
<1> QED BY <1>2, <1>3, <1>4, RoutesSplit

\* The variables of the templates.
LEMMA VariablesOf ==
  /\ \A i \in Named : Variables(Routes[i]) = {3} /\ Cardinality(Variables(Routes[i])) = 1
  /\ \A i \in (1..13) \ Named :
       Variables(Routes[i]) = {} /\ Cardinality(Variables(Routes[i])) = 0
<1>1. ASSUME NEW i \in Named
      PROVE  Variables(Routes[i]) = {3} /\ Cardinality(Variables(Routes[i])) = 1
  <2>1. /\ Len(Routes[i].pattern) = 3 /\ Routes[i].pattern[1] # "id"
        /\ Routes[i].pattern[2] # "id" /\ Routes[i].pattern[3] = "id"
    BY RouteFacts
  <2>2. \A k \in 1..3 : k = 1 \/ k = 2 \/ k = 3 OBVIOUS
  <2>3. Variables(Routes[i]) = {3} BY <2>1, <2>2 DEF Variables
  <2> QED BY <2>3, FS_Singleton
<1>2. ASSUME NEW i \in (1..13) \ Named
      PROVE  Variables(Routes[i]) = {} /\ Cardinality(Variables(Routes[i])) = 0
  <2>1. Variables(Routes[i]) = {} BY RouteFacts DEF Variables, Literal
  <2> QED BY <2>1, FS_EmptySet
<1> QED BY <1>1, <1>2

\* A message names an id that was given, or none, or is malformed.
LEMMA DecodedType ==
  ASSUME NEW r \in HTTPRequest, NEW sources, Readable(sources)
  PROVE  Decoded(r, sources) \in Ids \cup {"0", "malformed"}
<1> DEFINE said == [i \in 1..Len(sources) |-> Read(r, sources[i])]
           says == {i \in 1..Len(sources) : said[i] # "empty"}
<1>1. \A i \in 1..Len(sources) : said[i] \in Ids \cup {"empty", "malformed"}
  BY DEF Read, Int64, Readable, HTTPRequest, Parameter
<1>2. says \in SUBSET (1..13) BY DEF Readable
<1>3. says # {} => Max(says) \in says BY <1>2, MaxIsLast
<1>4. \A i \in says : i \in 1..Len(sources) /\ said[i] # "empty" OBVIOUS
<1>5. Decoded(r, sources) = IF \E i \in says : said[i] = "malformed" THEN "malformed"
                            ELSE IF says = {} THEN "0" ELSE said[Max(says)]
  BY DEF Decoded
<1> HIDE DEF said, says
<1> QED BY <1>1, <1>3, <1>4, <1>5

\* Where a path names an id, the message names that id.
LEMMA PathWins ==
  ASSUME NEW r \in HTTPRequest, NEW sources, Readable(sources),
         Decoded(r, sources) # "malformed", sources[Len(sources)] = "path"
  PROVE  Decoded(r, sources) = r.path[Len(r.path)]
<1> DEFINE said == [i \in 1..Len(sources) |-> Read(r, sources[i])]
           says == {i \in 1..Len(sources) : said[i] # "empty"}
           last == Len(sources)
<1>1. last \in 1..last /\ last \in Nat BY DEF Readable
<1>2. said[last] = Int64(r.path[Len(r.path)]) BY <1>1 DEF Read
<1>3. Decoded(r, sources) = IF \E i \in says : said[i] = "malformed" THEN "malformed"
                            ELSE IF says = {} THEN "0" ELSE said[Max(says)]
  BY DEF Decoded
<1>4. Int64(r.path[Len(r.path)]) # "empty" BY GatewayAssumption DEF Int64
<1>5. last \in says BY <1>1, <1>2, <1>4
<1>6. said[last] # "malformed" BY <1>3, <1>5
<1>7. said[last] = r.path[Len(r.path)] BY <1>2, <1>6 DEF Int64
<1>8. says \in SUBSET (1..13) /\ \A i \in says : i <= last BY DEF Readable
<1>9. Max(says) \in says /\ last <= Max(says) BY <1>5, <1>8, MaxIsLast
<1>10. Max(says) = last BY <1>1, <1>8, <1>9
<1> HIDE DEF said, says
<1> QED BY <1>3, <1>5, <1>7, <1>10

\* What RoutedAsDocumented says of the message m of the request r.
Right(r, m) ==
  \E i \in Candidates(r) :
    /\ m.rpc = Routes[i].rpc
    /\ \A j \in Candidates(r) :
         Cardinality(Variables(Routes[i])) <= Cardinality(Variables(Routes[j]))
    /\ \A v \in Variables(Routes[i]) : m.id = r.path[v]

\* No template of the same verb comes before one with a variable that fits the
\* same paths, and the last one that fits is taken.
LEMMA ChosenIsRight ==
  ASSUME NEW r \in HTTPRequest, Candidates(r) # {}, NEW m,
         m.rpc = Chosen(r).rpc, m.id = Decoded(r, Chosen(r).sources),
         m.id # "malformed"
  PROVE  Right(r, m) /\ m.rpc \in Rpcs /\ m.id \in Ids \cup {"0"}
<1> DEFINE i == Max(Candidates(r))
<1>1. Candidates(r) \in SUBSET (1..13) BY RoutesSplit DEF Candidates
<1>2. i \in Candidates(r) /\ \A j \in Candidates(r) : j <= i BY <1>1, MaxIsLast
<1>3. i \in 1..13 /\ Routes[i].verb = r.verb /\ Len(Routes[i].pattern) = Len(r.path)
  BY <1>1, <1>2 DEF Candidates, Matches
<1>4. Chosen(r) = Routes[i] BY DEF Chosen
<1> HIDE DEF i
<1>5. m.rpc \in Rpcs /\ m.id \in Ids \cup {"0"}
  <2>1. m.rpc \in Rpcs BY <1>3, <1>4, RouteFacts
  <2>2. Readable(Routes[i].sources) BY <1>3, RoutesReadable
  <2> QED BY <1>4, <2>1, <2>2, DecodedType
<1>6. CASE i \notin Named
  <2>1. Variables(Routes[i]) = {} /\ Cardinality(Variables(Routes[i])) = 0
    BY <1>3, <1>6, VariablesOf
  <2>2. \A j \in Candidates(r) : Cardinality(Variables(Routes[j])) \in {0, 1}
    BY <1>1, VariablesOf
  <2> QED BY <1>2, <1>4, <1>5, <2>1, <2>2 DEF Right
<1>7. CASE i \in Named
  <2>1. ASSUME NEW j \in Candidates(r) PROVE j = i
    <3>1. /\ j \in 1..13 /\ j <= i /\ Routes[j].verb = Routes[i].verb
          /\ Len(Routes[j].pattern) = Len(Routes[i].pattern)
      BY <1>1, <1>2, <1>3 DEF Candidates, Matches
    <3>2. Len(Routes[i].pattern) = 3 BY <1>7, RouteFacts
    <3>3. CASE i = 7
      <4>1. Routes[j].verb = "GET" BY <3>1, <3>3, RouteFacts
      <4>2. j \notin 1..6 BY <3>1, <3>2, <4>1, RouteFacts
      <4> QED BY <3>1, <3>3, <4>2
    <3>4. CASE i = 10
      <4>1. Routes[j].verb = "PUT" BY <3>1, <3>4, RouteFacts
      <4>2. j \notin 1..9 BY <4>1, RouteFacts
      <4> QED BY <3>1, <3>4, <4>2
    <3>5. CASE i = 11
      <4>1. Routes[j].verb = "DELETE" BY <3>1, <3>5, RouteFacts
      <4>2. j \notin 1..10 BY <4>1, RouteFacts
      <4> QED BY <3>1, <3>5, <4>2
    <3> QED BY <1>7, <3>3, <3>4, <3>5 DEF Named
  <2>2. Variables(Routes[i]) = {3} /\ Cardinality(Variables(Routes[i])) = 1
    BY <1>7, VariablesOf
  <2>3. Len(r.path) = 3 BY <1>3, <1>7, RouteFacts
  <2>4. Routes[i].sources[Len(Routes[i].sources)] = "path"
    <3>1. /\ request_GoBank_GetAccount_0[Len(request_GoBank_GetAccount_0)] = "path"
          /\ request_GoBank_UpdateAccount_0[Len(request_GoBank_UpdateAccount_0)] = "path"
          /\ request_GoBank_DeleteAccount_0[Len(request_GoBank_DeleteAccount_0)] = "path"
      BY DEF request_GoBank_GetAccount_0, request_GoBank_UpdateAccount_0,
             request_GoBank_DeleteAccount_0
    <3>2. Routes[i].sources \in {request_GoBank_GetAccount_0, request_GoBank_UpdateAccount_0,
                                 request_GoBank_DeleteAccount_0}
      BY <1>7, RouteFacts
    <3> QED BY <3>1, <3>2
  <2>5. Readable(Routes[i].sources) BY <1>3, RoutesReadable
  <2>6. m.id = r.path[3] BY <1>4, <2>3, <2>4, <2>5, PathWins
  <2>7. \A j \in Candidates(r) :
          Cardinality(Variables(Routes[i])) <= Cardinality(Variables(Routes[j]))
    BY <2>1, <2>2
  <2> QED BY <1>2, <1>4, <2>2, <2>6, <2>7, <1>5 DEF Right
<1> QED BY <1>5, <1>6, <1>7

-----------------------------------------------------------------------------
(* TypeOK and RoutedAsDocumented.  What a call has sent stays what it has  *)
(* sent, and a message that could not be decoded reaches no handler.       *)

\* A call sends one message, and a handler is entered with what was sent.
Delivered(c) ==
  /\ \A m, n \in msg[c] : m = n
  /\ gw[c] = "invoke" \/ srv[c] \in {"decode", "intercept", "handle", "return"} => msg[c] # {}
  /\ srv[c] \in {"intercept", "handle"} => \A m \in msg[c] : m.id # "malformed"
  /\ req[c].via = "http" =>
       (\A m \in msg[c] : Right(req[c], m)) /\ (\A h \in handled[c] : Right(req[c], h))

Typed == TypeOK /\ \A c \in Calls : Delivered(c)

\* What the two kinds of requests carry.
LEMMA RequestKinds ==
  ASSUME NEW r \in Requests
  PROVE  /\ r.via = "http" => r \in HTTPRequest
         /\ r.via = "grpc" => r.rpc \in Rpcs \cup {"Unregistered", Stream} /\ r.id \in Parameter
         /\ r.via = "grpc" /\ r.rpc = Stream => r.id = "empty"
         /\ r.auth \in Headers /\ r.rid \in RequestIds \cup {"none"}
<1>1. r \in HTTPRequest \/ r \in GRPCRequest \/ r \in StreamRequest BY GatewayAssumption
<1>2. CASE r \in HTTPRequest BY <1>2 DEF HTTPRequest
<1>3. CASE r \in GRPCRequest BY <1>3 DEF GRPCRequest, Rpcs, Stream
<1>4. CASE r \in StreamRequest BY <1>4 DEF StreamRequest, Stream, Parameter
<1> QED BY <1>1, <1>2, <1>3, <1>4

LEMMA HTTPStatusType ==
  ASSUME NEW x
  PROVE  HTTPStatus(x) \in {200, 400, 401, 403, 404, 409, 499, 500, 501, 503}
BY DEF HTTPStatus

\* The message a call has sent.
LEMMA SentType ==
  ASSUME Typed, NEW c \in Calls, msg[c] # {}
  PROVE  /\ Sent(c) \in msg[c] /\ \A m \in msg[c] : m = Sent(c)
         /\ Sent(c).rpc \in Rpcs \cup {Stream} /\ Sent(c).id \in Ids \cup {"0", "malformed"}
<1>1. Sent(c) \in msg[c] BY DEF Sent
<1>2. msg[c] \subseteq Message BY DEF Typed, TypeOK
<1>3. Sent(c) \in Message BY <1>1, <1>2
<1> QED BY <1>1, <1>3 DEF Typed, Delivered, Message

\* What a step may leave alone of a call's message.
SameMessage(d) == /\ gw'[d] = gw[d] /\ srv'[d] = srv[d]
                  /\ msg'[d] = msg[d] /\ handled'[d] = handled[d]

\* A step of one call has to be looked at for that call only.
LEMMA OneTyped ==
  ASSUME Typed, NEW c \in Calls, TypeOK', Delivered(c)', req' = req,
         \A d \in Calls \ {c} : SameMessage(d)
  PROVE  Typed'
<1>1. ASSUME NEW d \in Calls, d # c PROVE Delivered(d)'
  <2>1. Delivered(d) /\ SameMessage(d) BY <1>1 DEF Typed
  <2> QED BY <2>1 DEF Delivered, SameMessage
<1> QED BY <1>1 DEF Typed

\* The steps that touch no message.
LEMMA NoneTyped ==
  ASSUME Typed, TypeOK', UNCHANGED <<req, gw, srv, msg, handled>>
  PROVE  Typed'
<1>1. ASSUME NEW d \in Calls PROVE Delivered(d)'
  BY DEF Typed, Delivered
<1> QED BY <1>1 DEF Typed

\* The steps of the process and of the clock.
LEMMA ProcessTyped ==
  ASSUME Typed,
         \/ ListenHTTP \/ ListenGRPC \/ Connect \/ Fatal \/ Quiescent \/ UNCHANGED vars
         \/ \E k \in Levels \X Messages : Second(k)
  PROVE  Typed'
<1> USE DEF Typed, TypeOK
<1>1. CASE ListenHTTP \/ ListenGRPC
  <2>1. PICK l \in Listeners : Listen(l)
    BY <1>1 DEF ListenHTTP, ListenGRPC, Listeners
  <2> QED BY <2>1, NoneTyped DEF Listen
<1>2. CASE Connect
  <2>1. conn' \in {"idle", "ready", "failed"} BY <1>2 DEF Connect
  <2> QED BY <1>2, <2>1, NoneTyped DEF Connect
<1>3. CASE Fatal BY <1>3, NoneTyped DEF Fatal
<1>4. CASE Quiescent \/ UNCHANGED vars BY <1>4, NoneTyped DEF Quiescent, vars
<1>5. CASE \E k \in Levels \X Messages : Second(k)
  <2>1. count' \in [Levels \X Messages -> Nat] BY <1>5 DEF Second
  <2> QED BY <1>5, <2>1, NoneTyped DEF Second
<1> QED BY <1>1, <1>2, <1>3, <1>4, <1>5

LEMMA InitTyped == Init => Typed
<1> SUFFICES ASSUME Init PROVE Typed OBVIOUS
<1>1. req \in [Calls -> Requests] BY GatewayAssumption DEF Init
<1>2. TypeOK BY <1>1 DEF Init, TypeOK, None, LineIds
<1>3. ASSUME NEW c \in Calls PROVE Delivered(c) BY DEF Init, Delivered, None
<1> QED BY <1>2, <1>3 DEF Typed

\* The mux and the handler of a route send the message the sources make.
LEMMA ServeHTTPTyped ==
  ASSUME Typed, StatusInv, NEW c \in Calls, ServeHTTP(c)
  PROVE  Typed'
<1> DEFINE r == req[c]
           rpc == Chosen(r).rpc
           id == Decoded(r, Chosen(r).sources)
           m == [rpc |-> rpc, id |-> id]
<1>1. TypeOK /\ Delivered(c) /\ Progress(c) BY DEF Typed, StatusInv
<1>2. r \in Requests BY <1>1 DEF TypeOK
<1>3. r \in HTTPRequest /\ r.via = "http" BY <1>2, RequestKinds DEF ServeHTTP
<1>4. srv[c] = "idle" /\ handled[c] = {} BY <1>1, <1>3 DEF Progress, None, ServeHTTP
<1>5. /\ UNCHANGED <<alive, serving, conn, count, req, srv, handled, effect, code, lines>>
      /\ rid' = [rid EXCEPT ![c] = ResponseId(c)]
  BY DEF ServeHTTP
<1>6. \/ /\ \E s \in {200, 400, 404, 501} : WriteHeader(c, s)
         /\ \E g \in {"done", "log"} : gw' = [gw EXCEPT ![c] = g]
         /\ msg' = msg
      \/ /\ Candidates(r) # {} /\ id # "malformed"
         /\ msg' = [msg EXCEPT ![c] = {m}] /\ gw' = [gw EXCEPT ![c] = "invoke"]
         /\ status' = status
  BY StatusOfCode DEF ServeHTTP
<1>7. ResponseId(c) \in LineIds
  BY <1>2, RequestKinds DEF ResponseId, LineIds
<1>8. rid' \in [Calls -> LineIds] BY <1>1, <1>5, <1>7 DEF TypeOK
<1> HIDE DEF id, rpc
<1>9. ASSUME NEW s \in {200, 400, 404, 501}, NEW g \in {"done", "log"},
             WriteHeader(c, s), gw' = [gw EXCEPT ![c] = g], msg' = msg
      PROVE  Typed'
  <2>1. TypeOK' BY <1>1, <1>5, <1>8, <1>9 DEF TypeOK, WriteHeader
  <2>2. gw'[c] = g /\ \A d \in Calls \ {c} : SameMessage(d)
    BY <1>1, <1>5, <1>9 DEF TypeOK, SameMessage
  <2>3. Delivered(c)' BY <1>1, <1>4, <1>5, <1>9, <2>2 DEF Delivered
  <2> QED BY <1>5, <2>1, <2>2, <2>3, OneTyped
<1>10. ASSUME Candidates(r) # {}, id # "malformed",
              msg' = [msg EXCEPT ![c] = {m}], gw' = [gw EXCEPT ![c] = "invoke"],
              status' = status
       PROVE  Typed'
  <2>1. Right(r, m) /\ rpc \in Rpcs /\ id \in Ids \cup {"0"}
    BY <1>3, <1>10, ChosenIsRight DEF rpc, id
  <2>2. m \in Message BY <2>1 DEF Message
  <2>3. TypeOK' BY <1>1, <1>5, <1>8, <1>10, <2>2 DEF TypeOK
  <2>4. gw'[c] = "invoke" /\ msg'[c] = {m} /\ \A d \in Calls \ {c} : SameMessage(d)
    BY <1>1, <1>5, <1>10 DEF TypeOK, SameMessage
  <2>5. Delivered(c)' BY <1>3, <1>4, <1>5, <2>1, <2>4 DEF Delivered
  <2> QED BY <1>5, <2>3, <2>4, <2>5, OneTyped
<1> QED BY <1>6, <1>9, <1>10

\* The other steps of the gateway leave the message as it is.
LEMMA GatewayTyped ==
  ASSUME Typed, StatusInv, NEW c \in Calls, Invoke(c) \/ Disconnect(c) \/ Reply(c)
  PROVE  Typed'
<1>1. TypeOK /\ Delivered(c) /\ Progress(c) BY DEF Typed, StatusInv
<1>2. /\ UNCHANGED <<alive, serving, conn, count, req, msg, handled, effect, code, rid, lines>>
      /\ gw[c] \in {"invoke", "waiting", "reply"}
  BY DEF Invoke, Disconnect, Reply
<1>3. \E g \in {"waiting", "log"} : gw' = [gw EXCEPT ![c] = g]
  BY DEF Invoke, Disconnect, Reply
<1>4. \/ srv' = srv \/ (srv' = [srv EXCEPT ![c] = "decode"] /\ gw[c] = "invoke")
      \/ srv' = [srv EXCEPT ![c] = "done"]
  BY DEF Invoke, Disconnect, Reply
<1>5. status' = status \/ \E x : WriteHeader(c, HTTPStatus(x))
  BY DEF Invoke, Disconnect, Reply
<1>6. status' \in [Calls -> {0, 200, 400, 401, 403, 404, 409, 499, 500, 501, 503}]
  BY <1>1, <1>5, HTTPStatusType DEF TypeOK, WriteHeader
<1>7. gw' \in [Calls -> {"idle", "invoke", "waiting", "reply", "log", "done"}]
  BY <1>1, <1>3 DEF TypeOK
<1>8. srv' \in [Calls -> {"idle", "decode", "intercept", "handle", "return", "done"}]
  BY <1>1, <1>4 DEF TypeOK
<1>9. TypeOK' BY <1>1, <1>2, <1>6, <1>7, <1>8 DEF TypeOK
<1>10. /\ gw'[c] \in {"waiting", "log"}
       /\ srv'[c] \in {srv[c], "done"} \/ (srv'[c] = "decode" /\ gw[c] = "invoke")
       /\ \A d \in Calls \ {c} : SameMessage(d)
  BY <1>1, <1>2, <1>3, <1>4 DEF TypeOK, SameMessage
<1>11. Delivered(c)' BY <1>1, <1>2, <1>10 DEF Delivered
<1> QED BY <1>2, <1>9, <1>10, <1>11, OneTyped

\* A message that arrives from a client of the gRPC server.
LEMMA ReceiveTyped ==
  ASSUME Typed, StatusInv, NEW c \in Calls, ReceiveGRPC(c)
  PROVE  Typed'
<1> DEFINE r == req[c]
           id == IF r.id = "empty" THEN "0" ELSE r.id
           m == [rpc |-> r.rpc, id |-> id]
<1>1. TypeOK /\ Delivered(c) /\ Progress(c) BY DEF Typed, StatusInv
<1>2. r \in Requests /\ r.via = "grpc" BY <1>1 DEF TypeOK, ReceiveGRPC
<1>3. /\ UNCHANGED <<alive, serving, conn, count, req, gw, handled, effect, status,
                     rid, lines>>
      /\ srv[c] = "idle"
  BY DEF ReceiveGRPC
<1>4. gw[c] = "idle" BY <1>1, <1>2 DEF Progress
<1>5. CASE r.rpc = "Unregistered"
  <2>1. /\ srv' = [srv EXCEPT ![c] = "done"] /\ msg' = msg
        /\ code' = [code EXCEPT ![c] = "Unimplemented"]
    BY <1>5 DEF ReceiveGRPC
  <2>2. TypeOK' BY <1>1, <1>3, <2>1 DEF TypeOK
  <2>3. srv'[c] = "done" /\ \A d \in Calls \ {c} : SameMessage(d)
    BY <1>1, <1>3, <2>1 DEF TypeOK, SameMessage
  <2>4. Delivered(c)' BY <1>1, <1>2, <1>3, <1>4, <2>1, <2>3 DEF Delivered
  <2> QED BY <1>3, <2>2, <2>3, <2>4, OneTyped
<1>6. CASE r.rpc # "Unregistered"
  <2>1. /\ srv' = [srv EXCEPT ![c] = IF r.rpc = Stream THEN "handle" ELSE "decode"]
        /\ msg' = [msg EXCEPT ![c] = {m}] /\ code' = code
    BY <1>6 DEF ReceiveGRPC
  <2>2. r.rpc \in Rpcs \cup {Stream} /\ id \in Ids \cup {"0", "malformed"}
    BY <1>2, <1>6, RequestKinds DEF Parameter
  <2>3. r.rpc = Stream => id = "0" BY <1>2, RequestKinds
  <2> HIDE DEF id
  <2>4. m \in Message BY <2>2 DEF Message
  <2>5. TypeOK' BY <1>1, <1>3, <2>1, <2>4 DEF TypeOK
  <2>6. /\ srv'[c] \in {"decode", "handle"}
        /\ srv'[c] = "handle" => r.rpc = Stream
        /\ msg'[c] = {m} /\ \A d \in Calls \ {c} : SameMessage(d)
    BY <1>1, <1>3, <2>1 DEF TypeOK, SameMessage
  <2>7. srv'[c] = "handle" => m.id # "malformed" BY <2>3, <2>6
  <2> HIDE DEF m
  <2>8. Delivered(c)' BY <1>2, <1>3, <1>4, <2>6, <2>7 DEF Delivered
  <2> QED BY <1>3, <2>5, <2>6, <2>8, OneTyped
<1> QED BY <1>5, <1>6

\* The steps before the handler let only what was decoded pass.
LEMMA DecodeTyped ==
  ASSUME Typed, NEW c \in Calls, Decode(c) \/ Intercept(c)
  PROVE  Typed'
<1>1. TypeOK /\ Delivered(c) BY DEF Typed
<1>2. /\ UNCHANGED <<alive, serving, conn, count, req, gw, msg, handled, effect, status,
                     rid, lines>>
      /\ srv[c] \in {"decode", "intercept"}
  BY DEF Decode, Intercept
<1>3. msg[c] # {} BY <1>1, <1>2 DEF Delivered
<1>4. \A m \in msg[c] : m = Sent(c) BY <1>3, SentType
<1>5. \/ srv' = [srv EXCEPT ![c] = "done"]
      \/ srv' = [srv EXCEPT ![c] = "return"]
      \/ srv' = [srv EXCEPT ![c] = "intercept"] /\ Sent(c).id # "malformed"
      \/ srv' = [srv EXCEPT ![c] = "handle"] /\ srv[c] = "intercept"
  BY DEF Decode, Intercept
<1>6. code' = code \/ \E x \in {"Internal", "Unauthenticated"} : code' = [code EXCEPT ![c] = x]
  BY DEF Decode, Intercept
<1>7. code' \in [Calls -> HandlerCodes \cup {"none", "Unimplemented", "Canceled"}]
  BY <1>1, <1>6 DEF TypeOK, HandlerCodes
<1>8. TypeOK' BY <1>1, <1>2, <1>5, <1>7 DEF TypeOK
<1>9. /\ srv'[c] \in {"done", "return", "intercept", "handle"}
      /\ srv'[c] = "intercept" => Sent(c).id # "malformed"
      /\ srv'[c] = "handle" => srv[c] = "intercept"
      /\ \A d \in Calls \ {c} : SameMessage(d)
  BY <1>1, <1>2, <1>5 DEF TypeOK, SameMessage
<1>10. Delivered(c)' BY <1>1, <1>2, <1>3, <1>4, <1>9 DEF Delivered
<1> QED BY <1>2, <1>8, <1>9, <1>10, OneTyped

\* A handler is entered with the message that was sent.
LEMMA HandleTyped ==
  ASSUME Typed, NEW c \in Calls, Commit(c) \/ Handle(c)
  PROVE  Typed'
<1> DEFINE user == IF Sent(c).rpc \in publicRoutes \cup {Stream} THEN "none" ELSE req[c].auth
           entry == [rpc |-> Sent(c).rpc, id |-> Sent(c).id, user |-> user]
<1>1. TypeOK /\ Delivered(c) BY DEF Typed
<1>2. /\ \/ code' = code
         \/ \E result \in HandlerCodes \cup {"Canceled"} : code' = [code EXCEPT ![c] = result]
      /\ effect' = effect \/ effect' = [effect EXCEPT ![c] = TRUE]
      /\ srv' = srv \/ srv' = [srv EXCEPT ![c] = "return"]
  BY DEF Commit, Handle, HandlerCodes
<1>3. /\ UNCHANGED <<alive, serving, conn, count, req, gw, msg, status, rid, lines>>
      /\ srv[c] = "handle" /\ handled' = [handled EXCEPT ![c] = {entry}]
  BY DEF Commit, Handle, Entry
<1>4. msg[c] # {} BY <1>1, <1>3 DEF Delivered
<1>5. /\ Sent(c) \in msg[c] /\ Sent(c).id # "malformed"
      /\ Sent(c).rpc \in Rpcs \cup {Stream} /\ Sent(c).id \in Ids \cup {"0"}
  BY <1>1, <1>3, <1>4, SentType DEF Delivered
<1>6. req[c] \in Requests BY <1>1 DEF TypeOK
<1>7. user \in Headers \cup {"none"} BY <1>6, RequestKinds
<1> HIDE DEF user
<1>8. entry \in Entered BY <1>5, <1>7 DEF Entered
<1>9. TypeOK'
  <2>1. code' \in [Calls -> HandlerCodes \cup {"none", "Unimplemented", "Canceled"}]
    BY <1>1, <1>2 DEF TypeOK
  <2>2. effect' \in [Calls -> BOOLEAN]
    <3>1. effect \in [Calls -> BOOLEAN] /\ TRUE \in BOOLEAN BY <1>1 DEF TypeOK
    <3>2. CASE effect' = effect BY <3>1, <3>2
    <3>3. CASE effect' = [effect EXCEPT ![c] = TRUE] BY <3>1, <3>3
    <3> QED BY <1>2, <3>2, <3>3
  <2>3. handled' \in [Calls -> SUBSET Entered] BY <1>1, <1>3, <1>8 DEF TypeOK
  <2>4. srv' \in [Calls -> {"idle", "decode", "intercept", "handle", "return", "done"}]
    BY <1>1, <1>2 DEF TypeOK
  <2> QED BY <1>1, <1>3, <2>1, <2>2, <2>3, <2>4 DEF TypeOK
<1>10. /\ srv'[c] \in {"handle", "return"} /\ handled'[c] = {entry}
       /\ \A d \in Calls \ {c} : SameMessage(d)
  BY <1>1, <1>2, <1>3 DEF TypeOK, SameMessage
<1>11. req[c].via = "http" => Right(req[c], entry)
  <2>1. ASSUME req[c].via = "http" PROVE Right(req[c], Sent(c))
    BY <1>1, <1>5, <2>1 DEF Delivered
  <2>2. entry.rpc = Sent(c).rpc /\ entry.id = Sent(c).id OBVIOUS
  <2> QED BY <2>1, <2>2 DEF Right
<1>12. Delivered(c)' BY <1>1, <1>3, <1>4, <1>10, <1>11 DEF Delivered
<1> QED BY <1>3, <1>9, <1>10, <1>12, OneTyped

\* The line a step of a call adds: none at level "debug".
Added(c, level, message, id) ==
  [message |-> message, level |-> level, rid |-> id,
   kept |-> Sampled(count[Counter(level, message)] + 1)]

LEMMA LogAdds ==
  ASSUME TypeOK, NEW c \in Calls, NEW level \in Levels, NEW message \in Messages,
         NEW id \in LineIds, Log(c, level, message, id)
  PROVE  /\ count' \in [Levels \X Messages -> Nat] /\ lines' \in [Calls -> SUBSET Line]
         /\ \A d \in Calls \ {c} : lines'[d] = lines[d]
         /\ \/ level = "debug" /\ UNCHANGED <<count, lines>>
            \/ /\ level # "debug"
               /\ lines'[c] = lines[c] \cup {Added(c, level, message, id)}
               /\ count' = [count EXCEPT ![<<level, message>>] = @ + 1]
<1> DEFINE k == <<level, message>>
           line == Added(c, level, message, id)
<1>1. k \in Levels \X Messages OBVIOUS
<1>2. Sampled(count[k] + 1) \in BOOLEAN BY DEF Sampled
<1>3. line \in Line
  <2>1. line = [message |-> message, level |-> level, rid |-> id,
                kept |-> Sampled(count[k] + 1)]
    BY DEF Added, Counter
  <2> QED BY <1>2, <2>1 DEF Line
<1>4. CASE level = "debug" BY <1>4 DEF Log, TypeOK
<1>5. CASE level # "debug"
  <2>1. count' = [count EXCEPT ![k] = count[k] + 1] BY <1>5 DEF Log, Counter
  <2>2. lines' = [lines EXCEPT ![c] = @ \cup {line}] BY <1>5 DEF Log, Added
  <2> HIDE DEF line, k
  <2>3. count' \in [Levels \X Messages -> Nat] BY <1>1, <2>1 DEF TypeOK
  <2>4. /\ lines'[c] = lines[c] \cup {line} /\ lines' \in [Calls -> SUBSET Line]
        /\ \A d \in Calls \ {c} : lines'[d] = lines[d]
    BY <1>3, <2>2 DEF TypeOK
  <2> QED BY <1>5, <2>1, <2>3, <2>4 DEF k, line
<1> QED BY <1>4, <1>5

LEMMA LevelTypes ==
  ASSUME NEW x, NEW s \in Nat
  PROVE  defaultDecider(x) \in Levels /\ defaultHTTPDecider(s) \in Levels
BY DEF defaultDecider, defaultHTTPDecider, Levels

\* The ends of the two sides: a line, and nothing else that is not told above.
LEMMA LogHTTPTyped ==
  ASSUME Typed, NEW c \in Calls, LogHTTP(c)
  PROVE  Typed'
<1>1. TypeOK /\ Delivered(c) BY DEF Typed
<1>2. /\ UNCHANGED <<alive, serving, conn, req, srv, msg, handled, effect, code, status, rid>>
      /\ gw[c] = "log" /\ gw' = [gw EXCEPT ![c] = "done"]
  BY DEF LogHTTP
<1>3. PICK level \in Levels : Log(c, level, "HTTP", rid[c])
  <2>1. status[c] \in Nat BY <1>1 DEF TypeOK
  <2>2. defaultHTTPDecider(status[c]) \in Levels BY <2>1, LevelTypes
  <2> QED BY <2>2 DEF LogHTTP, Levels
<1>4. rid[c] \in LineIds BY <1>1 DEF TypeOK
<1>5. count' \in [Levels \X Messages -> Nat] /\ lines' \in [Calls -> SUBSET Line]
  BY <1>1, <1>3, <1>4, LogAdds DEF Messages
<1>6. TypeOK' BY <1>1, <1>2, <1>5 DEF TypeOK
<1>7. gw'[c] = "done" /\ \A d \in Calls \ {c} : SameMessage(d)
  BY <1>1, <1>2 DEF TypeOK, SameMessage
<1>8. Delivered(c)' BY <1>1, <1>2, <1>7 DEF Delivered
<1> QED BY <1>2, <1>6, <1>7, <1>8, OneTyped

LEMMA IncomingIdType ==
  ASSUME TypeOK, NEW c \in Calls
  PROVE  IncomingId(c) = req[c].rid /\ IncomingId(c) \in LineIds
<1>1. req[c] \in Requests BY DEF TypeOK
<1> QED BY <1>1, RequestKinds DEF IncomingId, Forwarded, LineIds

LEMMA ReturnTyped ==
  ASSUME Typed, NEW c \in Calls, Return(c) \/ ReturnStream(c)
  PROVE  Typed'
<1>1. TypeOK /\ Delivered(c) BY DEF Typed
<1>2. /\ UNCHANGED <<alive, serving, conn, req, msg, handled, effect, code, status, rid>>
      /\ srv[c] = "return" /\ srv' = [srv EXCEPT ![c] = "done"]
  BY DEF Return, ReturnStream
<1>3. gw' = gw \/ (gw[c] = "waiting" /\ gw' = [gw EXCEPT ![c] = "reply"])
  <2>1. CASE Return(c)
    <3>1. gw' = [gw EXCEPT ![c] = IF gw[c] = "waiting" THEN "reply" ELSE gw[c]]
      BY <2>1 DEF Return
    <3>2. CASE gw[c] = "waiting" BY <3>1, <3>2
    <3>3. CASE gw[c] # "waiting"
      <4>1. gw' = [gw EXCEPT ![c] = gw[c]] BY <3>1, <3>3
      <4> QED BY <1>1, <4>1 DEF TypeOK
    <3> QED BY <3>2, <3>3
  <2>2. CASE ReturnStream(c) BY <2>2 DEF ReturnStream
  <2> QED BY <2>1, <2>2
<1>4. PICK message \in Messages : Log(c, defaultDecider(code[c]), message, IncomingId(c))
  BY DEF Return, ReturnStream, Messages
<1>5. count' \in [Levels \X Messages -> Nat] /\ lines' \in [Calls -> SUBSET Line]
  <2>1. defaultDecider(code[c]) \in Levels BY <1>1, LevelTypes
  <2>2. IncomingId(c) \in LineIds BY <1>1, IncomingIdType
  <2> QED BY <1>1, <1>4, <2>1, <2>2, LogAdds
<1>6. gw' \in [Calls -> {"idle", "invoke", "waiting", "reply", "log", "done"}]
  BY <1>1, <1>3 DEF TypeOK
<1>7. TypeOK' BY <1>1, <1>2, <1>5, <1>6 DEF TypeOK
<1>8. /\ srv'[c] = "done"
      /\ gw'[c] = "invoke" => gw[c] = "invoke"
      /\ \A d \in Calls \ {c} : SameMessage(d)
  BY <1>1, <1>2, <1>3 DEF TypeOK, SameMessage
<1>9. Delivered(c)' BY <1>1, <1>2, <1>8 DEF Delivered
<1> QED BY <1>2, <1>7, <1>8, <1>9, OneTyped

LEMMA NextTyped == Typed /\ StatusInv /\ [Next]_vars => Typed'
<1> SUFFICES ASSUME Typed, StatusInv, [Next]_vars PROVE Typed' OBVIOUS
<1>1. CASE \/ ListenHTTP \/ ListenGRPC \/ Connect \/ Fatal \/ Quiescent \/ UNCHANGED vars
           \/ \E k \in Levels \X Messages : Second(k)
  BY <1>1, ProcessTyped
<1>2. ASSUME NEW c \in Calls, ServeHTTP(c) PROVE Typed' BY <1>2, ServeHTTPTyped
<1>3. ASSUME NEW c \in Calls, Invoke(c) \/ Disconnect(c) \/ Reply(c) PROVE Typed'
  BY <1>3, GatewayTyped
<1>4. ASSUME NEW c \in Calls, LogHTTP(c) PROVE Typed' BY <1>4, LogHTTPTyped
<1>5. ASSUME NEW c \in Calls, ReceiveGRPC(c) PROVE Typed' BY <1>5, ReceiveTyped
<1>6. ASSUME NEW c \in Calls, Decode(c) \/ Intercept(c) PROVE Typed' BY <1>6, DecodeTyped
<1>7. ASSUME NEW c \in Calls, Commit(c) \/ Handle(c) PROVE Typed' BY <1>7, HandleTyped
<1>8. ASSUME NEW c \in Calls, Return(c) \/ ReturnStream(c) PROVE Typed'
  BY <1>8, ReturnTyped
<1> QED BY <1>1, <1>2, <1>3, <1>4, <1>5, <1>6, <1>7, <1>8 DEF Next

\* What is sent stays what was sent, and a status only what the server has done
\* with: the invariant of TypeOK, RoutedAsDocumented and StatusTellsEffect.
THEOREM Invariance == Spec => [](Typed /\ StatusInv)
<1>1. Init => Typed /\ StatusInv BY InitTyped, InitStatus
<1>2. Typed /\ StatusInv /\ [Next]_vars => Typed' /\ StatusInv' BY NextTyped, NextStatus
<1> QED BY <1>1, <1>2, PTL DEF Spec

\* TypeOK: whatever a client writes where an id belongs, what reaches a handler
\* is a number the gateway or the decoder has read.
THEOREM TypeCorrect == Spec => []TypeOK
<1>1. Typed => TypeOK BY DEF Typed
<1> QED BY <1>1, Invariance, PTL

\* RoutedAsDocumented: for every path, body and query the handler that runs is the
\* one of the most literal template, and it sees the id of the path.
THEOREM RoutedAsDocumentedHolds == Spec => []RoutedAsDocumented
<1>1. Typed => RoutedAsDocumented
  <2> SUFFICES ASSUME Typed, NEW c \in Calls, req[c].via = "http", NEW h \in handled[c]
      PROVE  Right(req[c], h)
    BY DEF RoutedAsDocumented, Right
  <2> QED BY DEF Typed, Delivered
<1> QED BY <1>1, Invariance, PTL

-----------------------------------------------------------------------------
(* LinesAgree.  Each side logs a call once, when it ends, at a level the   *)
(* gateway reads off the status and the gRPC server off the code, and the  *)
(* status of a client that has stayed is the one of that code.             *)

\* The lines of a call, and what is known of those still to come.
Told(c) ==
  /\ gw[c] \in {"invoke", "waiting", "reply", "log"} =>
       rid[c] = ResponseId(c) /\ ~Skipped(req[c])
  /\ req[c].rid # "none" =>
       rid[c] \in {"none", req[c].rid} /\ \A l \in lines[c] : l.rid = req[c].rid
  /\ gw[c] \in {"log", "done"} => status[c] # 0
  /\ \A l \in lines[c] : IF l.message = "HTTP"
       THEN gw[c] = "done" /\ l.level = defaultHTTPDecider(status[c])
       ELSE srv[c] = "done" /\ (l.message = "gRPC" => l.level = defaultDecider(code[c]))
  /\ \A l \in lines[c] : l.message = "gRPC" /\ status[c] \notin {0, 499} =>
       status[c] = HTTPStatus(code[c])

\* What has been kept of the lines of one counter, told by the calls.
KeptBy(k) == {d \in Calls : \E l \in lines[d] : l.kept /\ <<l.level, l.message>> = k}

\* A counter runs ahead of the calls it has kept a line of only when it has kept
\* as many as it must.
Samples == \A k \in Levels \X Messages :
  Initial <= Cardinality(KeptBy(k)) \/ count[k] <= Cardinality(KeptBy(k))

\* A line is dropped only when that many of its kind are kept.
KeptEnough == \A c \in Calls : \A l \in lines[c] :
  ~l.kept => Initial <= Cardinality(KeptBy(<<l.level, l.message>>))

LinesInv == Samples /\ KeptEnough /\ \A c \in Calls : Told(c)

\* The two ways to decide a level agree on the code of a handler or of an
\* interceptor and the status made of it.
LEMMA LevelsAgree ==
  ASSUME NEW x \in HandlerCodes \cup {"none", "Unimplemented", "Canceled"}
  PROVE  defaultHTTPDecider(HTTPStatus(x)) = defaultDecider(x)
BY DEF HandlerCodes, defaultHTTPDecider, HTTPStatus, defaultDecider, isClientError

\* Counters and calls are finite in number.
LEMMA KeptFinite ==
  ASSUME NEW k
  PROVE  IsFiniteSet(KeptBy(k)) /\ Cardinality(KeptBy(k)) \in Nat
<1>1. KeptBy(k) \subseteq Calls BY DEF KeptBy
<1>2. IsFiniteSet(KeptBy(k)) BY <1>1, GatewayAssumption, FS_Subset
<1> QED BY <1>2, FS_CardinalityType

\* A side that logs a call for the first time keeps the counters right: the line
\* is the call's only one of its message, so a kept one counts one call more.
LEMMA LogSamples ==
  ASSUME TypeOK, Samples, KeptEnough, NEW c \in Calls, NEW level \in Levels,
         NEW message \in Messages, NEW id \in LineIds, Log(c, level, message, id),
         \A l \in lines[c] : l.message # message
  PROVE  Samples' /\ KeptEnough'
<1>1. CASE UNCHANGED <<count, lines>>
  <2>1. \A k : KeptBy(k)' = KeptBy(k) BY <1>1 DEF KeptBy
  <2> QED BY <1>1, <2>1 DEF Samples, KeptEnough
<1>2. CASE ~UNCHANGED <<count, lines>>
  <2> DEFINE key == <<level, message>>
             n == count[key] + 1
  <2>1. PICK line : line = Added(c, level, message, id) OBVIOUS
  <2>2. /\ lines'[c] = lines[c] \cup {line}
        /\ count' = [count EXCEPT ![key] = n]
        /\ \A d \in Calls \ {c} : lines'[d] = lines[d]
    BY <1>2, <2>1, LogAdds
  <2>3. /\ <<line.level, line.message>> = key /\ line.message = message
        /\ line.kept <=> Sampled(n)
    BY <2>1 DEF Added, Counter
  <2>4. key \in Levels \X Messages /\ count[key] \in Nat BY DEF TypeOK
  <2>5. Initial \in Nat BY GatewayAssumption
  <2> HIDE DEF key
  <2>6. \A k : k # key => KeptBy(k)' = KeptBy(k) BY <2>2, <2>3 DEF KeptBy
  <2>7. c \notin KeptBy(key)
    <3>1. \A l \in lines[c] : <<l.level, l.message>> # key BY DEF key
    <3> QED BY <3>1 DEF KeptBy
  <2>8. ~line.kept => KeptBy(key)' = KeptBy(key) BY <2>2 DEF KeptBy
  <2>9. line.kept => KeptBy(key)' = KeptBy(key) \cup {c}
    BY <2>2, <2>3 DEF KeptBy
  <2>10. line.kept => Cardinality(KeptBy(key)') = Cardinality(KeptBy(key)) + 1
    BY <2>7, <2>9, KeptFinite, FS_AddElement
  <2>11. ~line.kept => Initial <= Cardinality(KeptBy(key))
    <3>1. ASSUME ~line.kept PROVE n > Initial BY <2>3, <2>4, <2>5, <3>1 DEF Sampled
    <3>2. Initial <= Cardinality(KeptBy(key)) \/ count[key] <= Cardinality(KeptBy(key))
      BY <2>4 DEF Samples
    <3> QED BY <2>4, <2>5, <3>1, <3>2, KeptFinite
  <2>12. \A k : Cardinality(KeptBy(k)) <= Cardinality(KeptBy(k)')
    <3> SUFFICES ASSUME NEW k PROVE Cardinality(KeptBy(k)) <= Cardinality(KeptBy(k)')
      OBVIOUS
    <3>1. Cardinality(KeptBy(k)) \in Nat BY KeptFinite
    <3> QED BY <2>6, <2>8, <2>10, <3>1
  <2>13. \A k : Cardinality(KeptBy(k)) \in Nat /\ Cardinality(KeptBy(k)') \in Nat
    <3>1. \A k : KeptBy(k)' \subseteq Calls BY DEF KeptBy
    <3>2. \A k : IsFiniteSet(KeptBy(k)') BY <3>1, GatewayAssumption, FS_Subset
    <3> QED BY <3>2, FS_CardinalityType, KeptFinite
  <2>14. Samples'
    <3> SUFFICES ASSUME NEW k \in Levels \X Messages
        PROVE  Initial <= Cardinality(KeptBy(k)') \/ count'[k] <= Cardinality(KeptBy(k)')
      BY DEF Samples
    <3>1. Initial <= Cardinality(KeptBy(k)) \/ count[k] <= Cardinality(KeptBy(k))
      BY DEF Samples
    <3>2. count[k] \in Nat BY DEF TypeOK
    <3>3. CASE k # key
      <4>1. count'[k] = count[k] BY <2>2, <3>3 DEF TypeOK
      <4> QED BY <2>6, <3>1, <3>3, <4>1
    <3>4. CASE k = key
      <4>1. count'[key] = n BY <2>2, <2>4 DEF TypeOK
      <4> QED BY <2>5, <2>8, <2>10, <2>11, <2>12, <2>13, <3>1, <3>2, <3>4, <4>1
    <3> QED BY <3>3, <3>4
  <2>15. KeptEnough'
    <3> SUFFICES ASSUME NEW d \in Calls, NEW l \in lines'[d], ~l.kept
        PROVE  Initial <= Cardinality(KeptBy(<<l.level, l.message>>)')
      BY DEF KeptEnough
    <3>1. CASE l \in lines[d]
      <4>1. Initial <= Cardinality(KeptBy(<<l.level, l.message>>))
        BY <3>1 DEF KeptEnough
      <4> QED BY <2>5, <2>12, <2>13, <4>1
    <3>2. CASE l \notin lines[d]
      <4>1. l = line BY <2>2, <3>2
      <4> QED BY <2>3, <2>5, <2>11, <2>12, <2>13, <4>1
    <3> QED BY <3>1, <3>2
  <2> QED BY <2>14, <2>15
<1> QED BY <1>1, <1>2

\* A step that logs nothing.
LEMMA QuietSamples ==
  ASSUME Samples, KeptEnough, UNCHANGED <<count, lines>>
  PROVE  Samples' /\ KeptEnough'
<1>1. \A k : KeptBy(k)' = KeptBy(k) BY DEF KeptBy
<1> QED BY <1>1 DEF Samples, KeptEnough

\* The clock starts a counter again.
LEMMA SecondSamples ==
  ASSUME TypeOK, Samples, KeptEnough, NEW k \in Levels \X Messages, Second(k)
  PROVE  Samples' /\ KeptEnough'
<1>1. \A i : KeptBy(i)' = KeptBy(i) BY DEF Second, KeptBy
<1>2. KeptEnough' BY <1>1 DEF KeptEnough, Second
<1>3. Samples'
  <2> SUFFICES ASSUME NEW i \in Levels \X Messages
      PROVE  Initial <= Cardinality(KeptBy(i)) \/ count'[i] <= Cardinality(KeptBy(i))
    BY <1>1 DEF Samples
  <2>1. CASE i = k
    <3>1. count'[i] = 0 BY <2>1 DEF Second, TypeOK
    <3> QED BY <3>1, KeptFinite
  <2>2. CASE i # k
    <3>1. count'[i] = count[i] BY <2>2 DEF Second, TypeOK
    <3> QED BY <3>1 DEF Samples
  <2> QED BY <2>1, <2>2
<1> QED BY <1>2, <1>3

\* What a step may leave alone of what is told of a call.
SameStory(d) == /\ gw'[d] = gw[d] /\ srv'[d] = srv[d] /\ code'[d] = code[d]
                /\ status'[d] = status[d] /\ rid'[d] = rid[d] /\ lines'[d] = lines[d]

LEMMA SameTold ==
  ASSUME NEW d \in Calls, Told(d), SameStory(d), req' = req
  PROVE  Told(d)'
BY DEF Told, SameStory, ResponseId, Skipped

LEMMA OneTold ==
  ASSUME LinesInv, NEW c \in Calls, Told(c)', req' = req, Samples' /\ KeptEnough',
         \A d \in Calls \ {c} : SameStory(d)
  PROVE  LinesInv'
<1>1. ASSUME NEW d \in Calls, d # c PROVE Told(d)' BY <1>1, SameTold DEF LinesInv
<1> QED BY <1>1 DEF LinesInv

\* The steps of the process and of the clock tell nothing.
LEMMA ProcessLines ==
  ASSUME TypeOK, LinesInv,
         \/ ListenHTTP \/ ListenGRPC \/ Connect \/ Fatal \/ Quiescent \/ UNCHANGED vars
         \/ \E k \in Levels \X Messages : Second(k)
  PROVE  LinesInv'
<1>1. UNCHANGED <<req, gw, srv, code, status, rid, lines>>
  BY DEF ListenHTTP, ListenGRPC, Listen, Connect, Fatal, Quiescent, vars, Second
<1>2. \A d \in Calls : Told(d)'
  <2>1. \A d \in Calls : SameStory(d) BY <1>1 DEF SameStory
  <2> QED BY <1>1, <2>1, SameTold DEF LinesInv
<1>3. CASE \/ ListenHTTP \/ ListenGRPC \/ Connect \/ Fatal \/ Quiescent \/ UNCHANGED vars
  <2>1. UNCHANGED <<count, lines>>
    BY <1>3 DEF ListenHTTP, ListenGRPC, Listen, Connect, Fatal, Quiescent, vars
  <2> QED BY <1>2, <2>1, QuietSamples DEF LinesInv
<1>4. CASE \E k \in Levels \X Messages : Second(k)
  BY <1>2, <1>4, SecondSamples DEF LinesInv
<1> QED BY <1>3, <1>4

\* A response gets its id before anything is logged.
LEMMA ServeHTTPLines ==
  ASSUME TypeOK, StatusInv, LinesInv, NEW c \in Calls, ServeHTTP(c)
  PROVE  LinesInv'
<1>1. Told(c) /\ Progress(c) /\ Samples /\ KeptEnough BY DEF LinesInv, StatusInv
<1>2. /\ UNCHANGED <<count, req, srv, code, lines>>
      /\ gw[c] = "idle" /\ req[c].via = "http" /\ rid' = [rid EXCEPT ![c] = ResponseId(c)]
  BY DEF ServeHTTP
<1>3. srv[c] = "idle" BY <1>1, <1>2 DEF Progress
<1>4. lines[c] = {} BY <1>1, <1>2, <1>3 DEF Told
<1>5. \/ /\ \E s \in {200, 400, 404, 501} : WriteHeader(c, s)
         /\ gw' = [gw EXCEPT ![c] = IF Skipped(req[c]) THEN "done" ELSE "log"]
      \/ ~Skipped(req[c]) /\ gw' = [gw EXCEPT ![c] = "invoke"] /\ status' = status
  BY StatusOfCode DEF ServeHTTP
<1>6. /\ rid'[c] = ResponseId(c) /\ lines'[c] = {} /\ gw'[c] \in {"done", "log", "invoke"}
      /\ gw'[c] \in {"log", "invoke"} => ~Skipped(req[c])
      /\ gw'[c] \in {"log", "done"} => status'[c] # 0
  BY <1>2, <1>4, <1>5 DEF TypeOK, WriteHeader
<1>7. \A d \in Calls \ {c} : SameStory(d)
  BY <1>2, <1>5 DEF TypeOK, WriteHeader, SameStory
<1>8. ResponseId(c)' = ResponseId(c) /\ Skipped(req'[c]) = Skipped(req[c])
  BY <1>2 DEF ResponseId, Skipped
<1>9. req[c].rid # "none" => ResponseId(c) \in {"none", req[c].rid} BY DEF ResponseId
<1>10. Told(c)' BY <1>2, <1>6, <1>8, <1>9 DEF Told
<1> QED BY <1>1, <1>2, <1>7, <1>10, OneTold, QuietSamples

\* A call that is under way in the gateway has no line of the gateway yet, and
\* one that has not come back from the server none of the server.
LEMMA GatewayLines ==
  ASSUME TypeOK, StatusInv, LinesInv, NEW c \in Calls,
         Invoke(c) \/ Disconnect(c) \/ Reply(c)
  PROVE  LinesInv'
<1>1. Told(c) /\ Progress(c) /\ Samples /\ KeptEnough BY DEF LinesInv, StatusInv
<1>2. /\ UNCHANGED <<count, req, code, rid, lines>>
      /\ gw[c] \in {"invoke", "waiting", "reply"} /\ status[c] = 0
  BY <1>1 DEF Invoke, Disconnect, Reply, Progress
<1>3. \A l \in lines[c] : l.message # "HTTP" /\ srv[c] = "done"
  BY <1>1, <1>2 DEF Told
<1>4. \/ /\ gw' = [gw EXCEPT ![c] = "waiting"] /\ srv' = [srv EXCEPT ![c] = "decode"]
         /\ status' = status /\ srv[c] = "idle"
      \/ /\ gw' = [gw EXCEPT ![c] = "log"] /\ srv' = srv
         /\ WriteHeader(c, 503) /\ srv[c] = "idle"
      \/ /\ gw' = [gw EXCEPT ![c] = "log"] /\ WriteHeader(c, 499)
         /\ srv' = srv \/ srv' = [srv EXCEPT ![c] = "done"]
      \/ /\ gw' = [gw EXCEPT ![c] = "log"] /\ srv' = srv /\ WriteHeader(c, HTTPStatus(code[c]))
  BY <1>1, StatusOfCode DEF Invoke, Disconnect, Reply, Progress
<1>5. /\ gw'[c] \in {"waiting", "log"}
      /\ gw'[c] = "log" => status'[c] # 0
      /\ srv[c] = "done" => srv'[c] = "done"
      /\ srv[c] = "done" => status'[c] \in {499, HTTPStatus(code[c])}
  BY <1>2, <1>4, StatusOfCode DEF TypeOK, WriteHeader
<1>6. \A d \in Calls \ {c} : SameStory(d)
  BY <1>2, <1>4 DEF TypeOK, WriteHeader, SameStory
<1>7. ResponseId(c)' = ResponseId(c) /\ Skipped(req'[c]) = Skipped(req[c])
  BY <1>2 DEF ResponseId, Skipped
<1>8. Told(c)' BY <1>1, <1>2, <1>3, <1>5, <1>7 DEF Told
<1> QED BY <1>1, <1>2, <1>6, <1>8, OneTold, QuietSamples

\* A call that is under way in the server has no line of the server yet.
LEMMA ServerLines ==
  ASSUME TypeOK, StatusInv, LinesInv, NEW c \in Calls,
         ReceiveGRPC(c) \/ Decode(c) \/ Intercept(c) \/ Commit(c) \/ Handle(c)
  PROVE  LinesInv'
<1>1. Told(c) /\ Progress(c) /\ Samples /\ KeptEnough BY DEF LinesInv, StatusInv
<1>2. /\ UNCHANGED <<count, req, gw, status, rid, lines>>
      /\ srv[c] \in {"idle", "decode", "intercept", "handle"}
  BY DEF ReceiveGRPC, Decode, Intercept, Commit, Handle
<1>3. \A l \in lines[c] : l.message = "HTTP" BY <1>1, <1>2 DEF Told
<1>4. \A d \in Calls \ {c} : srv'[d] = srv[d] /\ code'[d] = code[d]
  BY DEF ReceiveGRPC, Decode, Intercept, Commit, Handle, TypeOK
<1>5. \A d \in Calls \ {c} : SameStory(d) BY <1>2, <1>4 DEF SameStory
<1>6. ResponseId(c)' = ResponseId(c) /\ Skipped(req'[c]) = Skipped(req[c])
  BY <1>2 DEF ResponseId, Skipped
<1>7. \A l \in lines[c] : gw[c] = "done" /\ l.level = defaultHTTPDecider(status[c])
  BY <1>1, <1>3 DEF Told
<1>8. \A l \in lines'[c] : l.message = "HTTP" /\ l.message # "gRPC"
  BY <1>2, <1>3
<1>9. Told(c)' BY <1>1, <1>2, <1>6, <1>7, <1>8 DEF Told
<1> QED BY <1>1, <1>2, <1>5, <1>9, OneTold, QuietSamples

\* The line of the gateway.
LEMMA LogHTTPLines ==
  ASSUME TypeOK, StatusInv, LinesInv, NEW c \in Calls, LogHTTP(c)
  PROVE  LinesInv'
<1> DEFINE decided == defaultHTTPDecider(status[c])
<1>1. Told(c) /\ Progress(c) /\ Samples /\ KeptEnough BY DEF LinesInv, StatusInv
<1>2. /\ UNCHANGED <<req, srv, code, status, rid>>
      /\ gw[c] = "log" /\ gw' = [gw EXCEPT ![c] = "done"]
  BY DEF LogHTTP
<1>3. decided \in Levels
  <2>1. status[c] \in Nat BY DEF TypeOK
  <2> QED BY <2>1, LevelTypes
<1>4. PICK level \in {"debug", decided} : Log(c, level, "HTTP", rid[c])
  BY DEF LogHTTP
<1>5. level \in Levels /\ rid[c] \in LineIds /\ "HTTP" \in Messages
  BY <1>3 DEF TypeOK, Levels, Messages
<1>6. \A l \in lines[c] : l.message # "HTTP" /\ srv[c] = "done"
  BY <1>1, <1>2 DEF Told
<1>7. Samples' /\ KeptEnough' BY <1>1, <1>4, <1>5, <1>6, LogSamples
<1>8. PICK line : line = Added(c, level, "HTTP", rid[c]) OBVIOUS
<1>9. /\ lines'[c] = lines[c] \/ (lines'[c] = lines[c] \cup {line} /\ level = decided)
      /\ \A d \in Calls \ {c} : lines'[d] = lines[d]
  <2>1. /\ \A d \in Calls \ {c} : lines'[d] = lines[d]
        /\ \/ lines' = lines
           \/ level # "debug" /\ lines'[c] = lines[c] \cup {line}
    <3>1. PICK message \in Messages, id \in LineIds : message = "HTTP" /\ id = rid[c]
      BY <1>5
    <3>2. Log(c, level, message, id) BY <1>4, <3>1
    <3>3. /\ \A d \in Calls \ {c} : lines'[d] = lines[d]
          /\ \/ UNCHANGED <<count, lines>>
             \/ /\ level # "debug"
                /\ lines'[c] = lines[c] \cup {Added(c, level, message, id)}
      BY <1>5, <3>2, LogAdds
    <3> QED BY <1>8, <3>1, <3>3
  <2> QED BY <1>4, <2>1
<1>10. line.message = "HTTP" /\ line.level = level /\ line.rid = rid[c]
  BY <1>8 DEF Added
<1>11. gw'[c] = "done" /\ \A d \in Calls \ {c} : SameStory(d)
  BY <1>2, <1>9 DEF TypeOK, SameStory
<1>12. req[c].rid # "none" => rid[c] = req[c].rid
  BY <1>1, <1>2 DEF Told, ResponseId
<1> HIDE DEF decided
<1>13. \A l \in lines'[c] : l \in lines[c] \/ (l = line /\ level = decided) BY <1>9
<1>14. Told(c)'
  <2>1. req[c].rid # "none" => \A l \in lines'[c] : l.rid = req[c].rid
    BY <1>1, <1>10, <1>12, <1>13 DEF Told
  <2>2. \A l \in lines'[c] : IF l.message = "HTTP" THEN l.level = decided
          ELSE srv[c] = "done" /\ (l.message = "gRPC" => l.level = defaultDecider(code[c]))
    BY <1>1, <1>6, <1>10, <1>13 DEF Told
  <2>3. \A l \in lines'[c] : l.message = "gRPC" /\ status[c] \notin {0, 499} =>
          status[c] = HTTPStatus(code[c])
    BY <1>1, <1>10, <1>13 DEF Told
  <2>4. status[c] # 0 BY <1>1, <1>2 DEF Told
  <2> QED BY <1>1, <1>2, <1>11, <2>1, <2>2, <2>3, <2>4 DEF Told, decided
<1> QED BY <1>2, <1>7, <1>11, <1>14, OneTold

\* The line of the gRPC server.
LEMMA ReturnLines ==
  ASSUME TypeOK, StatusInv, LinesInv, NEW c \in Calls, Return(c) \/ ReturnStream(c)
  PROVE  LinesInv'
<1> DEFINE level == defaultDecider(code[c])
           id == IncomingId(c)
<1>1. Told(c) /\ Progress(c) /\ Samples /\ KeptEnough BY DEF LinesInv, StatusInv
<1>2. /\ UNCHANGED <<req, code, status, rid>>
      /\ srv[c] = "return" /\ srv' = [srv EXCEPT ![c] = "done"]
  BY DEF Return, ReturnStream
<1>3. /\ gw'[c] = gw[c] \/ (gw[c] = "waiting" /\ gw'[c] = "reply")
      /\ \A d \in Calls \ {c} : gw'[d] = gw[d]
  <2>1. CASE Return(c)
    <3>1. gw' = [gw EXCEPT ![c] = IF gw[c] = "waiting" THEN "reply" ELSE gw[c]]
      BY <2>1 DEF Return
    <3> QED BY <3>1 DEF TypeOK
  <2>2. CASE ReturnStream(c) BY <2>2 DEF ReturnStream
  <2> QED BY <2>1, <2>2
<1>4. PICK message \in {"gRPC", "stream"} : Log(c, level, message, id)
  BY DEF Return, ReturnStream
<1>5. level \in Levels /\ id \in LineIds /\ message \in Messages /\ id = req[c].rid
  BY LevelTypes, IncomingIdType DEF Messages
<1>6. \A l \in lines[c] : l.message = "HTTP" BY <1>1, <1>2 DEF Told
<1> HIDE DEF level, id
<1>7. Samples' /\ KeptEnough'
  <2>1. \A l \in lines[c] : l.message # message BY <1>6
  <2> QED BY <1>1, <1>4, <1>5, <2>1, LogSamples
<1>8. PICK line : line = Added(c, level, message, id) OBVIOUS
<1>9. /\ lines'[c] = lines[c] \/ lines'[c] = lines[c] \cup {line}
      /\ \A d \in Calls \ {c} : lines'[d] = lines[d]
  BY <1>4, <1>5, <1>8, LogAdds
<1>10. line.message = message /\ line.level = level /\ line.rid = req[c].rid
  BY <1>5, <1>8 DEF Added
<1>11. srv'[c] = "done" /\ \A d \in Calls \ {c} : SameStory(d)
  <2>1. srv'[c] = "done" /\ \A d \in Calls \ {c} : srv'[d] = srv[d] BY <1>2 DEF TypeOK
  <2> QED BY <1>2, <1>3, <1>9, <2>1 DEF SameStory
<1>12. \A l \in lines'[c] : l \in lines[c] \/ l = line BY <1>9
<1>13. status[c] \in {0, 499} BY <1>1, <1>2 DEF Progress
<1>14. ResponseId(c)' = ResponseId(c) /\ Skipped(req'[c]) = Skipped(req[c])
  BY <1>2 DEF ResponseId, Skipped
<1>15. Told(c)'
  <2>1. req[c].rid # "none" => \A l \in lines'[c] : l.rid = req[c].rid
    BY <1>1, <1>10, <1>12 DEF Told
  <2>2. \A l \in lines'[c] : IF l.message = "HTTP"
          THEN gw[c] = "done" /\ l.level = defaultHTTPDecider(status[c])
          ELSE l.message = "gRPC" => l.level = level
    BY <1>1, <1>6, <1>10, <1>12 DEF Told
  <2>4. \A l \in lines'[c] : gw[c] = "done" => gw'[c] = "done" BY <1>3
  <2>5. \A l \in lines'[c] : IF l.message = "HTTP"
          THEN gw'[c] = "done" /\ l.level = defaultHTTPDecider(status'[c])
          ELSE srv'[c] = "done" /\ (l.message = "gRPC" => l.level = defaultDecider(code'[c]))
    BY <1>2, <1>11, <2>2, <2>4 DEF level
  <2>6. gw'[c] \in {"invoke", "waiting", "reply", "log"} =>
          gw[c] \in {"invoke", "waiting", "reply", "log"}
    BY <1>3
  <2>7. gw'[c] \in {"log", "done"} => gw[c] \in {"log", "done"} BY <1>3
  <2> QED BY <1>1, <1>2, <1>13, <1>14, <2>1, <2>5, <2>6, <2>7 DEF Told
<1> QED BY <1>2, <1>7, <1>11, <1>15, OneTold

LEMMA InitLines == Init => LinesInv
<1> SUFFICES ASSUME Init PROVE LinesInv OBVIOUS
<1>1. Samples
  <2> SUFFICES ASSUME NEW k \in Levels \X Messages
      PROVE  count[k] <= Cardinality(KeptBy(k))
    BY DEF Samples
  <2>1. count[k] = 0 BY DEF Init
  <2> QED BY <2>1, KeptFinite
<1>2. KeptEnough BY DEF Init, KeptEnough
<1>3. \A c \in Calls : Told(c) BY DEF Init, Told
<1> QED BY <1>1, <1>2, <1>3 DEF LinesInv

LEMMA NextLines == TypeOK /\ StatusInv /\ LinesInv /\ [Next]_vars => LinesInv'
<1> SUFFICES ASSUME TypeOK, StatusInv, LinesInv, [Next]_vars PROVE LinesInv' OBVIOUS
<1>1. CASE \/ ListenHTTP \/ ListenGRPC \/ Connect \/ Fatal \/ Quiescent \/ UNCHANGED vars
           \/ \E k \in Levels \X Messages : Second(k)
  BY <1>1, ProcessLines
<1>2. ASSUME NEW c \in Calls, ServeHTTP(c) PROVE LinesInv' BY <1>2, ServeHTTPLines
<1>3. ASSUME NEW c \in Calls, Invoke(c) \/ Disconnect(c) \/ Reply(c) PROVE LinesInv'
  BY <1>3, GatewayLines
<1>4. ASSUME NEW c \in Calls, LogHTTP(c) PROVE LinesInv' BY <1>4, LogHTTPLines
<1>5. ASSUME NEW c \in Calls,
             ReceiveGRPC(c) \/ Decode(c) \/ Intercept(c) \/ Commit(c) \/ Handle(c)
      PROVE  LinesInv'
  BY <1>5, ServerLines
<1>6. ASSUME NEW c \in Calls, Return(c) \/ ReturnStream(c) PROVE LinesInv'
  BY <1>6, ReturnLines
<1> QED BY <1>1, <1>2, <1>3, <1>4, <1>5, <1>6 DEF Next

\* Each side logs a call once, and the counters run ahead of what was kept only
\* when enough was: the invariant of LinesAgree and LinesKept.
THEOREM LinesInvariance == Spec => []LinesInv
<1>1. /\ Init => Typed /\ StatusInv /\ LinesInv
      /\ Typed => TypeOK
  BY InitTyped, InitStatus, InitLines DEF Typed
<1>2. Typed /\ StatusInv /\ LinesInv /\ [Next]_vars => Typed' /\ StatusInv' /\ LinesInv'
  BY <1>1, NextTyped, NextStatus, NextLines
<1> QED BY <1>1, <1>2, PTL DEF Spec

\* LinesAgree: of a call whose client stays the gateway and the gRPC server log the
\* same level, one reading the status and the other the code, and a request's own
\* id is in every line about it.
THEOREM LinesAgreeHolds == Spec => []LinesAgree
<1>1. TypeOK /\ LinesInv => LinesAgree
  <2> SUFFICES ASSUME TypeOK, LinesInv, NEW c \in Calls
      PROVE  /\ req[c].rid # "none" =>
                  \A l \in lines[c] : l.rid = req[c].rid /\ rid[c] \in {"none", l.rid}
             /\ status[c] # 499 =>
                  \A h \in LinesOf(c, "HTTP") : \A g \in LinesOf(c, "gRPC") :
                    h.level = g.level
    BY DEF LinesAgree
  <2>1. Told(c) BY DEF LinesInv
  <2>2. req[c].rid # "none" =>
          \A l \in lines[c] : l.rid = req[c].rid /\ rid[c] \in {"none", l.rid}
    BY <2>1 DEF Told
  <2>3. ASSUME status[c] # 499, NEW h \in lines[c], NEW g \in lines[c],
               h.message = "HTTP", g.message = "gRPC"
        PROVE  h.level = g.level
    <3>1. gw[c] = "done" /\ h.level = defaultHTTPDecider(status[c])
      BY <2>1, <2>3 DEF Told
    <3>2. g.level = defaultDecider(code[c]) BY <2>1, <2>3 DEF Told
    <3>3. status[c] = HTTPStatus(code[c]) BY <2>1, <2>3, <3>1 DEF Told
    <3>4. code[c] \in HandlerCodes \cup {"none", "Unimplemented", "Canceled"} BY DEF TypeOK
    <3> QED BY <3>1, <3>2, <3>3, <3>4, LevelsAgree
  <2> QED BY <2>2, <2>3 DEF LinesOf
<1> QED BY <1>1, TypeCorrect, LinesInvariance, PTL

\* LinesKept: whatever floods the log, a line is dropped only when Initial lines of
\* its own level and message have been kept.
THEOREM LinesKeptHolds == Spec => []LinesKept
<1>1. LinesInv => LinesKept
  <2> SUFFICES ASSUME LinesInv, NEW c \in Calls, NEW l \in lines[c], ~l.kept
      PROVE  Cardinality({d \in Calls :
               \E k \in lines[d] : k.kept /\ k.level = l.level /\ k.message = l.message})
                 >= Initial
    BY DEF LinesKept
  <2>1. KeptBy(<<l.level, l.message>>) = {d \in Calls :
          \E k \in lines[d] : k.kept /\ k.level = l.level /\ k.message = l.message}
    BY DEF KeptBy
  <2>2. Initial <= Cardinality(KeptBy(<<l.level, l.message>>)) BY DEF LinesInv, KeptEnough
  <2>3. Cardinality(KeptBy(<<l.level, l.message>>)) \in Nat /\ Initial \in Nat
    BY KeptFinite, GatewayAssumption
  <2> QED BY <2>1, <2>2, <2>3
<1> QED BY <1>1, LinesInvariance, PTL
=============================================================================
