----------------------------- MODULE MCGateway -----------------------------
(***************************************************************************)
(* Instances of Gateway for TLC.                                           *)
(***************************************************************************)
EXTENDS Gateway, Functions, TLC

CONSTANTS c1, c2, c3, alice, bob, trace

HTTP(verb, path, body, query, auth, id) ==
  [via |-> "http", verb |-> verb, path |-> path, body |-> body, query |-> query,
   auth |-> auth, rid |-> id]

GRPC(rpc, id, auth, r) ==
  [via |-> "grpc", rpc |-> rpc, id |-> id, auth |-> auth, rid |-> r]

Verbs == {"GET", "POST", "PUT", "PATCH", "DELETE", "OPTIONS"}

Paths == {<<"v1", "users">>, <<"v1", "auth", "login">>, <<"v1", "auth", "renew_access">>,
          <<"v1", "verify_email">>, <<"v1", "accounts">>, <<"v1", "accounts", "1">>,
          <<"v1", "accounts", "lookup">>, <<"v1", "entries">>, <<"v1", "transfers">>,
          <<"v1", "elsewhere">>, <<"metrics">>, <<"healthz">>, <<"swagger", "doc.json">>}

\* Every verb of every path; every kind of content of a request that reads two
\* sources; every kind of header.
Alone ==
  {HTTP(v, p, "2", "2", alice, trace) : v \in Verbs, p \in Paths}
    \cup {HTTP("PUT", <<"v1", "accounts", "1">>, b, "empty", alice, "none") : b \in Parameter}
    \cup {HTTP("GET", <<"v1", "entries">>, "empty", q, bob, "none") : q \in Parameter}
    \cup {HTTP("GET", <<"v1", "accounts", "lookup">>, "empty", "1", a, trace) : a \in Headers}
    \cup {GRPC(m, "1", "missing", trace) : m \in Rpcs \cup {"Unregistered"}}
    \cup {GRPC(Stream, "empty", "missing", trace)}
    \cup {GRPC("GetAccount", i, a, "none") : i \in Parameter, a \in Headers}

Ping == HTTP("GET", <<"healthz">>, "empty", "empty", "missing", "none")

\* Requests that differ in what they do to one another: through the counters
\* of the sampler, the connection and the state of the process.
Pay    == HTTP("POST", <<"v1", "transfers">>, "1", "empty", alice, trace)
Look   == HTTP("GET", <<"v1", "accounts", "lookup">>, "empty", "1", bob, "none")
Refuse == HTTP("DELETE", <<"v1", "accounts", "1">>, "empty", "empty", "invalid", "none")
Direct == GRPC("UpdateAccount", "1", alice, trace)
Remove == HTTP("DELETE", <<"v1", "accounts", "1">>, "empty", "empty", alice, trace)

Together == <<Pay, Look, Refuse, Direct, Remove>>

AllRequests == Alone \cup Range(Together) \cup {Ping}

\* Each request alone, two of Together at a time (calls are interchangeable:
\* one order is enough), and as many lines of one kind as the sampler tells apart.
AllScenarios ==
  {[c \in Calls |-> IF c = c1 THEN r ELSE Ping] : r \in Alone}
    \cup {[c \in Calls |-> CASE c = c1 -> Together[p[1]] [] c = c2 -> Together[p[2]]
                            [] OTHER -> Ping] :
            p \in {q \in (1..5) \X (1..5) : q[1] <= q[2]}}
    \cup {[c \in Calls |-> Direct]}

LogScenarios == {[c \in Calls |-> IF c = c1 THEN r ELSE Ping] : r \in {Pay, Look}}
=============================================================================
