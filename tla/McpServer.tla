------------------------------ MODULE McpServer ------------------------------
(***************************************************************************)
(* The HTTP bridge as a client of /mcp sees it (server.py, auth.py,        *)
(* caller_context.py): the configuration is checked before the listener    *)
(* opens, every request is authenticated, perhaps by asking the Core about *)
(* the credential, its principal is bound to the handling thread, and the  *)
(* JSON-RPC items of its body are handled one by one.                      *)
(***************************************************************************)
EXTENDS Naturals, Sequences

CONSTANTS
    Threads,      \* requests being handled, one thread each
    Environments, \* the settings to start with (see Settings)
    Keys,         \* client API keys of the Core
    Bodies,       \* request bodies: [shape, items] (see BodyShapes)
    MaxBatch,     \* _MAX_MCP_BATCH_ITEMS
    MaxFailures,  \* bound on failing lookups, reads and sends
    Static,       \* the credential MEM0_OSS_MCP_TOKEN
    Nothing       \* no credential, no principal

Settings == [mode : {"unset", "disabled", "static", "hybrid", "core_api_key", "other"},
             token : BOOLEAN, url : BOOLEAN, loopback : BOOLEAN,
             sidecar : BOOLEAN, required : BOOLEAN, operator : BOOLEAN]
BodyShapes == {"single", "batch", "scalar", "garbage", "large"}
ItemKinds == {"initialize", "tool", "failing", "unknown", "notification", "invalid", "notObject",
              "unhashable"}

\* What the constants have to be.
ServerAssumption ==
    /\ Environments \subseteq Settings
    /\ Bodies \subseteq [shape : BodyShapes, items : Seq(ItemKinds)]
    /\ MaxBatch \in Nat /\ MaxFailures \in Nat
    /\ Static \notin Keys /\ Nothing \notin Keys \cup {Static}
    /\ "anonymous" \notin Keys \cup {Static, Nothing}

Credentials == Keys \cup {Static, Nothing}

VARIABLES
    env,
    server,     \* "starting", "up", "exited"
    healthy,    \* _sidecar_healthy
    lease,      \* the Sidecar has a current heartbeat of this bridge
    health,     \* what /health answered last, "none" before
    standing,   \* key -> "admin", "member" or "revoked", as the Core knows it
    pc,         \* thread -> where its request is
    request,    \* thread -> [credential, body]
    principal,  \* thread -> the principal bound to it
    next,       \* thread -> the next item of the body
    answers,    \* thread -> the JSON-RPC answers so far: [item, says]
    reply,      \* thread -> what was sent, "none" before
    ran,        \* tool runs so far: [thread, item, as], for the running requests
    valid,      \* thread -> the key has been an admin's during this request
    failures

handling == <<pc, request, principal, next, answers, reply, ran, valid>>
sidecar == <<healthy, lease, health>>
vars == <<env, server, sidecar, standing, handling, failures>>

NoRequest == [credential |-> Nothing, body |-> [shape |-> "scalar", items |-> <<>>]]

Init ==
    /\ env \in Environments
    /\ server = "starting"
    /\ healthy = FALSE /\ lease = FALSE /\ health = "none"
    /\ standing \in [Keys -> {"admin", "member"}]
    /\ pc = [t \in Threads |-> "idle"]
    /\ request = [t \in Threads |-> NoRequest]
    /\ principal = [t \in Threads |-> Nothing]
    /\ next = [t \in Threads |-> 1]
    /\ answers = [t \in Threads |-> <<>>]
    /\ reply = [t \in Threads |-> "none"]
    /\ ran = {}
    /\ valid = [t \in Threads |-> FALSE]
    /\ failures = 0

Fail == failures < MaxFailures /\ failures' = failures + 1

-----------------------------------------------------------------------------
\* McpAuthenticator.from_env: a token alone selects static mode.
Mode == IF env.mode = "unset" /\ env.token THEN "static" ELSE env.mode

\* from_env and __init__ raise no AuthConfigurationError.
Configured ==
    /\ Mode \in {"disabled", "static", "hybrid", "core_api_key"}
    /\ Mode = "disabled" => env.loopback
    /\ Mode \in {"static", "hybrid"} => env.token
    /\ Mode \in {"hybrid", "core_api_key"} => env.url

Startable == Configured /\ (env.required => env.sidecar /\ env.operator)

\* main: a required Sidecar must be configured and must accept a heartbeat
\* before the listener opens.
Main ==
    /\ server = "starting"
    /\ \/ /\ Startable
          /\ server' = "up" /\ healthy' = env.required /\ lease' = env.required
          /\ UNCHANGED failures
       \/ /\ \/ ~Startable /\ UNCHANGED failures
             \/ env.required /\ Fail
          /\ server' = "exited"
          /\ UNCHANGED <<healthy, lease>>
    /\ UNCHANGED <<env, health, standing, handling>>

Heartbeat_UntilFailure ==
    /\ server = "up" /\ env.sidecar
    /\ failures = 0
    /\ \/ healthy' = TRUE /\ lease' = TRUE /\ UNCHANGED failures
       \/ healthy' = FALSE /\ Fail /\ UNCHANGED lease
    /\ UNCHANGED <<env, server, health, standing, handling>>

\* One round of _heartbeat_loop: a failure is noted and the loop goes on.
Heartbeat ==
    /\ server = "up" /\ env.sidecar
    /\ \/ healthy' = TRUE /\ lease' = TRUE /\ UNCHANGED failures
       \/ healthy' = FALSE /\ Fail /\ UNCHANGED lease
    /\ UNCHANGED <<env, server, health, standing, handling>>

\* The last heartbeat is no longer current for the Sidecar.
LeaseExpires ==
    /\ lease
    /\ lease' = FALSE
    /\ UNCHANGED <<env, server, healthy, health, standing, handling, failures>>

\* do_GET: /health asks the Sidecar, or the Core, whether it is ready.
Health ==
    /\ server = "up"
    /\ \/ health' = "ok" /\ UNCHANGED failures
       \/ health' = "error" /\ Fail
    /\ UNCHANGED <<env, server, healthy, lease, standing, handling>>

-----------------------------------------------------------------------------
\* A connection with a request for /mcp; connections do not carry a second one.
Post(t, c, b) ==
    /\ server = "up" /\ pc[t] = "idle"
    /\ pc' = [pc EXCEPT ![t] = "authenticating"]
    /\ request' = [request EXCEPT ![t] = [credential |-> c, body |-> b]]
    /\ next' = [next EXCEPT ![t] = 1]
    /\ answers' = [answers EXCEPT ![t] = <<>>]
    /\ reply' = [reply EXCEPT ![t] = "none"]
    /\ ran' = {r \in ran : r.thread # t}
    /\ valid' = [valid EXCEPT ![t] = c \in Keys /\ standing[c] = "admin"]
    /\ UNCHANGED <<env, server, sidecar, standing, principal, failures>>

\* What authenticate makes of a credential without asking, "ask" if it must ask.
Known(c) ==
    CASE Mode = "disabled"                       -> "anonymous"
      [] Mode # "disabled" /\ c = Nothing        -> "unauthorized"
      [] Mode \in {"static", "hybrid"} /\ c = Static -> "static"
      [] Mode = "static" /\ c # Static           -> "unauthorized"
      [] OTHER                                   -> "ask"

\* _authenticate_core_api_key: the Core must know the key, as an administrator's.
AskCore(c) == IF c \in Keys /\ standing[c] = "admin" THEN "key" ELSE "unauthorized"

Refuse(t, status) ==
    /\ pc' = [pc EXCEPT ![t] = "idle"]
    /\ reply' = [reply EXCEPT ![t] = status]
    /\ principal' = [principal EXCEPT ![t] = Nothing]
    /\ UNCHANGED <<env, server, sidecar, standing, request, next, answers, ran, valid>>

Bind_OneForAll(t, who) == principal' = [u \in Threads |-> who]

\* bind_http_principal: a context variable of the handling thread.
Bind(t, who) == principal' = [principal EXCEPT ![t] = who]

Authenticate(t) ==
    LET c == request[t].credential
        verdict == IF Known(c) = "ask" THEN AskCore(c) ELSE Known(c)
    IN  /\ pc[t] = "authenticating"
        /\ UNCHANGED failures
        /\ IF verdict = "unauthorized" THEN Refuse(t, "401")
           ELSE /\ Bind(t, IF verdict = "anonymous" THEN "anonymous" ELSE c)
                /\ pc' = [pc EXCEPT ![t] = "reading"]
                /\ UNCHANGED <<env, server, sidecar, standing, request, next, answers, reply,
                               ran, valid>>

\* The Core does not answer, or not with a principal.
CoreUnavailable(t) ==
    /\ pc[t] = "authenticating" /\ Known(request[t].credential) = "ask"
    /\ Fail
    /\ Refuse(t, "503")

\* Content-Length, size, JSON and batch length are checked before anything runs.
Unreadable(b) ==
    CASE b.shape = "large"   -> "413"
      [] b.shape = "garbage" -> "400"
      [] b.shape = "scalar"  -> "400"
      [] b.shape = "batch" /\ Len(b.items) \notin 1..MaxBatch -> "400"
      [] OTHER               -> "none"

Read(t) ==
    /\ pc[t] = "reading"
    /\ UNCHANGED failures
    /\ IF Unreadable(request[t].body) # "none" THEN Refuse(t, Unreadable(request[t].body))
       ELSE /\ pc' = [pc EXCEPT ![t] = "dispatching"]
            /\ UNCHANGED <<env, server, sidecar, standing, request, principal, next, answers,
                           reply, ran, valid>>

\* handle_rpc, or the answer for an item that is no object.
Says(item) ==
    CASE item = "initialize" -> "result"
      [] item = "tool"       -> "result"
      [] item = "failing"    -> "tool error"
      [] item = "unknown"    -> "no such tool or method"
      [] OTHER               -> "invalid request"

WithAnswer_FirstError(t, item) ==
    item # "notification" /\ (item = "failing" => answers[t] = <<>>)

\* Notifications get no answer.
WithAnswer(t, item) == item # "notification"

Runs(item) == item \in {"tool", "failing"}

Handle_InPlace(t) ==
    LET item == request[t].body.items[next[t]] IN
    /\ pc[t] = "dispatching" /\ next[t] <= Len(request[t].body.items)
    /\ item # "unhashable"
    /\ answers' = [answers EXCEPT ![t] = Append(@, [item |-> next[t], says |-> Says(item)])]
    /\ UNCHANGED <<env, server, sidecar, standing, pc, request, principal, next, reply, ran,
                   valid, failures>>

Handle(t) ==
    LET item == request[t].body.items[next[t]] IN
    /\ pc[t] = "dispatching" /\ next[t] <= Len(request[t].body.items)
    /\ item # "unhashable"
    /\ ran' = IF Runs(item)
              THEN ran \cup {[thread |-> t, item |-> next[t], as |-> principal[t]]} ELSE ran
    /\ answers' = IF WithAnswer(t, item)
                  THEN [answers EXCEPT ![t] = Append(@, [item |-> next[t], says |-> Says(item)])]
                  ELSE answers
    /\ next' = [next EXCEPT ![t] = @ + 1]
    /\ UNCHANGED <<env, server, sidecar, standing, pc, request, principal, reply, valid, failures>>

\* A tool name that is not hashable raises TypeError out of handle_rpc: the
\* connection closes without an answer to any item.
HandleRaises(t) ==
    /\ pc[t] = "dispatching" /\ next[t] <= Len(request[t].body.items)
    /\ request[t].body.items[next[t]] = "unhashable"
    /\ UNCHANGED failures
    /\ Refuse(t, "closed")

Send(t) ==
    /\ pc[t] = "dispatching" /\ next[t] > Len(request[t].body.items)
    /\ UNCHANGED failures
    /\ Refuse(t, IF answers[t] = <<>> THEN "202" ELSE "200")

\* The body does not arrive in time, or the client has gone.
ConnectionFails(t) ==
    /\ \/ pc[t] = "reading"
       \/ pc[t] = "dispatching" /\ next[t] > Len(request[t].body.items)
    /\ Fail
    /\ Refuse(t, "closed")

-----------------------------------------------------------------------------
\* An administrator changes the role of a key's owner, or revokes the key.
ChangeKey(k, s) ==
    /\ standing[k] \notin {s, "revoked"}
    /\ standing' = [standing EXCEPT ![k] = s]
    /\ valid' = [t \in Threads |-> valid[t] \/ (request[t].credential = k /\ s = "admin")]
    /\ UNCHANGED <<env, server, sidecar, pc, request, principal, next, answers, reply, ran, failures>>

Thread(t) ==
    \/ Authenticate(t) \/ CoreUnavailable(t) \/ Read(t) \/ Handle(t) \/ HandleRaises(t)
    \/ Send(t) \/ ConnectionFails(t)

\* The listener opens, requests are handled, and keys change.
Serving ==
    \/ Main
    \/ \E t \in Threads : Thread(t)
    \/ \E k \in Keys, s \in {"admin", "member", "revoked"} : ChangeKey(k, s)

\* Everything but the arrival of a request.
Running == Serving \/ Heartbeat \/ LeaseExpires \/ Health

Next == Running \/ \E t \in Threads, c \in Credentials, b \in Bodies : Post(t, c, b)

Spec == Init /\ [][Next]_vars

\* The heartbeat thread runs as long as the process.
FairSpec == Spec /\ WF_vars(Heartbeat)

-----------------------------------------------------------------------------
\* Requests, principals, answers and the tool runs have their types.
TypeOK ==
    /\ env \in Environments /\ server \in {"starting", "up", "exited"}
    /\ healthy \in BOOLEAN /\ lease \in BOOLEAN /\ health \in {"none", "ok", "error"}
    /\ standing \in [Keys -> {"admin", "member", "revoked"}]
    /\ pc \in [Threads -> {"idle", "authenticating", "reading", "dispatching"}]
    /\ request \in [Threads -> [credential : Credentials, body : Bodies \cup {NoRequest.body}]]
    /\ principal \in [Threads -> Credentials \cup {"anonymous"}]
    /\ next \in [Threads -> Nat \ {0}]
    /\ \A t \in Threads : next[t] <= Len(request[t].body.items) + 1
    /\ \A t \in Threads : Len(answers[t]) < next[t]
    /\ reply \in [Threads -> {"none", "200", "202", "400", "401", "413", "503", "closed"}]
    /\ \A r \in ran : r.thread \in Threads /\ r.item < next[r.thread]
    /\ valid \in [Threads -> BOOLEAN] /\ failures \in 0..MaxFailures

\* Whom a thread may run a tool as.
MayRunAs(t, who) ==
    CASE who = "anonymous" -> env.mode = "disabled" /\ env.loopback
      [] who = Static      -> request[t].credential = Static /\ env.token
      [] OTHER             -> request[t].credential = who /\ valid[t]

\* Every tool runs as the caller of its own request, however many are handled at
\* once; as a key only if the key was an administrator's during the request; and
\* as nobody only on a loopback listener configured so (authenticate, bind_http_principal).
RunsAsItsCaller == \A r \in ran : MayRunAs(r.thread, r.as)

\* A request that is refused has run nothing (do_POST checks everything first).
RefusedRunsNothing ==
    \A t \in Threads :
        reply[t] \in {"400", "401", "413", "503"} => \A r \in ran : r.thread # t

\* Thread t has answered those of its first n items that need an answer, each one
\* once and in their order.
AnsweredUpTo(t, n) ==
    /\ {answers[t][i].item : i \in DOMAIN answers[t]}
           = {i \in 1..n : request[t].body.items[i] # "notification"}
    /\ \A i, j \in DOMAIN answers[t] : i < j => answers[t][i].item < answers[t][j].item
    /\ \A i \in DOMAIN answers[t] :
           answers[t][i].says = Says(request[t].body.items[answers[t][i].item])

\* A batch is answered item by item, in order, errors and notifications or not.
BatchAnswered ==
    \A t \in Threads :
        reply[t] \in {"200", "202"} => AnsweredUpTo(t, Len(request[t].body.items))

\* A required Sidecar has been reached before the first request is accepted.
UpMeansReached == [][server # "up" /\ server' = "up" /\ env.required => healthy']_vars

\* The Sidecar has a current heartbeat again and again, however often it could not
\* be reached (_heartbeat_loop).
HeartbeatRecovers == []<>(server # "up" \/ ~env.sidecar \/ (healthy /\ lease))
===============================================================================
