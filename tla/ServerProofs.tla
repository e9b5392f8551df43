----------------------------- MODULE ServerProofs -----------------------------
(***************************************************************************)
(* Proofs about Server: about McpServer, about StdioBridge, and from them  *)
(* and RequestSlotsProofs about the processes side by side.                *)
(***************************************************************************)
EXTENDS Server, RequestSlotsProofs

-----------------------------------------------------------------------------
\* McpServer, for any number of threads, keys and bodies.

Places == {"idle", "authenticating", "reading", "dispatching"}

\* The principal a thread has been given is one it may run as, and so are those that
\* its tools have run as; a key that is an administrator's now has been noted.
CallerInv ==
    /\ DOMAIN standing = Keys /\ standing = [k \in Keys |-> standing[k]]
    /\ pc \in [Threads -> Places]
    /\ principal = [t \in Threads |-> principal[t]]
    /\ request = [t \in Threads |-> request[t]]
    /\ valid = [t \in Threads |-> valid[t]]
    /\ \A t \in Threads : pc[t] # "idle" => Mcp!Configured
    /\ server = "up" => Mcp!Configured
    /\ \A t \in Threads :
          pc[t] = "authenticating" /\ Mcp!AskCore(request[t].credential) = "key" => valid[t]
    /\ \A t \in Threads : pc[t] \in {"reading", "dispatching"} => Mcp!MayRunAs(t, principal[t])
    /\ \A r \in ran : r.thread \in Threads /\ Mcp!MayRunAs(r.thread, r.as)

LEMMA InitCallerInv == Mcp!Init => CallerInv
  BY DEF Mcp!Init, CallerInv, Places, Mcp!AskCore

\* Whom a thread may run as is settled by its environment, its request, and whether
\* its key has been valid.
LEMMA MayRunAsKept ==
    ASSUME NEW t, NEW who, Mcp!MayRunAs(t, who), UNCHANGED env,
           request'[t] = request[t], valid[t] => valid'[t]
    PROVE  Mcp!MayRunAs(t, who)'
  BY DEF Mcp!MayRunAs

\* A step that authenticates nobody and changes no key.
LEMMA Untouched ==
    ASSUME CallerInv, UNCHANGED <<env, standing, request, principal, valid, pc, ran>>,
           server' = "up" => Mcp!Configured
    PROVE  CallerInv'
  BY DEF CallerInv, Mcp!MayRunAs, Mcp!AskCore, Mcp!Configured, Mcp!Mode

\* A request ends, whatever the answer.
LEMMA RefuseKept ==
    ASSUME CallerInv, NEW t \in Threads, NEW status, Mcp!Refuse(t, status)
    PROVE  CallerInv'
  <1>1. /\ pc' = [pc EXCEPT ![t] = "idle"] /\ principal' = [principal EXCEPT ![t] = Nothing]
        /\ UNCHANGED <<env, server, standing, request, ran, valid>>
    BY DEF Mcp!Refuse
  <1>2. Mcp!Configured' = Mcp!Configured
    BY <1>1 DEF Mcp!Configured, Mcp!Mode
  <1>3. \A u \in Threads : pc'[u] # "idle" => pc'[u] = pc[u] /\ principal'[u] = principal[u]
    BY <1>1 DEF CallerInv, Places
  <1>4. \A u, who : Mcp!MayRunAs(u, who) => Mcp!MayRunAs(u, who)'
    BY <1>1 DEF Mcp!MayRunAs
  <1>5. /\ pc' \in [Threads -> Places]
        /\ principal' = [u \in Threads |-> principal'[u]]
    BY <1>1 DEF CallerInv, Places
  <1>6. QED
    BY <1>1, <1>2, <1>3, <1>4, <1>5 DEF CallerInv, Mcp!AskCore

\* The thread goes on to the next place of its request, which is not the beginning.
LEMMA PlaceKept ==
    ASSUME CallerInv, NEW t \in Threads, NEW place \in {"reading", "dispatching"},
           pc' = [pc EXCEPT ![t] = place], pc[t] \in {"reading", "dispatching"},
           UNCHANGED <<env, server, standing, request, principal, valid, ran>>
    PROVE  CallerInv'
  <1>1. Mcp!Configured' = Mcp!Configured
    BY DEF Mcp!Configured, Mcp!Mode
  <1>2. \A u, who : Mcp!MayRunAs(u, who) => Mcp!MayRunAs(u, who)'
    BY DEF Mcp!MayRunAs
  <1>3. /\ pc' \in [Threads -> Places] /\ pc'[t] = place
        /\ \A u \in Threads \ {t} : pc'[u] = pc[u]
    BY DEF CallerInv, Places
  <1>4. QED
    BY <1>1, <1>2, <1>3 DEF CallerInv, Mcp!AskCore

LEMMA AuthenticateKept ==
    ASSUME Mcp!ServerAssumption, CallerInv, NEW t \in Threads, Mcp!Authenticate(t)
    PROVE  CallerInv'
  <1> DEFINE c == request[t].credential
             verdict == IF Mcp!Known(c) = "ask" THEN Mcp!AskCore(c) ELSE Mcp!Known(c)
             who == IF verdict = "anonymous" THEN "anonymous" ELSE c
  <1>1. CASE verdict = "unauthorized"
    <2>1. Mcp!Refuse(t, "401")
      BY <1>1 DEF Mcp!Authenticate
    <2>2. QED
      BY <2>1, RefuseKept
  <1>2. CASE verdict # "unauthorized"
    <2>1. /\ pc[t] = "authenticating" /\ pc' = [pc EXCEPT ![t] = "reading"]
          /\ principal' = [principal EXCEPT ![t] = who]
          /\ UNCHANGED <<env, server, standing, request, ran, valid>>
      BY <1>2 DEF Mcp!Authenticate, Mcp!Bind
    <2>2. Mcp!Configured
      BY <2>1 DEF CallerInv
    <2>3. Mcp!MayRunAs(t, who)
      <3>1. CASE Mcp!Mode = "disabled"
        <4>1. who = "anonymous"
          BY <3>1 DEF Mcp!Known
        <4>2. env.mode = "disabled" /\ env.loopback
          BY <3>1, <2>2 DEF Mcp!Mode, Mcp!Configured
        <4>3. Mcp!MayRunAs(t, "anonymous")
          BY <4>2 DEF Mcp!MayRunAs, Mcp!ServerAssumption
        <4>4. QED
          BY <4>1, <4>3
      <3>2. CASE Mcp!Mode # "disabled" /\ Mcp!Mode \in {"static", "hybrid"} /\ c = Static
        <4>1. c # Nothing /\ c # "anonymous"
          BY <3>2 DEF Mcp!ServerAssumption
        <4>2. Mcp!Known(c) = "static"
          BY <3>2, <4>1 DEF Mcp!Known
        <4>3. who = c /\ env.token
          BY <3>2, <4>2, <2>2 DEF Mcp!Configured
        <4>4. QED
          BY <3>2, <4>1, <4>3 DEF Mcp!MayRunAs
      <3>3. CASE Mcp!Mode # "disabled" /\ ~(Mcp!Mode \in {"static", "hybrid"} /\ c = Static)
        <4>1. Mcp!Known(c) \in {"unauthorized", "ask"}
          BY <3>3 DEF Mcp!Known
        <4>2. Mcp!AskCore(c) = "key" /\ c \in Keys
          BY <1>2, <4>1 DEF Mcp!AskCore
        <4>3. who = c /\ valid[t] /\ c # Static /\ c # "anonymous"
          BY <1>2, <4>1, <4>2, <2>1 DEF CallerInv, Mcp!ServerAssumption
        <4>4. QED
          BY <4>3 DEF Mcp!MayRunAs
      <3>4. QED
        BY <3>1, <3>2, <3>3
    <2>4. Mcp!Configured' = Mcp!Configured
      BY <2>1 DEF Mcp!Configured, Mcp!Mode
    <2>5. \A u, w : Mcp!MayRunAs(u, w) => Mcp!MayRunAs(u, w)'
      BY <2>1 DEF Mcp!MayRunAs
    <2>6. /\ pc' \in [Threads -> Places] /\ pc'[t] = "reading" /\ principal'[t] = who
          /\ principal' = [u \in Threads |-> principal'[u]]
          /\ \A u \in Threads \ {t} : pc'[u] = pc[u] /\ principal'[u] = principal[u]
      BY <2>1 DEF CallerInv, Places
    <2> HIDE DEF who
    <2>7. QED
      BY <2>1, <2>2, <2>3, <2>4, <2>5, <2>6 DEF CallerInv, Mcp!AskCore
  <1>3. QED
    BY <1>1, <1>2

LEMMA PostKept ==
    ASSUME CallerInv, NEW t \in Threads, NEW c, NEW b, Mcp!Post(t, c, b)
    PROVE  CallerInv'
  <1>1. /\ server = "up" /\ pc[t] = "idle" /\ pc' = [pc EXCEPT ![t] = "authenticating"]
        /\ request' = [request EXCEPT ![t] = [credential |-> c, body |-> b]]
        /\ ran' = {r \in ran : r.thread # t}
        /\ valid' = [valid EXCEPT ![t] = c \in Keys /\ standing[c] = "admin"]
        /\ UNCHANGED <<env, server, standing, principal>>
    BY DEF Mcp!Post
  <1>2. Mcp!Configured /\ Mcp!Configured'
    BY <1>1 DEF CallerInv, Mcp!Configured, Mcp!Mode
  <1>3. /\ pc' \in [Threads -> Places] /\ pc'[t] = "authenticating"
        /\ request' = [u \in Threads |-> request'[u]]
        /\ request'[t].credential = c
        /\ \A u \in Threads \ {t} : pc'[u] = pc[u] /\ request'[u] = request[u]
    BY <1>1 DEF CallerInv, Places
  <1>4. /\ valid' = [u \in Threads |-> valid'[u]]
        /\ \A u \in Threads \ {t} : valid'[u] = valid[u]
        /\ c \in Keys /\ standing[c] = "admin" => valid'[t]
    BY <1>1 DEF CallerInv
  <1>5. Mcp!AskCore(request[t].credential)' = "key" => valid'[t]
    BY <1>1, <1>3, <1>4 DEF Mcp!AskCore
  <1>6. \A u \in Threads \ {t} : \A who : Mcp!MayRunAs(u, who) => Mcp!MayRunAs(u, who)'
    BY <1>1, <1>3, <1>4 DEF Mcp!MayRunAs
  <1>7. QED
    BY <1>1, <1>2, <1>3, <1>4, <1>5, <1>6 DEF CallerInv, Mcp!AskCore

LEMMA ChangeKeyKept ==
    ASSUME CallerInv, NEW k \in Keys, NEW s \in {"admin", "member", "revoked"}, Mcp!ChangeKey(k, s)
    PROVE  CallerInv'
  <1>1. /\ standing' = [standing EXCEPT ![k] = s]
        /\ valid' = [t \in Threads |-> valid[t] \/ (request[t].credential = k /\ s = "admin")]
        /\ UNCHANGED <<env, server, pc, request, principal, ran>>
    BY DEF Mcp!ChangeKey
  <1>2. \A t \in Threads : valid[t] => valid'[t]
    BY <1>1
  <1>3. \A t \in Threads : \A who : Mcp!MayRunAs(t, who) => Mcp!MayRunAs(t, who)'
    BY <1>1, <1>2 DEF Mcp!MayRunAs
  <1>4. Mcp!Configured' = Mcp!Configured
    BY <1>1 DEF Mcp!Configured, Mcp!Mode
  <1>5. ASSUME NEW t \in Threads, pc[t] = "authenticating", request[t].credential \in Keys,
               standing'[request[t].credential] = "admin"
        PROVE  valid'[t]
    <2>1. CASE request[t].credential = k
      <3>1. s = "admin"
        BY <1>1, <1>5, <2>1 DEF CallerInv
      <3>2. QED
        BY <1>1, <2>1, <3>1
    <2>2. CASE request[t].credential # k
      <3>1. standing[request[t].credential] = "admin"
        BY <1>1, <1>5, <2>2 DEF CallerInv
      <3>2. QED
        BY <1>2, <1>5, <3>1 DEF CallerInv, Mcp!AskCore
    <2>3. QED
      BY <2>1, <2>2
  <1>6. /\ DOMAIN standing' = Keys /\ standing' = [i \in Keys |-> standing'[i]]
        /\ valid' = [t \in Threads |-> valid'[t]]
    BY <1>1 DEF CallerInv
  <1>7. QED
    BY <1>1, <1>3, <1>4, <1>5, <1>6 DEF CallerInv, Mcp!AskCore

LEMMA HandleKept ==
    ASSUME CallerInv, NEW t \in Threads, Mcp!Handle(t)
    PROVE  CallerInv'
  <1>1. /\ pc[t] = "dispatching"
        /\ UNCHANGED <<env, server, standing, pc, request, principal, valid>>
        /\ \A r \in ran' : r \in ran \/ (r.thread = t /\ r.as = principal[t])
    BY DEF Mcp!Handle
  <1>2. Mcp!Configured' = Mcp!Configured
    BY <1>1 DEF Mcp!Configured, Mcp!Mode
  <1>3. \A u, who : Mcp!MayRunAs(u, who) => Mcp!MayRunAs(u, who)'
    BY <1>1 DEF Mcp!MayRunAs
  <1>4. \A r \in ran' : r.thread \in Threads /\ Mcp!MayRunAs(r.thread, r.as)
    BY <1>1 DEF CallerInv
  <1>5. QED
    BY <1>1, <1>2, <1>3, <1>4 DEF CallerInv, Mcp!AskCore

LEMMA ThreadKept ==
    ASSUME Mcp!ServerAssumption, CallerInv, NEW t \in Threads, Mcp!Thread(t)
    PROVE  CallerInv'
  <1>1. CASE Mcp!Authenticate(t)
    BY <1>1, AuthenticateKept
  <1>2. CASE Mcp!Read(t)
    <2>1. CASE Mcp!Unreadable(request[t].body) # "none"
      BY <1>2, <2>1, RefuseKept DEF Mcp!Read
    <2>2. CASE Mcp!Unreadable(request[t].body) = "none"
      <3>1. /\ pc[t] = "reading" /\ pc' = [pc EXCEPT ![t] = "dispatching"]
            /\ UNCHANGED <<env, server, standing, request, principal, valid, ran>>
        BY <1>2, <2>2 DEF Mcp!Read
      <3>2. QED
        BY <3>1, PlaceKept
    <2>3. QED
      BY <2>1, <2>2
  <1>3. CASE Mcp!Handle(t)
    BY <1>3, HandleKept
  <1>4. CASE Mcp!CoreUnavailable(t) \/ Mcp!HandleRaises(t) \/ Mcp!Send(t) \/ Mcp!ConnectionFails(t)
    BY <1>4, RefuseKept DEF Mcp!CoreUnavailable, Mcp!HandleRaises, Mcp!Send, Mcp!ConnectionFails
  <1>5. QED
    BY <1>1, <1>2, <1>3, <1>4 DEF Mcp!Thread

LEMMA NextCallerInv == ASSUME Mcp!ServerAssumption, CallerInv, [Mcp!Next]_(Mcp!vars) PROVE CallerInv'
  <1>1. CASE Mcp!Main \/ Mcp!Heartbeat \/ Mcp!LeaseExpires \/ Mcp!Health
    <2>1. /\ UNCHANGED <<env, standing, request, principal, valid, pc, ran>>
          /\ server' = "up" => server = "up" \/ Mcp!Startable
      BY <1>1 DEF Mcp!Main, Mcp!Heartbeat, Mcp!LeaseExpires, Mcp!Health, Mcp!handling
    <2>2. server' = "up" => Mcp!Configured
      BY <2>1 DEF CallerInv, Mcp!Startable
    <2>3. QED
      BY <2>1, <2>2, Untouched
  <1>2. ASSUME NEW t \in Threads, Mcp!Thread(t) PROVE CallerInv'
    BY <1>2, ThreadKept
  <1>3. ASSUME NEW k \in Keys, NEW s \in {"admin", "member", "revoked"}, Mcp!ChangeKey(k, s)
        PROVE  CallerInv'
    BY <1>3, ChangeKeyKept
  <1>4. ASSUME NEW t \in Threads, NEW c \in Mcp!Credentials, NEW b \in Bodies, Mcp!Post(t, c, b)
        PROVE  CallerInv'
    BY <1>4, PostKept
  <1>5. CASE UNCHANGED Mcp!vars
    <2>1. /\ UNCHANGED <<env, standing, request, principal, valid, pc, ran>>
          /\ server' = "up" => Mcp!Configured
      BY <1>5 DEF Mcp!vars, Mcp!handling, CallerInv
    <2>2. QED
      BY <2>1, Untouched
  <1>6. QED
    BY <1>1, <1>2, <1>3, <1>4, <1>5 DEF Mcp!Next, Mcp!Running, Mcp!Serving

\* Every tool runs as the caller of its own request, as a key only if it has been an
\* administrator's during the request, and as nobody only on a loopback listener,
\* whatever requests are handled at once and whatever the administrators do meanwhile
\* (authenticate, bind_http_principal).
THEOREM RunsAsItsCallerTheorem == ASSUME Mcp!ServerAssumption PROVE Mcp!Spec => []Mcp!RunsAsItsCaller
  <1>1. CallerInv => Mcp!RunsAsItsCaller
    BY DEF CallerInv, Mcp!RunsAsItsCaller
  <1>2. QED
    BY <1>1, InitCallerInv, NextCallerInv, PTL DEF Mcp!Spec

-----------------------------------------------------------------------------
\* Nothing runs before a request has been read, and what refuses a request sends it
\* no further.
Refusals == {"400", "401", "413", "503"}

RefusedInv ==
    /\ pc = [t \in Threads |-> pc[t]] /\ reply = [t \in Threads |-> reply[t]]
    /\ \A t \in Threads : reply[t] \in Refusals => pc[t] = "idle"
    /\ \A t \in Threads :
          pc[t] \in {"authenticating", "reading"} \/ reply[t] \in Refusals
            => \A r \in ran : r.thread # t

LEMMA RefuseKeepsRefusedInv ==
    ASSUME RefusedInv, NEW t \in Threads, NEW status, Mcp!Refuse(t, status),
           status \in Refusals => pc[t] \in {"authenticating", "reading"}
    PROVE  RefusedInv'
  <1>1. /\ pc' = [pc EXCEPT ![t] = "idle"] /\ reply' = [reply EXCEPT ![t] = status]
        /\ UNCHANGED ran
    BY DEF Mcp!Refuse
  <1>2. /\ pc' = [u \in Threads |-> pc'[u]] /\ reply' = [u \in Threads |-> reply'[u]]
        /\ pc'[t] = "idle" /\ reply'[t] = status
        /\ \A u \in Threads \ {t} : pc'[u] = pc[u] /\ reply'[u] = reply[u]
    BY <1>1 DEF RefusedInv
  <1>3. QED
    BY <1>1, <1>2 DEF RefusedInv

LEMMA ThreadKeepsRefusedInv ==
    ASSUME RefusedInv, NEW t \in Threads, Mcp!Thread(t)
    PROVE  RefusedInv'
  <1>1. CASE Mcp!Authenticate(t)
    <2>1. CASE Mcp!Refuse(t, "401")
      BY <1>1, <2>1, RefuseKeepsRefusedInv DEF Mcp!Authenticate
    <2>2. CASE ~Mcp!Refuse(t, "401")
      <3>1. pc[t] = "authenticating" /\ pc' = [pc EXCEPT ![t] = "reading"] /\ UNCHANGED <<reply, ran>>
        BY <1>1, <2>2 DEF Mcp!Authenticate
      <3>2. QED
        BY <3>1 DEF RefusedInv
    <2>3. QED
      BY <2>1, <2>2
  <1>2. CASE Mcp!CoreUnavailable(t)
    BY <1>2, RefuseKeepsRefusedInv DEF Mcp!CoreUnavailable
  <1>3. CASE Mcp!Read(t)
    <2>1. CASE Mcp!Refuse(t, Mcp!Unreadable(request[t].body))
      BY <1>3, <2>1, RefuseKeepsRefusedInv DEF Mcp!Read
    <2>2. CASE ~Mcp!Refuse(t, Mcp!Unreadable(request[t].body))
      <3>1. pc[t] = "reading" /\ pc' = [pc EXCEPT ![t] = "dispatching"] /\ UNCHANGED <<reply, ran>>
        BY <1>3, <2>2 DEF Mcp!Read
      <3>2. QED
        BY <3>1 DEF RefusedInv
    <2>3. QED
      BY <2>1, <2>2
  <1>4. CASE Mcp!Handle(t)
    <2>1. /\ pc[t] = "dispatching" /\ UNCHANGED <<pc, reply>>
          /\ \A r \in ran' : r \in ran \/ r.thread = t
      BY <1>4 DEF Mcp!Handle
    <2>2. QED
      BY <2>1 DEF RefusedInv
  <1>5. CASE Mcp!HandleRaises(t) \/ Mcp!Send(t) \/ Mcp!ConnectionFails(t)
    <2>1. PICK status \in {"closed", "202", "200"} : Mcp!Refuse(t, status)
      BY <1>5 DEF Mcp!HandleRaises, Mcp!Send, Mcp!ConnectionFails
    <2>2. status \notin Refusals
      BY DEF Refusals
    <2>3. QED
      BY <2>1, <2>2, RefuseKeepsRefusedInv
  <1>6. QED
    BY <1>1, <1>2, <1>3, <1>4, <1>5 DEF Mcp!Thread

LEMMA NextRefusedInv == ASSUME RefusedInv, [Mcp!Next]_(Mcp!vars) PROVE RefusedInv'
  <1>1. CASE UNCHANGED <<pc, reply, ran>>
    BY <1>1 DEF RefusedInv
  <1>2. Mcp!Main \/ Mcp!Heartbeat \/ Mcp!LeaseExpires \/ Mcp!Health => UNCHANGED <<pc, reply, ran>>
    BY DEF Mcp!Main, Mcp!Heartbeat, Mcp!LeaseExpires, Mcp!Health, Mcp!handling
  <1>3. \A k \in Keys, s \in {"admin", "member", "revoked"} :
           Mcp!ChangeKey(k, s) => UNCHANGED <<pc, reply, ran>>
    BY DEF Mcp!ChangeKey
  <1>4. ASSUME NEW t \in Threads, Mcp!Thread(t) PROVE RefusedInv'
    BY <1>4, ThreadKeepsRefusedInv
  <1>5. ASSUME NEW t \in Threads, NEW c \in Mcp!Credentials, NEW b \in Bodies, Mcp!Post(t, c, b)
        PROVE  RefusedInv'
    <2>1. /\ pc' = [pc EXCEPT ![t] = "authenticating"] /\ reply' = [reply EXCEPT ![t] = "none"]
          /\ ran' = {r \in ran : r.thread # t}
      BY <1>5 DEF Mcp!Post
    <2>2. QED
      BY <2>1 DEF RefusedInv, Refusals
  <1>6. UNCHANGED Mcp!vars => UNCHANGED <<pc, reply, ran>>
    BY DEF Mcp!vars, Mcp!handling
  <1>7. QED
    BY <1>1, <1>2, <1>3, <1>4, <1>5, <1>6 DEF Mcp!Next, Mcp!Running, Mcp!Serving

\* A request that is refused has run no tool, however the requests of the other
\* threads interleave with it (do_POST checks everything before it runs an item).
THEOREM RefusedRunsNothingTheorem == Mcp!Spec => []Mcp!RefusedRunsNothing
  <1>1. Mcp!Init => RefusedInv
    BY DEF Mcp!Init, RefusedInv, Refusals
  <1>2. RefusedInv => Mcp!RefusedRunsNothing
    BY DEF RefusedInv, Mcp!RefusedRunsNothing, Refusals
  <1>3. QED
    BY <1>1, <1>2, NextRefusedInv, PTL DEF Mcp!Spec
-----------------------------------------------------------------------------
\* StdioBridge, for any number of lines and messages.

\* Only the thread that holds the lock prints, and only a thread that prints can
\* have a message half written.
LockHeld ==
    /\ \A l \in Stdio!Lines : worker[l] = "printing" => lock = l
    /\ half # None => half \in Stdio!Lines /\ worker[half] = "printing" /\ left[half] > 0
    /\ cut = {}

\* What a line has had printed and has left to print is what its post brought.
Due(l) ==
    /\ l > read => worker[l] = "none"
    /\ worker[l] \in {"none", "posting"} => answered[l] = 0 /\ left[l] = 0 /\ outcome[l] = "none"
    /\ worker[l] \in {"done", "raised"} => left[l] = 0
    /\ worker[l] \in {"waiting", "printing", "done", "raised"} /\ kind[l] = "request"
         => (answered[l] + left[l] > 0 <=> ~Stdio!Lost(l))
    /\ kind[l] # "request" /\ outcome[l] # "some" => answered[l] = 0 /\ left[l] = 0

AllDue == \A l \in Stdio!Lines : Due(l)

\* Once the process has ended there is nothing more to do.
Finished == main = "exited" => \A l \in Stdio!Lines : worker[l] \in {"done", "raised"}

BridgeInv == Stdio!TypeOK /\ LockHeld /\ AllDue /\ Finished

LEMMA InitBridgeInv == ASSUME Stdio!StdioAssumption PROVE Stdio!Init => BridgeInv
  BY DEF Stdio!StdioAssumption, Stdio!Init, BridgeInv, Stdio!TypeOK, LockHeld, AllDue, Due, Stdio!Lost, Finished, Stdio!Lines

\* The main thread reads, waits for the threads and ends.
LEMMA MainKeepsBridgeInv ==
    ASSUME Stdio!StdioAssumption, BridgeInv, Stdio!ReadLine \/ Stdio!EndOfInput \/ Stdio!Exit
    PROVE  BridgeInv'
  <1>1. CASE Stdio!ReadLine
    <2>1. read \in Nat /\ read < NumLines
      BY <1>1 DEF Stdio!ReadLine, BridgeInv, Stdio!TypeOK, Stdio!StdioAssumption
    <2>2. PICK r \in Stdio!Lines :
             /\ r = read + 1 /\ r \in 0..NumLines /\ r > read /\ ~(r > r)
             /\ \A l \in Stdio!Lines : l > r => l > read /\ l # r
      <3>1. /\ read + 1 \in Stdio!Lines /\ read + 1 \in 0..NumLines /\ read + 1 > read
            /\ ~(read + 1 > read + 1)
            /\ \A l \in Stdio!Lines : l > read + 1 => l > read /\ l # read + 1
        BY <2>1 DEF Stdio!StdioAssumption, Stdio!Lines
      <3>2. QED
        BY <3>1
    <2>3. /\ read' = r /\ main = "reading"
          /\ UNCHANGED <<address, kind, main, left, outcome, lock, half, cut, answered>>
      BY <1>1, <2>2 DEF Stdio!ReadLine
    <2>4. PICK w \in {"done", "posting"} : worker' = [worker EXCEPT ![r] = w]
      BY <1>1, <2>2 DEF Stdio!ReadLine
    <2>5. worker[r] = "none" /\ Due(r)
      BY <2>2 DEF BridgeInv, AllDue, Due, Stdio!Lost
    <2>6. Stdio!TypeOK' /\ worker'[r] = w
      BY <2>2, <2>3, <2>4 DEF BridgeInv, Stdio!TypeOK
    <2>7. \A l \in Stdio!Lines \ {r} : worker'[l] = worker[l]
      BY <2>4 DEF BridgeInv, Stdio!TypeOK
    <2>8. LockHeld'
      BY <2>3, <2>5, <2>6, <2>7 DEF BridgeInv, LockHeld
    <2>9. w = "done" => kind[r] = "junk"
      BY <1>1, <2>2, <2>6 DEF Stdio!ReadLine, BridgeInv, Stdio!TypeOK
    <2>10. Due(r)'
      BY <2>2, <2>3, <2>5, <2>6, <2>9 DEF Due, Stdio!Lost
    <2>11. ASSUME NEW l \in Stdio!Lines \ {r} PROVE Due(l)'
      BY <2>2, <2>3, <2>7 DEF BridgeInv, AllDue, Due, Stdio!Lost
    <2>12. Finished'
      BY <2>3 DEF Finished
    <2>13. QED
      BY <2>6, <2>8, <2>10, <2>11, <2>12 DEF BridgeInv, AllDue
  <1>2. CASE Stdio!EndOfInput
    BY <1>2 DEF Stdio!EndOfInput, BridgeInv, Stdio!TypeOK, LockHeld, AllDue, Due, Stdio!Lost, Finished
  <1>3. CASE Stdio!Exit
    BY <1>3 DEF Stdio!Exit, BridgeInv, Stdio!TypeOK, LockHeld, AllDue, Due, Stdio!Lost, Finished
  <1>4. QED
    BY <1>1, <1>2, <1>3

\* A post ends: there are n messages to print, or the thread has ended.
PostEnds(l, n, w, o) ==
    /\ worker[l] = "posting"
    /\ left' = [left EXCEPT ![l] = n]
    /\ worker' = [worker EXCEPT ![l] = w]
    /\ outcome' = [outcome EXCEPT ![l] = o]
    /\ UNCHANGED <<address, kind, main, read, lock, half, cut, answered>>
    /\ n > 0 <=> w = "waiting"
    /\ kind[l] = "request" => (n > 0 <=> o \notin {"empty", "raised"})
    /\ kind[l] # "request" /\ o # "some" => n = 0

LEMMA PostEndsKeepsBridgeInv ==
    ASSUME BridgeInv, NEW l \in Stdio!Lines, NEW n \in Nat, NEW w \in {"done", "waiting", "raised"},
           NEW o \in {"none", "some", "empty", "failed", "raised"}, PostEnds(l, n, w, o)
    PROVE  BridgeInv'
  <1>1. Stdio!TypeOK'
    BY DEF PostEnds, BridgeInv, Stdio!TypeOK
  <1>2. LockHeld'
    <2>1. \A m \in Stdio!Lines : worker'[m] = "printing" => m # l /\ worker[m] = "printing"
      BY DEF PostEnds, BridgeInv, Stdio!TypeOK
    <2>2. half # None => half \in Stdio!Lines \ {l} /\ worker'[half] = worker[half] /\ left'[half] = left[half]
      BY DEF PostEnds, BridgeInv, Stdio!TypeOK, LockHeld
    <2>3. UNCHANGED <<lock, half, cut>>
      BY DEF PostEnds
    <2>4. QED
      BY <2>1, <2>2, <2>3 DEF BridgeInv, LockHeld
  <1>3. AllDue'
    <2>1. ASSUME NEW m \in Stdio!Lines \ {l} PROVE Due(m)'
      <3>1. Due(m) /\ worker'[m] = worker[m] /\ left'[m] = left[m] /\ outcome'[m] = outcome[m]
        BY <2>1 DEF PostEnds, BridgeInv, Stdio!TypeOK, AllDue
      <3>2. UNCHANGED <<address, kind, read, answered>>
        BY DEF PostEnds
      <3>3. QED
        BY <3>1, <3>2 DEF Due, Stdio!Lost
    <2>2. Due(l)'
      <3>1. Due(l) /\ worker'[l] = w /\ left'[l] = n /\ outcome'[l] = o
        BY DEF PostEnds, BridgeInv, Stdio!TypeOK, AllDue
      <3>2. answered'[l] = 0 /\ ~(l > read')
        BY <3>1 DEF PostEnds, Due, Stdio!Lost
      <3>3. UNCHANGED <<address, kind>>
        BY DEF PostEnds
      <3>4. QED
        BY <3>1, <3>2, <3>3 DEF PostEnds, Due, Stdio!Lost
    <2>3. QED
      BY <2>1, <2>2 DEF AllDue
  <1>4. Finished'
    BY DEF PostEnds, BridgeInv, Stdio!TypeOK, Finished
  <1>5. QED
    BY <1>1, <1>2, <1>3, <1>4 DEF BridgeInv

LEMMA PostKeepsBridgeInv ==
    ASSUME Stdio!StdioAssumption, BridgeInv, NEW l \in Stdio!Lines,
           \/ Stdio!Unusable(l) \/ (\E n \in 0..MaxMessages : Stdio!Reply(l, n))
           \/ Stdio!PostFails(l) \/ Stdio!PostRaises(l)
    PROVE  BridgeInv'
  <1>1. Stdio!ErrorAnswer(l) \in Nat /\ (Stdio!ErrorAnswer(l) > 0 <=> kind[l] = "request")
    BY DEF Stdio!ErrorAnswer
  <1>2. worker[l] = "posting" => left[l] = 0 /\ outcome[l] = "none"
    BY DEF BridgeInv, AllDue, Due, Stdio!Lost
  <1>3. /\ left = [left EXCEPT ![l] = left[l]] /\ outcome = [outcome EXCEPT ![l] = outcome[l]]
        /\ \A n : n = 0 \/ n > 0 => (IF n = 0 THEN "done" ELSE "waiting") \in {"done", "waiting", "raised"}
    BY DEF BridgeInv, Stdio!TypeOK
  <1>4. CASE Stdio!Unusable(l)
    <2>1. PostEnds(l, Stdio!ErrorAnswer(l), IF Stdio!ErrorAnswer(l) = 0 THEN "done" ELSE "waiting", "none")
      BY <1>1, <1>2, <1>3, <1>4 DEF Stdio!Unusable, Stdio!ToPrint, PostEnds
    <2>2. QED
      BY <1>1, <2>1, PostEndsKeepsBridgeInv
  <1>5. ASSUME NEW n \in 0..MaxMessages, Stdio!Reply(l, n) PROVE BridgeInv'
    <2>1. n \in Nat
      BY DEF Stdio!StdioAssumption
    <2>2. CASE n = 0
      <3>1. PostEnds(l, 0, "done", "empty")
        BY <1>5, <2>2 DEF Stdio!Reply, Stdio!ToPrint, PostEnds
      <3>2. QED
        BY <3>1, PostEndsKeepsBridgeInv
    <2>3. CASE n # 0
      <3>1. PostEnds(l, n, "waiting", "some")
        BY <1>5, <2>1, <2>3 DEF Stdio!Reply, Stdio!ToPrint, PostEnds
      <3>2. QED
        BY <2>1, <3>1, PostEndsKeepsBridgeInv
    <2>4. QED
      BY <2>2, <2>3
  <1>6. CASE Stdio!PostFails(l)
    <2>1. PostEnds(l, Stdio!ErrorAnswer(l), IF Stdio!ErrorAnswer(l) = 0 THEN "done" ELSE "waiting", "failed")
      BY <1>1, <1>6 DEF Stdio!PostFails, Stdio!ToPrint, PostEnds
    <2>2. QED
      BY <1>1, <2>1, PostEndsKeepsBridgeInv
  <1>7. CASE Stdio!PostRaises(l)
    <2>1. PostEnds(l, 0, "raised", "raised")
      BY <1>2, <1>3, <1>7 DEF Stdio!PostRaises, PostEnds
    <2>2. QED
      BY <2>1, PostEndsKeepsBridgeInv
  <1>8. QED
    BY <1>4, <1>5, <1>6, <1>7

\* A thread takes the lock, prints its messages and lets the lock go.
LEMMA PrintKeepsBridgeInv ==
    ASSUME Stdio!StdioAssumption, BridgeInv, NEW l \in Stdio!Lines,
           Stdio!Lock(l) \/ Stdio!Write(l) \/ Stdio!EndLine(l) \/ Stdio!Unlock(l)
    PROVE  BridgeInv'
  <1>1. l # None /\ left[l] \in Nat /\ answered[l] \in Nat /\ Due(l)
    BY DEF Stdio!StdioAssumption, BridgeInv, Stdio!TypeOK, AllDue
  <1>2. UNCHANGED <<address, kind, main, read, outcome>>
    BY DEF Stdio!Lock, Stdio!Write, Stdio!EndLine, Stdio!Unlock
  <1>3. \A m \in Stdio!Lines \ {l} :
           worker'[m] = worker[m] /\ left'[m] = left[m] /\ answered'[m] = answered[m]
    BY DEF Stdio!Lock, Stdio!Write, Stdio!EndLine, Stdio!Unlock, BridgeInv, Stdio!TypeOK
  <1>4. \A m \in Stdio!Lines \ {l} : Due(m)'
    BY <1>2, <1>3 DEF BridgeInv, AllDue, Due, Stdio!Lost
  <1>5. Finished'
    BY <1>2, <1>3 DEF Stdio!Lock, Stdio!Write, Stdio!EndLine, Stdio!Unlock, BridgeInv, Stdio!TypeOK, Finished
  <1>6. Stdio!TypeOK' /\ LockHeld' /\ Due(l)'
    <2>1. CASE Stdio!Lock(l)
      <3>1. /\ worker[l] = "waiting" /\ worker' = [worker EXCEPT ![l] = "printing"]
            /\ lock = None /\ lock' = l /\ UNCHANGED <<left, half, cut, answered>>
        BY <2>1 DEF Stdio!Lock
      <3>2. half = None
        BY <1>1, <3>1 DEF Stdio!StdioAssumption, BridgeInv, LockHeld
      <3>3. Stdio!TypeOK' /\ worker'[l] = "printing"
        BY <1>2, <3>1 DEF BridgeInv, Stdio!TypeOK
      <3>4. LockHeld'
        BY <1>3, <3>1, <3>2 DEF Stdio!StdioAssumption, BridgeInv, LockHeld
      <3>5. Due(l)'
        BY <1>1, <1>2, <3>1, <3>3 DEF Due, Stdio!Lost
      <3>6. QED
        BY <3>3, <3>4, <3>5
    <2>2. CASE Stdio!Write(l)
      <3>1. /\ worker[l] = "printing" /\ left[l] > 0 /\ half # l
            /\ cut' = cut \cup ({half} \ {None}) /\ half' = l
            /\ UNCHANGED <<worker, left, lock, answered>>
        BY <2>2 DEF Stdio!Write
      <3>2. half = None
        BY <3>1 DEF BridgeInv, LockHeld
      <3>3. cut' = cut
        BY <3>1, <3>2
      <3>4. Stdio!TypeOK' /\ LockHeld'
        BY <1>2, <3>1, <3>3 DEF BridgeInv, Stdio!TypeOK, LockHeld
      <3>5. Due(l)'
        BY <1>1, <1>2, <3>1 DEF Due, Stdio!Lost
      <3>6. QED
        BY <3>4, <3>5
    <2>3. CASE Stdio!EndLine(l)
      <3>1. /\ worker[l] = "printing" /\ half = l /\ half' = None
            /\ left' = [left EXCEPT ![l] = left[l] - 1]
            /\ answered' = [answered EXCEPT ![l] = answered[l] + 1]
            /\ UNCHANGED <<worker, lock, cut>>
        BY <2>3 DEF Stdio!EndLine
      <3>2. left[l] > 0
        BY <1>1, <3>1 DEF BridgeInv, LockHeld
      <3>3. left[l] - 1 \in Nat /\ answered[l] + 1 \in Nat
        BY <1>1, <3>2
      <3>4. Stdio!TypeOK' /\ LockHeld'
        BY <1>2, <3>1, <3>3 DEF BridgeInv, Stdio!TypeOK, LockHeld
      <3>5. left'[l] = left[l] - 1 /\ answered'[l] = answered[l] + 1
        BY <3>1 DEF BridgeInv, Stdio!TypeOK
      <3>6. Due(l)'
        BY <1>1, <1>2, <3>1, <3>2, <3>5 DEF Due, Stdio!Lost
      <3>7. QED
        BY <3>4, <3>6
    <2>4. CASE Stdio!Unlock(l)
      <3>1. /\ worker[l] = "printing" /\ left[l] = 0 /\ lock' = None
            /\ worker' = [worker EXCEPT ![l] = "done"]
            /\ UNCHANGED <<left, half, cut, answered>>
        BY <2>4 DEF Stdio!Unlock
      <3>2. half = None
        BY <1>1, <3>1 DEF BridgeInv, LockHeld
      <3>3. \A m \in Stdio!Lines \ {l} : worker[m] # "printing"
        BY <3>1 DEF BridgeInv, LockHeld
      <3>4. Stdio!TypeOK' /\ worker'[l] = "done"
        BY <1>2, <3>1 DEF BridgeInv, Stdio!TypeOK
      <3>5. LockHeld'
        BY <1>3, <3>1, <3>2, <3>3, <3>4 DEF BridgeInv, LockHeld
      <3>6. Due(l)'
        BY <1>1, <1>2, <3>1, <3>4 DEF Due, Stdio!Lost
      <3>7. QED
        BY <3>4, <3>5, <3>6
    <2>5. QED
      BY <2>1, <2>2, <2>3, <2>4
  <1>7. QED
    BY <1>4, <1>5, <1>6 DEF BridgeInv, AllDue

LEMMA NextBridgeInv == ASSUME Stdio!StdioAssumption, BridgeInv, [Stdio!Next]_(Stdio!vars) PROVE BridgeInv'
  <1>1. CASE Stdio!ReadLine \/ Stdio!EndOfInput \/ Stdio!Exit
    BY <1>1, MainKeepsBridgeInv
  <1>2. ASSUME NEW l \in Stdio!Lines, Stdio!Work(l) PROVE BridgeInv'
    BY <1>2, PostKeepsBridgeInv, PrintKeepsBridgeInv DEF Stdio!Work
  <1>3. CASE UNCHANGED Stdio!vars
    BY <1>3 DEF Stdio!vars, BridgeInv, Stdio!TypeOK, LockHeld, AllDue, Due, Stdio!Lost, Finished
  <1>4. QED
    BY <1>1, <1>2, <1>3 DEF Stdio!Next

THEOREM BridgeInvariant == ASSUME Stdio!StdioAssumption PROVE Stdio!Spec => []BridgeInv
  BY InitBridgeInv, NextBridgeInv, PTL DEF Stdio!Spec

\* The threads, the counters and the lock keep their types.
THEOREM StdioTypeOKTheorem == ASSUME Stdio!StdioAssumption PROVE Stdio!Spec => []Stdio!TypeOK
  <1>1. BridgeInv => Stdio!TypeOK
    BY DEF BridgeInv
  <1>2. QED
    BY <1>1, BridgeInvariant, PTL

\* No message is cut in two by another one, however many threads print and in
\* whatever order (output_lock in handle_message).
THEOREM NeverMixedTheorem == ASSUME Stdio!StdioAssumption PROVE Stdio!Spec => []Stdio!NeverMixed
  <1>1. BridgeInv => Stdio!NeverMixed
    BY DEF BridgeInv, LockHeld, Stdio!NeverMixed
  <1>2. QED
    BY <1>1, BridgeInvariant, PTL

\* When the process has ended, exactly the requests have an answer whose post brought
\* neither an empty body nor an exception that ended the thread, and no other line has
\* one that the HTTP bridge did not give (handle_message, main).
THEOREM ExitAnsweredTheorem == ASSUME Stdio!StdioAssumption PROVE Stdio!Spec => []Stdio!ExitAnswered
  <1>1. ASSUME BridgeInv, main = "exited"
        PROVE  half = None /\ \A l \in Stdio!Lines : worker[l] \in {"done", "raised"} /\ left[l] = 0
    BY <1>1 DEF BridgeInv, LockHeld, Finished, AllDue, Due, Stdio!Lost
  <1>2. ASSUME BridgeInv, main = "exited", NEW l \in Stdio!Lines
        PROVE  /\ kind[l] = "request" => (answered[l] > 0 <=> ~Stdio!Lost(l))
               /\ kind[l] # "request" /\ outcome[l] # "some" => answered[l] = 0
    BY <1>1, <1>2 DEF BridgeInv, Stdio!TypeOK, AllDue, Due, Stdio!Lost
  <1>3. BridgeInv => Stdio!ExitAnswered
    BY <1>1, <1>2 DEF Stdio!ExitAnswered
  <1>4. QED
    BY <1>3, BridgeInvariant, PTL

-----------------------------------------------------------------------------
\* What a thread has answered, as far as its request has come.
AnswersFit(t) ==
    /\ pc[t] \in {"authenticating", "reading"} =>
          next[t] = 1 /\ answers[t] = <<>> /\ reply[t] = "none"
    /\ pc[t] = "dispatching" => Mcp!AnsweredUpTo(t, next[t] - 1) /\ reply[t] = "none"
    /\ reply[t] \in {"200", "202"} => Mcp!AnsweredUpTo(t, Len(request[t].body.items))

\* A JSON-RPC answer.
Answer == [item : Nat, says : {Mcp!Says(k) : k \in Mcp!ItemKinds}]

\* The types of McpServer with those that Mcp!TypeOK leaves open, and the answers.
AnswersInv ==
    /\ Mcp!TypeOK
    /\ answers \in [Threads -> Seq(Answer)]
    /\ \A r \in ran : r.item \in Nat
    /\ \A t \in Threads : AnswersFit(t)

\* The items of a request are a sequence.
LEMMA ItemsAreASequence ==
    ASSUME Mcp!ServerAssumption, Mcp!TypeOK, NEW t \in Threads
    PROVE  /\ request[t].body.items \in Seq(Mcp!ItemKinds)
           /\ Len(request[t].body.items) \in Nat
  <1>1. request[t].body \in Bodies \/ request[t].body = Mcp!NoRequest.body
    BY DEF Mcp!TypeOK
  <1>2. CASE request[t].body \in Bodies
    BY <1>2 DEF Mcp!ServerAssumption
  <1>3. CASE request[t].body = Mcp!NoRequest.body
    <2>1. request[t].body.items = <<>>
      BY <1>3 DEF Mcp!NoRequest
    <2>2. QED
      BY <2>1
  <1>4. QED
    BY <1>1, <1>2, <1>3

LEMMA InitAnswersInv == ASSUME Mcp!ServerAssumption PROVE Mcp!Init => AnswersInv
  <1> SUFFICES ASSUME Mcp!Init PROVE AnswersInv
    OBVIOUS
  <1>1. Mcp!NoRequest.body.items = <<>> /\ Mcp!NoRequest.credential \in Mcp!Credentials
    BY DEF Mcp!NoRequest, Mcp!Credentials
  <1>2. Mcp!TypeOK
    <2>1. request \in [Threads -> [credential : Mcp!Credentials,
                                   body : Bodies \cup {Mcp!NoRequest.body}]]
      BY <1>1 DEF Mcp!Init, Mcp!NoRequest
    <2>2. \A t \in Threads : next[t] <= Len(request[t].body.items) + 1 /\ Len(answers[t]) < next[t]
      BY <1>1 DEF Mcp!Init
    <2>3. principal \in [Threads -> Mcp!Credentials \cup {"anonymous"}]
      BY DEF Mcp!Init, Mcp!Credentials
    <2>4. standing \in [Keys -> {"admin", "member", "revoked"}]
      BY DEF Mcp!Init
    <2>5. next \in [Threads -> Nat \ {0}] /\ valid \in [Threads -> BOOLEAN]
      BY DEF Mcp!Init
    <2>6. failures \in 0..MaxFailures
      BY DEF Mcp!Init, Mcp!ServerAssumption
    <2>7. /\ pc \in [Threads -> {"idle", "authenticating", "reading", "dispatching"}]
          /\ reply \in [Threads -> {"none", "200", "202", "400", "401", "413", "503", "closed"}]
      BY DEF Mcp!Init
    <2>8. QED
      BY <2>1, <2>2, <2>3, <2>4, <2>5, <2>6, <2>7 DEF Mcp!Init, Mcp!TypeOK
  <1>3. \A t \in Threads : AnswersFit(t)
    BY DEF Mcp!Init, AnswersFit
  <1>4. QED
    BY <1>2, <1>3 DEF AnswersInv, Mcp!Init

\* A thread that a step leaves alone keeps its answers right.
LEMMA AnswersFitKept ==
    ASSUME NEW t, AnswersFit(t), pc'[t] = pc[t], request'[t] = request[t], next'[t] = next[t],
           answers'[t] = answers[t], reply'[t] = reply[t]
    PROVE  AnswersFit(t)'
  BY DEF AnswersFit, Mcp!AnsweredUpTo

\* A request ends, with an answer to the whole body or with none to any item of it.
LEMMA RefuseKeepsAnswersInv ==
    ASSUME AnswersInv, NEW t \in Threads,
           NEW status \in {"200", "202", "400", "401", "413", "503", "closed"},
           Mcp!Refuse(t, status), UNCHANGED failures \/ Mcp!Fail,
           status \in {"200", "202"} => Mcp!AnsweredUpTo(t, Len(request[t].body.items)),
           MaxFailures \in Nat
    PROVE  AnswersInv'
  <1>1. /\ pc' = [pc EXCEPT ![t] = "idle"] /\ reply' = [reply EXCEPT ![t] = status]
        /\ principal' = [principal EXCEPT ![t] = Nothing]
        /\ UNCHANGED <<env, server, healthy, lease, health, standing, request, next, answers,
                       ran, valid>>
    BY DEF Mcp!Refuse, Mcp!sidecar
  <1>2. failures' \in 0..MaxFailures
    BY DEF Mcp!Fail, AnswersInv, Mcp!TypeOK
  <1>3. Nothing \in Mcp!Credentials
    BY DEF Mcp!Credentials
  <1>4. Mcp!TypeOK'
    BY <1>1, <1>2, <1>3 DEF AnswersInv, Mcp!TypeOK
  <1>5. ASSUME NEW u \in Threads \ {t} PROVE AnswersFit(u)'
    <2>1. pc'[u] = pc[u] /\ reply'[u] = reply[u]
      BY <1>1 DEF AnswersInv, Mcp!TypeOK
    <2>2. QED
      BY <1>1, <2>1, AnswersFitKept DEF AnswersInv
  <1>6. AnswersFit(t)'
    <2>1. pc'[t] = "idle" /\ reply'[t] = status
      BY <1>1 DEF AnswersInv, Mcp!TypeOK
    <2>2. Mcp!AnsweredUpTo(t, Len(request[t].body.items))'
              <=> Mcp!AnsweredUpTo(t, Len(request[t].body.items))
      BY <1>1 DEF Mcp!AnsweredUpTo
    <2>3. QED
      BY <2>1, <2>2 DEF AnswersFit
  <1>7. QED
    BY <1>1, <1>4, <1>5, <1>6 DEF AnswersInv

\* The thread goes on to the next place of its request.
LEMMA PlaceKeepsAnswersInv ==
    ASSUME AnswersInv, NEW t \in Threads, NEW who \in Mcp!Credentials \cup {"anonymous"},
           NEW place \in {"reading", "dispatching"},
           pc[t] \in {"authenticating", "reading"}, pc' = [pc EXCEPT ![t] = place],
           principal' = [principal EXCEPT ![t] = who],
           UNCHANGED <<env, server, healthy, lease, health, standing, request, next, answers,
                       reply, ran, valid, failures>>
    PROVE  AnswersInv'
  <1>1. Mcp!TypeOK'
    BY DEF AnswersInv, Mcp!TypeOK
  <1>2. ASSUME NEW u \in Threads \ {t} PROVE AnswersFit(u)'
    <2>1. pc'[u] = pc[u]
      BY DEF AnswersInv, Mcp!TypeOK
    <2>2. QED
      BY <2>1, AnswersFitKept DEF AnswersInv
  <1>3. AnswersFit(t)'
    <2>1. pc'[t] = place /\ next[t] = 1 /\ answers[t] = <<>> /\ reply[t] = "none"
      BY DEF AnswersInv, AnswersFit, Mcp!TypeOK
    <2>2. Mcp!AnsweredUpTo(t, 0)'
      BY <2>1 DEF Mcp!AnsweredUpTo
    <2>3. QED
      BY <2>1, <2>2 DEF AnswersFit
  <1>4. QED
    BY <1>1, <1>2, <1>3 DEF AnswersInv

\* An item is handled: it gets its answer, if it needs one, after all those before it.
LEMMA HandleKeepsAnswersInv ==
    ASSUME Mcp!ServerAssumption, AnswersInv, NEW t \in Threads, Mcp!Handle(t)
    PROVE  AnswersInv'
  <1>0. PICK n \in Nat \ {0} : n = next[t]
    BY DEF AnswersInv, Mcp!TypeOK
  <1> DEFINE items == request[t].body.items
             s == answers[t]
             a == [item |-> n, says |-> Mcp!Says(items[n])]
  <1>1. /\ pc[t] = "dispatching" /\ n <= Len(items)
        /\ next' = [next EXCEPT ![t] = n + 1]
        /\ answers' = IF items[n] # "notification"
                      THEN [answers EXCEPT ![t] = Append(s, a)] ELSE answers
        /\ ran' = IF Mcp!Runs(items[n])
                  THEN ran \cup {[thread |-> t, item |-> n, as |-> principal[t]]} ELSE ran
        /\ UNCHANGED <<env, server, healthy, lease, health, standing, pc, request, principal,
                       reply, valid, failures>>
    BY <1>0 DEF Mcp!Handle, Mcp!WithAnswer, Mcp!sidecar
  <1>2. /\ n \in Nat \ {0} /\ Len(items) \in Nat /\ s \in Seq(Answer)
        /\ Len(s) < n
    BY <1>0, ItemsAreASequence DEF AnswersInv, Mcp!TypeOK
  <1>3. a \in Answer
    <2>1. items[n] \in Mcp!ItemKinds
      BY <1>1, <1>2, ItemsAreASequence DEF AnswersInv
    <2>2. QED
      BY <1>2, <2>1 DEF Answer
  <1>4. Append(s, a) \in Seq(Answer) /\ Len(Append(s, a)) = Len(s) + 1
    BY <1>2, <1>3
  <1> HIDE DEF a
  <1>5. /\ answers' \in [Threads -> Seq(Answer)]
        /\ answers'[t] = IF items[n] # "notification" THEN Append(s, a) ELSE s
        /\ \A u \in Threads \ {t} : answers'[u] = answers[u]
    BY <1>1, <1>4 DEF AnswersInv
  <1>6. /\ next' \in [Threads -> Nat \ {0}] /\ next'[t] = n + 1
        /\ \A u \in Threads \ {t} : next'[u] = next[u]
    BY <1>0, <1>1, <1>2 DEF AnswersInv, Mcp!TypeOK
  <1>7. /\ \A r \in ran' : r.thread \in Threads /\ r.item \in Nat /\ r.item < next'[r.thread]
    <2>1. ASSUME NEW r \in ran
          PROVE  r.thread \in Threads /\ r.item \in Nat /\ r.item < next'[r.thread]
      <3>1. r.thread \in Threads /\ r.item \in Nat /\ r.item < next[r.thread]
        BY DEF AnswersInv, Mcp!TypeOK
      <3>2. CASE r.thread = t
        BY <1>0, <1>2, <1>6, <3>1, <3>2
      <3>3. CASE r.thread # t
        BY <1>6, <3>1, <3>3
      <3>4. QED
        BY <3>2, <3>3
    <2>2. ASSUME NEW r, r = [thread |-> t, item |-> n, as |-> principal[t]]
          PROVE  r.thread \in Threads /\ r.item \in Nat /\ r.item < next'[r.thread]
      <3>1. r.thread = t /\ r.item = n
        BY <2>2
      <3>2. QED
        BY <1>2, <1>6, <3>1
    <2>3. QED
      BY <1>1, <2>1, <2>2
  <1>8. \A u \in Threads : /\ next'[u] <= Len(request'[u].body.items) + 1
                           /\ Len(answers'[u]) < next'[u]
    <2>1. ASSUME NEW u \in Threads \ {t}
          PROVE  /\ next'[u] <= Len(request'[u].body.items) + 1
                 /\ Len(answers'[u]) < next'[u]
      BY <1>1, <1>5, <1>6 DEF AnswersInv, Mcp!TypeOK
    <2>2. next'[t] <= Len(request'[t].body.items) + 1 /\ Len(answers'[t]) < next'[t]
      BY <1>1, <1>2, <1>4, <1>5, <1>6
    <2>3. QED
      BY <2>1, <2>2
  <1>9. Mcp!TypeOK'
    BY <1>1, <1>6, <1>7, <1>8 DEF AnswersInv, Mcp!TypeOK
  <1>10. Mcp!AnsweredUpTo(t, n - 1) /\ reply[t] = "none"
    BY <1>0, <1>1 DEF AnswersInv, AnswersFit
  <1>11. Mcp!AnsweredUpTo(t, n)'
    <2>1. CASE items[n] = "notification"
      <3>1. {i \in 1..n : items[i] # "notification"} = {i \in 1..(n - 1) : items[i] # "notification"}
        BY <1>2, <2>1
      <3>2. answers'[t] = s /\ UNCHANGED request
        BY <1>1, <1>5, <2>1
      <3>3. QED
        BY <1>10, <3>1, <3>2 DEF Mcp!AnsweredUpTo
    <2>2. CASE items[n] # "notification"
      <3>1. answers'[t] = Append(s, a) /\ UNCHANGED request
        BY <1>1, <1>5, <2>2
      <3>2. /\ DOMAIN Append(s, a) = 1..(Len(s) + 1) /\ DOMAIN s = 1..Len(s)
            /\ Append(s, a)[Len(s) + 1] = a
            /\ \A i \in 1..Len(s) : Append(s, a)[i] = s[i]
        BY <1>2, <1>3
      <3>3. a.item = n /\ a.says = Mcp!Says(items[a.item])
        BY DEF a
      <3>4. {Append(s, a)[i].item : i \in DOMAIN Append(s, a)} = {s[i].item : i \in DOMAIN s} \cup {n}
        BY <1>2, <3>2, <3>3
      <3>5. {i \in 1..n : items[i] # "notification"}
                = {i \in 1..(n - 1) : items[i] # "notification"} \cup {n}
        BY <1>2, <2>2
      <3>6. \A i \in DOMAIN s : s[i].item \in 1..(n - 1)
        BY <1>10 DEF Mcp!AnsweredUpTo
      <3>7. \A i, j \in DOMAIN Append(s, a) : i < j =>
               Append(s, a)[i].item < Append(s, a)[j].item
        <4>1. ASSUME NEW i \in DOMAIN Append(s, a), NEW j \in DOMAIN Append(s, a), i < j
              PROVE  Append(s, a)[i].item < Append(s, a)[j].item
          <5>1. i \in DOMAIN s /\ (j \in DOMAIN s \/ j = Len(s) + 1)
            <6>1. i \in 1..(Len(s) + 1) /\ j \in 1..(Len(s) + 1)
              BY <3>2
            <6>2. i \in 1..Len(s) /\ (j \in 1..Len(s) \/ j = Len(s) + 1)
              BY <1>2, <4>1, <6>1
            <6>3. QED
              BY <3>2, <6>2
          <5>2. CASE j \in DOMAIN s
            BY <1>10, <3>2, <4>1, <5>1, <5>2 DEF Mcp!AnsweredUpTo
          <5>3. CASE j = Len(s) + 1
            BY <1>2, <3>2, <3>3, <3>6, <5>1, <5>3
          <5>4. QED
            BY <5>1, <5>2, <5>3
        <4>2. QED
          BY <4>1
      <3>8. \A i \in DOMAIN Append(s, a) :
               Append(s, a)[i].says = Mcp!Says(items[Append(s, a)[i].item])
        <4>1. \A i \in DOMAIN s : s[i].says = Mcp!Says(items[s[i].item])
          BY <1>10 DEF Mcp!AnsweredUpTo
        <4>2. \A i \in DOMAIN Append(s, a) : i \in DOMAIN s \/ i = Len(s) + 1
          BY <1>2, <3>2
        <4>3. QED
          BY <3>2, <3>3, <4>1, <4>2
      <3>9. {s[i].item : i \in DOMAIN s} = {i \in 1..(n - 1) : items[i] # "notification"}
        BY <1>10 DEF Mcp!AnsweredUpTo
      <3>10. QED
        BY <3>1, <3>4, <3>5, <3>7, <3>8, <3>9 DEF Mcp!AnsweredUpTo
    <2>3. QED
      BY <2>1, <2>2
  <1>12. AnswersFit(t)'
    <2>1. pc'[t] = "dispatching" /\ reply'[t] = "none" /\ next'[t] - 1 = n
      BY <1>1, <1>2, <1>6, <1>10
    <2>2. QED
      BY <1>11, <2>1 DEF AnswersFit
  <1>13. ASSUME NEW u \in Threads \ {t} PROVE AnswersFit(u)'
    <2>1. /\ AnswersFit(u) /\ pc'[u] = pc[u] /\ request'[u] = request[u]
          /\ next'[u] = next[u] /\ answers'[u] = answers[u] /\ reply'[u] = reply[u]
      BY <1>1, <1>5, <1>6 DEF AnswersInv
    <2>2. QED
      BY <2>1, AnswersFitKept
  <1>14. QED
    BY <1>5, <1>7, <1>9, <1>12, <1>13 DEF AnswersInv

LEMMA ThreadKeepsAnswersInv ==
    ASSUME Mcp!ServerAssumption, AnswersInv, NEW t \in Threads, Mcp!Thread(t)
    PROVE  AnswersInv'
  <1>0. MaxFailures \in Nat
    BY DEF Mcp!ServerAssumption
  <1>1. CASE Mcp!Authenticate(t)
    <2>1. CASE Mcp!Refuse(t, "401")
      BY <1>0, <1>1, <2>1, RefuseKeepsAnswersInv DEF Mcp!Authenticate
    <2>2. CASE ~Mcp!Refuse(t, "401")
      <3>1. PICK who \in {"anonymous", request[t].credential} :
               /\ pc[t] = "authenticating" /\ pc' = [pc EXCEPT ![t] = "reading"]
               /\ principal' = [principal EXCEPT ![t] = who]
               /\ UNCHANGED <<env, server, healthy, lease, health, standing, request, next,
                              answers, reply, ran, valid, failures>>
        BY <1>1, <2>2 DEF Mcp!Authenticate, Mcp!Bind, Mcp!sidecar
      <3>2. who \in Mcp!Credentials \cup {"anonymous"}
        BY DEF AnswersInv, Mcp!TypeOK
      <3>3. QED
        BY <3>1, <3>2, PlaceKeepsAnswersInv
    <2>3. QED
      BY <2>1, <2>2
  <1>2. CASE Mcp!CoreUnavailable(t)
    BY <1>0, <1>2, RefuseKeepsAnswersInv DEF Mcp!CoreUnavailable
  <1>3. CASE Mcp!Read(t)
    <2>1. CASE Mcp!Unreadable(request[t].body) # "none"
      <3>1. PICK status \in {"413", "400"} : status = Mcp!Unreadable(request[t].body)
        BY <2>1 DEF Mcp!Unreadable
      <3>2. Mcp!Refuse(t, status) /\ UNCHANGED failures
        BY <1>3, <2>1, <3>1 DEF Mcp!Read
      <3>3. QED
        BY <1>0, <3>2, RefuseKeepsAnswersInv
    <2>2. CASE Mcp!Unreadable(request[t].body) = "none"
      <3>1. /\ pc[t] = "reading" /\ pc' = [pc EXCEPT ![t] = "dispatching"]
            /\ UNCHANGED <<env, server, healthy, lease, health, standing, request, principal,
                           next, answers, reply, ran, valid, failures>>
        BY <1>3, <2>2 DEF Mcp!Read, Mcp!sidecar
      <3>2. /\ principal' = [principal EXCEPT ![t] = principal[t]]
            /\ principal[t] \in Mcp!Credentials \cup {"anonymous"}
        BY <3>1 DEF AnswersInv, Mcp!TypeOK
      <3>3. QED
        BY <3>1, <3>2, PlaceKeepsAnswersInv
    <2>3. QED
      BY <2>1, <2>2
  <1>4. CASE Mcp!Handle(t)
    BY <1>4, HandleKeepsAnswersInv
  <1>5. CASE Mcp!HandleRaises(t)
    BY <1>0, <1>5, RefuseKeepsAnswersInv DEF Mcp!HandleRaises
  <1>6. CASE Mcp!Send(t)
    <2>1. PICK status \in {"200", "202"} : Mcp!Refuse(t, status) /\ UNCHANGED failures
      BY <1>6 DEF Mcp!Send
    <2>2. Mcp!AnsweredUpTo(t, next[t] - 1)
      BY <1>6 DEF Mcp!Send, AnswersInv, AnswersFit
    <2>3. next[t] - 1 = Len(request[t].body.items)
      <3>1. next[t] \in Nat /\ next[t] <= Len(request[t].body.items) + 1
        BY DEF AnswersInv, Mcp!TypeOK
      <3>2. Len(request[t].body.items) \in Nat /\ next[t] > Len(request[t].body.items)
        BY <1>6, ItemsAreASequence DEF Mcp!Send, AnswersInv
      <3>3. QED
        BY <3>1, <3>2
    <2>4. QED
      BY <1>0, <2>1, <2>2, <2>3, RefuseKeepsAnswersInv
  <1>7. CASE Mcp!ConnectionFails(t)
    BY <1>0, <1>7, RefuseKeepsAnswersInv DEF Mcp!ConnectionFails
  <1>8. QED
    BY <1>1, <1>2, <1>3, <1>4, <1>5, <1>6, <1>7 DEF Mcp!Thread

\* A request arrives, of which nothing has been handled yet.
LEMMA PostKeepsAnswersInv ==
    ASSUME Mcp!ServerAssumption, AnswersInv, NEW t \in Threads, NEW c \in Mcp!Credentials,
           NEW b \in Bodies, Mcp!Post(t, c, b)
    PROVE  AnswersInv'
  <1>1. /\ pc[t] = "idle" /\ pc' = [pc EXCEPT ![t] = "authenticating"]
        /\ request' = [request EXCEPT ![t] = [credential |-> c, body |-> b]]
        /\ next' = [next EXCEPT ![t] = 1]
        /\ answers' = [answers EXCEPT ![t] = <<>>]
        /\ reply' = [reply EXCEPT ![t] = "none"]
        /\ ran' = {r \in ran : r.thread # t}
        /\ valid' = [valid EXCEPT ![t] = c \in Keys /\ standing[c] = "admin"]
        /\ UNCHANGED <<env, server, healthy, lease, health, standing, principal, failures>>
    BY DEF Mcp!Post, Mcp!sidecar
  <1>2. /\ pc' \in [Threads -> {"idle", "authenticating", "reading", "dispatching"}]
        /\ next' \in [Threads -> Nat \ {0}]
        /\ request' \in [Threads -> [credential : Mcp!Credentials,
                                     body : Bodies \cup {Mcp!NoRequest.body}]]
        /\ answers' \in [Threads -> Seq(Answer)]
        /\ reply' \in [Threads -> {"none", "200", "202", "400", "401", "413", "503", "closed"}]
        /\ valid' \in [Threads -> BOOLEAN]
    BY <1>1 DEF AnswersInv, Mcp!TypeOK
  <1>3. /\ pc'[t] = "authenticating" /\ next'[t] = 1 /\ request'[t].body = b
        /\ answers'[t] = <<>> /\ reply'[t] = "none"
    BY <1>1 DEF AnswersInv, Mcp!TypeOK
  <1>4. \A u \in Threads \ {t} : /\ pc'[u] = pc[u] /\ next'[u] = next[u]
                                 /\ request'[u] = request[u] /\ answers'[u] = answers[u]
                                 /\ reply'[u] = reply[u]
    BY <1>1 DEF AnswersInv, Mcp!TypeOK
  <1>5. \A r \in ran' : r.thread \in Threads /\ r.item \in Nat /\ r.item < next'[r.thread]
    BY <1>1, <1>4 DEF AnswersInv, Mcp!TypeOK
  <1>6. \A u \in Threads : next'[u] <= Len(request'[u].body.items) + 1 /\ Len(answers'[u]) < next'[u]
    <2>1. Len(b.items) \in Nat
      <3>1. b.items \in Seq(Mcp!ItemKinds)
        BY DEF Mcp!ServerAssumption
      <3>2. QED
        BY <3>1
    <2>2. Len(answers'[t]) = 0
      BY <1>3
    <2>3. next'[t] <= Len(request'[t].body.items) + 1 /\ Len(answers'[t]) < next'[t]
      BY <1>3, <2>1, <2>2
    <2>4. \A u \in Threads \ {t} :
             next'[u] <= Len(request'[u].body.items) + 1 /\ Len(answers'[u]) < next'[u]
      BY <1>4 DEF AnswersInv, Mcp!TypeOK
    <2>5. QED
      BY <2>3, <2>4
  <1>7. Mcp!TypeOK'
    BY <1>1, <1>2, <1>5, <1>6 DEF AnswersInv, Mcp!TypeOK
  <1>8. AnswersFit(t)'
    BY <1>3 DEF AnswersFit
  <1>9. ASSUME NEW u \in Threads \ {t} PROVE AnswersFit(u)'
    <2>1. AnswersFit(u)
      BY DEF AnswersInv
    <2>2. QED
      BY <1>4, <2>1, AnswersFitKept
  <1>10. QED
    BY <1>2, <1>5, <1>7, <1>8, <1>9 DEF AnswersInv

LEMMA NextAnswersInv ==
    ASSUME Mcp!ServerAssumption, AnswersInv, [Mcp!Next]_(Mcp!vars)
    PROVE  AnswersInv'
  <1>1. ASSUME UNCHANGED <<pc, request, next, answers, reply>> PROVE \A t \in Threads : AnswersFit(t)'
    BY <1>1, AnswersFitKept DEF AnswersInv
  <1>2. CASE Mcp!Main \/ Mcp!Heartbeat \/ Mcp!LeaseExpires \/ Mcp!Health
    <2>1. UNCHANGED <<env, standing, pc, request, principal, next, answers, reply, ran, valid>>
      BY <1>2 DEF Mcp!Main, Mcp!Heartbeat, Mcp!LeaseExpires, Mcp!Health, Mcp!handling
    <2>2. /\ server' \in {"starting", "up", "exited"} /\ healthy' \in BOOLEAN
          /\ lease' \in BOOLEAN /\ health' \in {"none", "ok", "error"}
      <3>1. \/ server' = server \/ server' \in {"up", "exited"}
        BY <1>2 DEF Mcp!Main, Mcp!Heartbeat, Mcp!LeaseExpires, Mcp!Health
      <3>2. healthy' \in {healthy, env.required, TRUE, FALSE} /\ lease' \in {lease, env.required, TRUE, FALSE}
        BY <1>2 DEF Mcp!Main, Mcp!Heartbeat, Mcp!LeaseExpires, Mcp!Health
      <3>3. health' \in {health, "ok", "error"}
        BY <1>2 DEF Mcp!Main, Mcp!Heartbeat, Mcp!LeaseExpires, Mcp!Health
      <3>4. env.required \in BOOLEAN
        BY DEF AnswersInv, Mcp!TypeOK, Mcp!ServerAssumption, Mcp!Settings
      <3>5. QED
        BY <3>1, <3>2, <3>3, <3>4 DEF AnswersInv, Mcp!TypeOK
    <2>3. failures' \in 0..MaxFailures
      <3>1. UNCHANGED failures \/ Mcp!Fail
        BY <1>2 DEF Mcp!Main, Mcp!Heartbeat, Mcp!LeaseExpires, Mcp!Health
      <3>2. QED
        BY <3>1 DEF Mcp!Fail, AnswersInv, Mcp!TypeOK, Mcp!ServerAssumption
    <2>4. QED
      BY <1>1, <2>1, <2>2, <2>3 DEF AnswersInv, Mcp!TypeOK
  <1>3. ASSUME NEW t \in Threads, Mcp!Thread(t) PROVE AnswersInv'
    BY <1>3, ThreadKeepsAnswersInv
  <1>4. ASSUME NEW k \in Keys, NEW s \in {"admin", "member", "revoked"}, Mcp!ChangeKey(k, s)
        PROVE  AnswersInv'
    <2>1. /\ standing' = [standing EXCEPT ![k] = s]
          /\ valid' = [t \in Threads |-> valid[t] \/ (request[t].credential = k /\ s = "admin")]
          /\ UNCHANGED <<env, server, healthy, lease, health, pc, request, principal, next,
                         answers, reply, ran, failures>>
      BY <1>4 DEF Mcp!ChangeKey, Mcp!sidecar
    <2>2. standing' \in [Keys -> {"admin", "member", "revoked"}] /\ valid' \in [Threads -> BOOLEAN]
      BY <2>1 DEF AnswersInv, Mcp!TypeOK
    <2>3. QED
      BY <1>1, <2>1, <2>2 DEF AnswersInv, Mcp!TypeOK
  <1>5. ASSUME NEW t \in Threads, NEW c \in Mcp!Credentials, NEW b \in Bodies, Mcp!Post(t, c, b)
        PROVE  AnswersInv'
    BY <1>5, PostKeepsAnswersInv
  <1>6. CASE UNCHANGED Mcp!vars
    <2>1. UNCHANGED <<env, server, healthy, lease, health, standing, pc, request, principal, next,
                      answers, reply, ran, valid, failures>>
      BY <1>6 DEF Mcp!vars, Mcp!handling, Mcp!sidecar
    <2>2. QED
      BY <1>1, <2>1 DEF AnswersInv, Mcp!TypeOK
  <1>7. QED
    BY <1>2, <1>3, <1>4, <1>5, <1>6 DEF Mcp!Next, Mcp!Running, Mcp!Serving

THEOREM AnswersInvTheorem == ASSUME Mcp!ServerAssumption PROVE Mcp!Spec => []AnswersInv
  BY InitAnswersInv, NextAnswersInv, PTL DEF Mcp!Spec

\* What is sent for a body answers its items one by one and in their order: none is
\* left out, answered twice or answered for another, however the requests of other
\* threads interleave and whichever items fail (do_POST, handle_rpc).  Nothing is sent
\* when the connection is closed by an exception.
THEOREM BatchAnsweredTheorem == ASSUME Mcp!ServerAssumption PROVE Mcp!Spec => []Mcp!BatchAnswered
  <1>1. AnswersInv => Mcp!BatchAnswered
    BY DEF AnswersInv, AnswersFit, Mcp!BatchAnswered
  <1>2. QED
    BY <1>1, AnswersInvTheorem, PTL

-----------------------------------------------------------------------------
\* The processes side by side.

\* What the system does is, for each of the models, a behaviour of that model.
LEMMA SideBySide == ServerSpec => Spec /\ Mcp!Spec /\ Stdio!Spec
  <1>1. ServerInit => Init /\ Mcp!Init /\ Stdio!Init
    BY DEF ServerInit
  <1>2. [ServerNext]_allVars => [Next]_vars
    BY DEF ServerNext, SlotsStep, McpStep, StdioStep, allVars
  <1>3. [ServerNext]_allVars => [Mcp!Next]_(Mcp!vars)
    BY DEF ServerNext, SlotsStep, McpStep, StdioStep, allVars, mcpVars, Mcp!vars, Mcp!handling,
           Mcp!sidecar
  <1>4. [ServerNext]_allVars => [Stdio!Next]_(Stdio!vars)
    BY DEF ServerNext, SlotsStep, McpStep, StdioStep, allVars, stdioVars, Stdio!vars
  <1>5. QED
    BY <1>1, <1>2, <1>3, <1>4, PTL DEF ServerSpec, Spec, Mcp!Spec, Stdio!Spec

\* The slots, the handlers and the stdio bridge keep their types; no handler has more
\* answers or runs than items it has come to (do_POST).
THEOREM TypedTheorem == ServerSpec => []Typed
  <1>1. Mcp!Spec => []Mcp!TypeOK
    <2>1. AnswersInv => Mcp!TypeOK
      BY DEF AnswersInv
    <2>2. QED
      BY <2>1, AnswersInvTheorem, McpAssumption, PTL
  <1>2. Typed <=> TypeOK /\ Mcp!TypeOK /\ Stdio!TypeOK
    BY DEF Typed
  <1>3. QED
    BY <1>1, <1>2, SideBySide, TypeOKTheorem, StdioTypeOKTheorem, LinesAssumption, PTL

\* Whatever else the system does, each tool runs as the caller of its own request:
\* as a key only while or after that key was an administrator's during the request,
\* as nobody only on a loopback listener configured so (auth.py, caller_context.py).
THEOREM SystemRunsAsItsCallerTheorem == ServerSpec => []RunsAsItsCaller
  <1>1. RunsAsItsCaller <=> Mcp!RunsAsItsCaller
    BY DEF RunsAsItsCaller
  <1>2. QED
    BY <1>1, SideBySide, RunsAsItsCallerTheorem, McpAssumption, PTL

\* Every batch is answered item by item and in order, unless an exception of handle_rpc
\* or a failing write closes the connection, and a request that is refused has run
\* nothing (do_POST).
THEOREM RepliesRightTheorem == ServerSpec => []RepliesRight
  <1>1. RepliesRight <=> Mcp!BatchAnswered /\ Mcp!RefusedRunsNothing
    BY DEF RepliesRight
  <1>2. QED
    BY <1>1, SideBySide, BatchAnsweredTheorem, RefusedRunsNothingTheorem, McpAssumption, PTL

\* The stdio bridge cuts no message in two, and when it ends exactly the requests have
\* an answer whose post was not lost to an empty body or to an exception that ended its
\* thread (output_lock in handle_message, main).
THEOREM OutputWholeTheorem == ServerSpec => []OutputWhole
  <1>1. OutputWhole <=> Stdio!NeverMixed /\ Stdio!ExitAnswered
    BY DEF OutputWhole
  <1>2. QED
    BY <1>1, SideBySide, NeverMixedTheorem, ExitAnsweredTheorem, LinesAssumption, PTL

\* The listener opens only after a required Sidecar has accepted a heartbeat (main).
THEOREM UpMeansReachedTheorem == ServerSpec => UpMeansReached
  <1>1. [Mcp!Next]_(Mcp!vars) =>
           [server # "up" /\ server' = "up" /\ env.required => healthy']_(Mcp!vars)
    <2> SUFFICES ASSUME Mcp!Next, server # "up", server' = "up", env.required PROVE healthy'
      OBVIOUS
    <2>1. \A t \in Threads : ~Mcp!Thread(t)
      BY DEF Mcp!Thread, Mcp!Authenticate, Mcp!CoreUnavailable, Mcp!Read, Mcp!Handle,
             Mcp!HandleRaises, Mcp!Send, Mcp!ConnectionFails, Mcp!Refuse
    <2>2. Mcp!Main
      BY <2>1 DEF Mcp!Next, Mcp!Running, Mcp!Serving, Mcp!Heartbeat, Mcp!LeaseExpires, Mcp!Health,
                  Mcp!ChangeKey, Mcp!Post
    <2>3. QED
      BY <2>2 DEF Mcp!Main
  <1>2. UpMeansReached
            <=> [][server # "up" /\ server' = "up" /\ env.required => healthy']_(Mcp!vars)
    BY DEF UpMeansReached, Mcp!UpMeansReached
  <1>3. QED
    BY <1>1, <1>2, SideBySide, PTL DEF Mcp!Spec
===============================================================================
