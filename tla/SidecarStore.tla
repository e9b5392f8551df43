---------------------------- MODULE SidecarStore ----------------------------
(***************************************************************************)
(* The durable store behind the bridge (the Sidecar), as the bridge uses   *)
(* it: POST /v3/memories/add with an optional Idempotency-Key, the         *)
(* extraction-capabilities policy and the persisted event rows.  Its code  *)
(* is not in this repository, so everything here is external; what it must *)
(* do is fixed by the calls in server.py, by the fake Sidecars of the      *)
(* tests and by docs/plugin-parity.md (a key replays its recorded result,  *)
(* a different body conflicts, an unresolved outcome is never reissued and *)
(* waits for operator repair).                                             *)
(***************************************************************************)
EXTENDS Integers, FiniteSets

CONSTANTS
    Clients,    \* callers of add_memory, each with one request it may repeat
    Keys,       \* idempotency keys the clients choose
    Anon,       \* names of the keyless writes a run may make (a bound)
    NoKey,      \* the absent idempotency_key
    Nobody,     \* not a client
    Args,       \* Args[c]: the arguments of c's add_memory request
    Cred,       \* Cred[c]: the credential that authenticates c
    Disabled,   \* the credential of every caller when authentication is off
    MaxFaults   \* bound on timeouts, lost replies, crashes and policy changes

\* extraction_mode is absent from a request that has mode "default".
Modes == {"single", "dual"}

ASSUME ArgsAssumption ==
    /\ NoKey \notin Keys
    /\ Nobody \notin Clients
    /\ \A c \in Clients :
          /\ Args[c].key \in Keys \cup {NoKey}
          /\ Args[c].infer \in BOOLEAN
          /\ Args[c].mode \in Modes \cup {"default"}

\* MEM0_MCP_AUTH_MODE holds for the whole server: either every caller is
\* authenticated or none is.
ASSUME CredAssumption ==
    \/ \A c \in Clients : Cred[c] = Disabled
    \/ \A c \in Clients : Cred[c] # Disabled

ASSUME FaultsAssumption == MaxFaults \in Nat

\* The value of a field the bridge leaves out of a request body.
Absent == "absent"

Tracks == {"single", "personal", "project"}

(***************************************************************************)
(* The keys under which the store files a write: a key as the client sent  *)
(* it, the key derived from it for the project child, or a name of its own *)
(* for a write that came without a key.                                    *)
(***************************************************************************)
PlainKey(k)   == <<k, "plain">>
ProjectKey(k) == <<k, "project">>
AnonKey(a)    == <<a, "anon">>

StoreKeys ==
    {PlainKey(k) : k \in Keys} \cup {ProjectKey(k) : k \in Keys}
        \cup {AnonKey(a) : a \in Anon}

\* A request on its way to the store.  live: the handler that sent it still
\* waits for the answer.
Messages == [client : Clients, track : Tracks, skey : StoreKeys, live : BOOLEAN]

NoReply == [kind |-> "none", event |-> 0, channel |-> Disabled]
Failed  == [kind |-> "error", event |-> 0, channel |-> Disabled]
Refused == [kind |-> "conflict", event |-> 0, channel |-> Disabled]

VARIABLES
    ledger,      \* store key -> the durable intent recorded under it
    minted,      \* number of event ids handed out
    inbox,       \* requests the store has not looked at yet
    working,     \* requests whose Core write is in progress
    dualEnabled, \* the operator's dual_extraction_enabled policy
    reply,       \* client -> the HTTP answer its handler can read
    faults       \* faults so far

storeVars == <<ledger, minted, inbox, working, dualEnabled, reply, faults>>

Free == [status |-> "free", by |-> Nobody, track |-> "single", event |-> 0]

(***************************************************************************)
(* What the bridge puts in the body of a write for each track.  The two    *)
(* children of a dual request carry a fingerprint of the whole argument    *)
(* record, so the store sees a change in a field that one of the children  *)
(* does not carry itself.                                                  *)
(***************************************************************************)
Fingerprint_WithoutAgent(a) == [a EXCEPT !.agent = Absent]  \* mutant

Fingerprint(a) == a

Body_WithoutTrack(c, track) == [user |-> Args[c].user, infer |-> Args[c].infer]  \* mutant

Body(c, track) ==
    LET a == Args[c] IN
    CASE track = "single" ->
            [track |-> track, user |-> a.user, agent |-> a.agent,
             infer |-> a.infer, fingerprint |-> Absent]
      [] track = "personal" ->
            [track |-> track, user |-> a.user, agent |-> Absent,
             infer |-> a.infer, fingerprint |-> Fingerprint(a)]
      [] track = "project" ->
            [track |-> track, user |-> Absent, agent |-> a.agent,
             infer |-> a.infer, fingerprint |-> Fingerprint(a)]

\* The credential an intent belongs to: the caller context of the request that
\* created it.
Channel(k) == Cred[ledger[k].by]

\* The answer that carries the event row of an intent.
EventRow(k) ==
    [kind |-> "event", event |-> ledger[k].event, channel |-> Channel(k)]

StoreInit ==
    /\ ledger = [k \in StoreKeys |-> Free]
    /\ minted = 0
    /\ inbox = {}
    /\ working = {}
    /\ dualEnabled = TRUE
    /\ reply = [c \in Clients |-> NoReply]
    /\ faults = 0

Respond(m, r) == reply' = IF m.live THEN [reply EXCEPT ![m.client] = r] ELSE reply

Fault == faults < MaxFaults /\ faults' = faults + 1

-----------------------------------------------------------------------------
\* The first request under a store key records its intent before Core writes.
Accept(m) ==
    /\ m \in inbox
    /\ ledger[m.skey].status = "free"
    /\ ledger' = [ledger EXCEPT ![m.skey] =
          [status |-> "pending", by |-> m.client, track |-> m.track, event |-> minted + 1]]
    /\ minted' = minted + 1
    /\ inbox' = inbox \ {m}
    /\ working' = working \cup {m}
    /\ UNCHANGED <<dualEnabled, reply, faults>>

\* Core has written: the outcome is recorded and answered.
Commit(m) ==
    /\ m \in working
    /\ ledger' = [ledger EXCEPT ![m.skey].status = "done"]
    /\ working' = working \ {m}
    /\ Respond(m, EventRow(m.skey))
    /\ UNCHANGED <<minted, inbox, dualEnabled, faults>>

SameBody(m) ==
    Body(m.client, m.track) = Body(ledger[m.skey].by, ledger[m.skey].track)

\* A later request under a used key: another body conflicts, the same body gets
\* the recorded result, or an error while the outcome is unresolved.
Replay(m) ==
    /\ m \in inbox
    /\ ledger[m.skey].status # "free"
    /\ inbox' = inbox \ {m}
    /\ Respond(m, IF ~SameBody(m) THEN Refused
                  ELSE IF ledger[m.skey].status = "done" THEN EventRow(m.skey)
                  ELSE Failed)
    /\ UNCHANGED <<ledger, minted, working, dualEnabled, faults>>

\* The connection breaks before the store sees the request.
Drop(m) ==
    /\ Fault
    /\ m \in inbox
    /\ inbox' = inbox \ {m}
    /\ Respond(m, Failed)
    /\ UNCHANGED <<ledger, minted, working, dualEnabled>>

\* The store loses track of a Core write: its intent stays unresolved.
Lose(m) ==
    /\ Fault
    /\ m \in working
    /\ working' = working \ {m}
    /\ Respond(m, Failed)
    /\ UNCHANGED <<ledger, minted, inbox, dualEnabled>>

\* The operator settles an intent nobody is working on.
Repair(k) ==
    /\ ledger[k].status = "pending"
    /\ \A m \in working : m.skey # k
    /\ ledger' = [ledger EXCEPT ![k].status = "done"]
    /\ UNCHANGED <<minted, inbox, working, dualEnabled, reply, faults>>

DisableDual ==
    /\ Fault
    /\ dualEnabled
    /\ dualEnabled' = FALSE
    /\ UNCHANGED <<ledger, minted, inbox, working, reply>>

EnableDual ==
    /\ ~dualEnabled
    /\ dualEnabled' = TRUE
    /\ UNCHANGED <<ledger, minted, inbox, working, reply, faults>>

StoreNext ==
    \/ \E m \in inbox : Accept(m) \/ Replay(m) \/ Drop(m)
    \/ \E m \in working : Commit(m) \/ Lose(m)
    \/ \E k \in StoreKeys : Repair(k)
    \/ DisableDual
    \/ EnableDual
=============================================================================
