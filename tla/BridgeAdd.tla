------------------------------ MODULE BridgeAdd ------------------------------
(***************************************************************************)
(* add_memory of the bridge in front of the durable store: single and      *)
(* dual extraction, the process-local EVENTS cache and the event queries   *)
(* get_event_status and list_events.  Every client has one request, which  *)
(* it sends again with the same idempotency_key until it has seen a        *)
(* receipt; each attempt runs in a thread of its own                       *)
(* (ThreadingHTTPServer), and calls to the store interleave.  The process  *)
(* may stop and start again, with another MEM0_OSS_EXTRACTION_MODE.        *)
(***************************************************************************)
EXTENDS SidecarStore, Sequences

CONSTANT ServerModes  \* what MEM0_OSS_EXTRACTION_MODE may be set to

ASSUME ServerModesAssumption == ServerModes \subseteq Modes /\ ServerModes # {}

VARIABLES
    pc,        \* client -> where the handler of its request is
    first,     \* client -> the personal child's event, local to the handler
    EVENTS,    \* the cache: [event, channel]
    mode,      \* Config.extraction_mode
    receipts,  \* client -> every success receipt issued for it
    acked,     \* client -> it has seen one
    told       \* client -> what the last failed attempt reported

bridgeVars == <<pc, first, EVENTS, mode, receipts, acked, told>>
vars == <<storeVars, bridgeVars>>

Waiting == {"single", "personal", "project"}

Init ==
    /\ StoreInit
    /\ pc = [c \in Clients |-> "idle"]
    /\ first = [c \in Clients |-> 0]
    /\ EVENTS = {}
    /\ mode \in ServerModes
    /\ receipts = [c \in Clients |-> {}]
    /\ acked = [c \in Clients |-> FALSE]
    /\ told = [c \in Clients |-> "nothing"]

-----------------------------------------------------------------------------
\* Operators named <definition>_<fault> are mutants: what the definition would
\* be if the code had that fault.  No action uses them.

CanRead_Anybody(c, channel) == TRUE

\* An event row can be read by the credential in its channel, and by everybody
\* when authentication is off.
CanRead(c, channel) == Cred[c] = Disabled \/ channel = Cred[c]

\* Only an inference request in dual mode is split.
IsDual(c) ==
    /\ (IF Args[c].mode = "default" THEN mode ELSE Args[c].mode) = "dual"
    /\ Args[c].infer

StoreKey_Shared(c, track) == PlainKey(Args[c].key)

\* The Idempotency-Key header of each write.
StoreKey(c, track) ==
    CASE track = "project" -> ProjectKey(Args[c].key)
      [] track = "personal" -> PlainKey(Args[c].key)
      [] track = "single" -> PlainKey(Args[c].key)

Message(c, track, k) ==
    [client |-> c, track |-> track, skey |-> k, live |-> TRUE]

Post_WithoutHeader(c, track) ==
    \E a \in Anon :
        /\ ledger[AnonKey(a)].status = "free"
        /\ \A m \in inbox : m.skey # AnonKey(a)
        /\ inbox' = inbox \cup {Message(c, track, AnonKey(a))}

\* POST /v3/memories/add, under the key or, for a keyless write, under none.
Post(c, track) ==
    IF Args[c].key # NoKey
    THEN inbox' = inbox \cup {Message(c, track, StoreKey(c, track))}
    ELSE \E a \in Anon :
            /\ ledger[AnonKey(a)].status = "free"
            /\ \A m \in inbox : m.skey # AnonKey(a)
            /\ inbox' = inbox \cup {Message(c, track, AnonKey(a))}

\* The client sends its request, again after every answer that is no receipt.
\* A dual request without a key is refused before anything is sent.
AddSingle(c) ==
    /\ pc[c] = "idle"
    /\ ~acked[c]
    /\ ~IsDual(c)
    /\ Post(c, "single")
    /\ pc' = [pc EXCEPT ![c] = "single"]
    /\ told' = [told EXCEPT ![c] = "nothing"]
    /\ UNCHANGED <<ledger, minted, working, dualEnabled, reply, faults,
                   first, EVENTS, mode, receipts, acked>>

AddDual(c) ==
    /\ pc[c] = "idle"
    /\ ~acked[c]
    /\ IsDual(c)
    /\ Args[c].key # NoKey
    /\ pc' = [pc EXCEPT ![c] = "preflight"]
    /\ told' = [told EXCEPT ![c] = "nothing"]
    /\ UNCHANGED <<storeVars, first, EVENTS, mode, receipts, acked>>

\* GET /v1/extraction-capabilities decides before any child is written.
Preflight(c) ==
    /\ pc[c] = "preflight"
    /\ \/ /\ dualEnabled
          /\ Post(c, "personal")
          /\ pc' = [pc EXCEPT ![c] = "personal"]
          /\ UNCHANGED told
       \/ /\ ~dualEnabled
          /\ pc' = [pc EXCEPT ![c] = "idle"]
          /\ told' = [told EXCEPT ![c] = "refused"]
          /\ UNCHANGED inbox
    /\ UNCHANGED <<ledger, minted, working, dualEnabled, reply, faults,
                   first, EVENTS, mode, receipts, acked>>

Readable_Unchecked(c) == reply[c].kind = "event"

\* The store answered with an event row that this caller may read.
Readable(c) == reply[c].kind = "event" /\ CanRead(c, reply[c].channel)

\* EVENTS[event_id] = event
Cached(c) == EVENTS \cup {[event |-> reply[c].event, channel |-> reply[c].channel]}
Consume(c) == reply' = [reply EXCEPT ![c] = NoReply]

Receipt_ReplayFirstOnly(c, r) ==
    /\ receipts' = [receipts EXCEPT ![c] = @ \cup {IF @ = {} THEN r ELSE <<r[1]>>}]
    /\ pc' = [pc EXCEPT ![c] = "idle"]
    /\ \/ acked' = [acked EXCEPT ![c] = TRUE] /\ UNCHANGED faults
       \/ Fault /\ UNCHANGED acked

\* The receipt reaches the client, or is lost on the way.
Receipt(c, r) ==
    /\ receipts' = [receipts EXCEPT ![c] = @ \cup {r}]
    /\ pc' = [pc EXCEPT ![c] = "idle"]
    /\ \/ acked' = [acked EXCEPT ![c] = TRUE] /\ UNCHANGED faults
       \/ Fault /\ UNCHANGED acked

SingleDone(c) ==
    /\ pc[c] = "single"
    /\ Readable(c)
    /\ EVENTS' = Cached(c)
    /\ Receipt(c, <<reply[c].event>>)
    /\ Consume(c)
    /\ UNCHANGED <<ledger, minted, inbox, working, dualEnabled, first, mode, told>>

\* Only after the personal child is recorded is the project child sent.
PersonalDone(c) ==
    /\ pc[c] = "personal"
    /\ Readable(c)
    /\ EVENTS' = Cached(c)
    /\ first' = [first EXCEPT ![c] = reply[c].event]
    /\ Consume(c)
    /\ Post(c, "project")
    /\ pc' = [pc EXCEPT ![c] = "project"]
    /\ UNCHANGED <<ledger, minted, working, dualEnabled, faults,
                   mode, receipts, acked, told>>

ProjectDone(c) ==
    /\ pc[c] = "project"
    /\ Readable(c)
    /\ EVENTS' = Cached(c)
    /\ Receipt(c, <<first[c], reply[c].event>>)
    /\ first' = [first EXCEPT ![c] = 0]
    /\ Consume(c)
    /\ UNCHANGED <<ledger, minted, inbox, working, dualEnabled, mode, told>>

Report_AnyChild(c) ==
    told' = [told EXCEPT ![c] =
        IF pc[c] \in {"personal", "project"} THEN "incomplete"
        ELSE IF reply[c].kind = "conflict" THEN "conflict" ELSE "error"]

\* What a failed attempt reports: any failure of the second write is turned
\* into "incomplete; personal extraction is recorded".
Report(c) ==
    told' = [told EXCEPT ![c] =
        IF pc[c] = "project" THEN "incomplete"
        ELSE IF reply[c].kind = "conflict" THEN "conflict" ELSE "error"]

\* The store answered with an error, or with another credential's event.
AddFails(c) ==
    /\ pc[c] \in Waiting
    /\ reply[c].kind # "none"
    /\ ~Readable(c)
    /\ Report(c)
    /\ pc' = [pc EXCEPT ![c] = "idle"]
    /\ first' = [first EXCEPT ![c] = 0]
    /\ Consume(c)
    /\ UNCHANGED <<ledger, minted, inbox, working, dualEnabled, faults,
                   EVENTS, mode, receipts, acked>>

\* Requests of the abandoned handlers go on, but nobody reads their answers.
Orphan(msgs, abandoned) ==
    {IF m.client \in abandoned THEN [m EXCEPT !.live = FALSE] ELSE m : m \in msgs}

\* The handler gives up waiting; the request may still reach the store.
Timeout(c) ==
    /\ Fault
    /\ pc[c] # "idle"
    /\ Report(c)
    /\ pc' = [pc EXCEPT ![c] = "idle"]
    /\ first' = [first EXCEPT ![c] = 0]
    /\ inbox' = Orphan(inbox, {c})
    /\ working' = Orphan(working, {c})
    /\ Consume(c)
    /\ UNCHANGED <<ledger, minted, dualEnabled, EVENTS, mode, receipts, acked>>

\* The bridge process stops and starts: threads, connections and cache are gone.
Restart ==
    /\ Fault
    /\ pc' = [c \in Clients |-> "idle"]
    /\ first' = [c \in Clients |-> 0]
    /\ reply' = [c \in Clients |-> NoReply]
    /\ inbox' = Orphan(inbox, Clients)
    /\ working' = Orphan(working, Clients)
    /\ EVENTS' = {}
    /\ mode' \in ServerModes
    /\ UNCHANGED <<ledger, minted, dualEnabled, receipts, acked, told>>

Add(c) ==
    \/ AddSingle(c) \/ AddDual(c) \/ Preflight(c)
    \/ SingleDone(c) \/ PersonalDone(c) \/ ProjectDone(c) \/ AddFails(c)

Next ==
    \/ StoreNext /\ UNCHANGED bridgeVars
    \/ \E c \in Clients : Add(c) \/ Timeout(c)
    \/ Restart

Spec == Init /\ [][Next]_vars

(***************************************************************************)
(* Fairness: handler threads and the store run on, the clients repeat a    *)
(* request they have no receipt for (docs/plugin-parity.md asks them to),  *)
(* and the operator repairs unresolved intents and restores the policy.    *)
(***************************************************************************)
Fairness ==
    /\ \A c \in Clients : WF_vars(Add(c))
    /\ \A m \in Messages :
          WF_vars((Accept(m) \/ Replay(m) \/ Commit(m)) /\ UNCHANGED bridgeVars)
    /\ \A k \in StoreKeys : WF_vars(Repair(k) /\ UNCHANGED bridgeVars)
    /\ WF_vars(EnableDual /\ UNCHANGED bridgeVars)

FairSpec == Spec /\ Fairness

-----------------------------------------------------------------------------
(***************************************************************************)
(* The event queries.  They change no state: what get_event_status answers *)
(* to c about one event, and about a composite receipt, and the rows       *)
(* list_events returns to c.                                               *)
(***************************************************************************)
Rows(e) == {k \in StoreKeys : ledger[k].status # "free" /\ ledger[k].event = e}

EventStatus_CacheOnly(c, e) ==
    IF \E v \in EVENTS : v.event = e /\ CanRead(c, v.channel) THEN "SUCCEEDED" ELSE "not found"

EventStatus(c, e) ==
    LET cached == {v \in EVENTS : v.event = e} IN
    IF cached # {}
    THEN IF \A v \in cached : CanRead(c, v.channel) THEN "SUCCEEDED" ELSE "not found"
    ELSE IF Rows(e) = {} \/ \E k \in Rows(e) : ~CanRead(c, Channel(k)) THEN "not found"
    ELSE IF \A k \in Rows(e) : ledger[k].status = "done" THEN "SUCCEEDED" ELSE "PENDING"

ReceiptStatus(c, r) ==
    LET statuses == {EventStatus(c, r[i]) : i \in DOMAIN r} IN
    IF "not found" \in statuses THEN "not found"
    ELSE IF statuses = {"SUCCEEDED"} THEN "SUCCEEDED" ELSE "PENDING"

ListEvents(c) ==
    {ledger[k].event : k \in {j \in StoreKeys :
        ledger[j].status # "free" /\ CanRead(c, Channel(j))}}

-----------------------------------------------------------------------------
(***************************************************************************)
(* Properties.                                                             *)
(***************************************************************************)
Cells == [status : {"free", "pending", "done"}, by : Clients \cup {Nobody},
          track : Tracks, event : Nat]

Channels == {Cred[c] : c \in Clients} \cup {Disabled}

\* Type invariant of the bridge and the store: intents, requests in flight,
\* answers, handler positions, cached events and receipts have their shapes.
TypeOK ==
    /\ ledger \in [StoreKeys -> Cells]
    /\ minted \in Nat
    /\ inbox \subseteq Messages
    /\ working \subseteq Messages
    /\ dualEnabled \in BOOLEAN
    /\ reply \in [Clients -> [kind : {"none", "error", "conflict", "event"}, event : Nat, channel : Channels]]
    /\ faults \in 0..MaxFaults
    /\ pc \in [Clients -> Waiting \cup {"idle", "preflight"}]
    /\ first \in [Clients -> Nat]
    /\ EVENTS \subseteq [event : Nat, channel : Channels]
    /\ mode \in Modes
    /\ receipts \in [Clients -> SUBSET Seq(Nat)]
    /\ acked \in [Clients -> BOOLEAN]
    /\ told \in [Clients -> {"nothing", "refused", "error", "conflict", "incomplete"}]

Used(k) == ledger[k].status # "free"
Done(k) == ledger[k].status = "done"
Request(k) == Args[ledger[k].by]

\* However often a keyed request is sent, times out, loses its answer or is
\* repeated after a restart, each of its tracks is written under one store key
\* only, so once (README: reusing the key returns the recorded result).
WrittenOnce ==
    \A j, k \in StoreKeys :
        /\ Used(j) /\ Used(k)
        /\ Request(j) = Request(k)
        /\ Request(j).key # NoKey
        /\ ledger[j].track = ledger[k].track
        => j = k

\* A project child exists only behind a recorded personal child of the very
\* same request and credential: a second client that uses the key with other
\* arguments, or another credential, never completes somebody's dual write
\* (_add_dual_memory: order of the two writes, fingerprint, channel check).
ChildrenAgree ==
    \A k \in Keys :
        Used(ProjectKey(k)) =>
            /\ Done(PlainKey(k))
            /\ ledger[PlainKey(k)].track = "personal"
            /\ Request(PlainKey(k)) = Request(ProjectKey(k))
            /\ Channel(PlainKey(k)) = Channel(ProjectKey(k))

\* A success receipt stands for recorded writes of this client's own request
\* under this client's own credential; a composite receipt names the personal
\* and the project child in that order.
ReceiptSound ==
    \A c \in Clients : \A r \in receipts[c] :
        \A i \in DOMAIN r :
            \E k \in StoreKeys :
                /\ Done(k)
                /\ ledger[k].event = r[i]
                /\ ledger[k].track = (IF Len(r) = 1 THEN "single"
                                       ELSE IF i = 1 THEN "personal" ELSE "project")
                /\ Body(ledger[k].by, ledger[k].track) = Body(c, ledger[k].track)
                /\ Cred[c] \in {Disabled, Channel(k)}

\* "Dual extraction is incomplete; personal extraction is recorded" is said
\* only when the personal child of that request is recorded.
IncompleteMeansRecorded ==
    \A c \in Clients :
        told[c] = "incomplete" =>
            /\ Done(PlainKey(Args[c].key))
            /\ ledger[PlainKey(Args[c].key)].track = "personal"
            /\ Request(PlainKey(Args[c].key)) = Args[c]

\* Every receipt a keyed request ever gets is the same one: the composite event
\* ID remains stable across retries and bridge restarts.
ReceiptStable ==
    \A c \in Clients :
        Args[c].key # NoKey => \A r, s \in receipts[c] : r = s

\* A receipt stays queryable, by restart-proof means: get_event_status answers
\* SUCCEEDED for it and list_events has its rows, whatever the cache lost.
ReceiptQueryable ==
    \A c \in Clients : \A r \in receipts[c] :
        /\ ReceiptStatus(c, r) = "SUCCEEDED"
        /\ \A i \in DOMAIN r : r[i] \in ListEvents(c)

\* No answer about an event goes to a credential other than the one that
\* created it, from the cache or from the store.
EventsPrivate ==
    \A c \in Clients : \A k \in StoreKeys :
        Used(k) /\ EventStatus(c, ledger[k].event) # "not found" =>
            Cred[c] \in {Disabled, Channel(k)}

\* "Reusing the key with the same payload returns the recorded result": the
\* conflict answer is for somebody else's payload, never for one's own.
NoSelfConflict ==
    \A c \in Clients :
        told[c] = "conflict" => Request(PlainKey(Args[c].key)) # Args[c]

\* A client that keeps repeating its request ends up with a receipt.
Completes == \A c \in Clients : <>acked[c]

(***************************************************************************)
(* The abstract view: what is recorded under each key and who was granted  *)
(* a receipt.                                                              *)
(***************************************************************************)
Stage(k) ==
    IF ~Done(PlainKey(k)) THEN "none"
    ELSE IF ledger[PlainKey(k)].track = "single" THEN "single"
    ELSE IF Done(ProjectKey(k)) THEN "both" ELSE "personal"

SameWrite(c, d, s) ==
    /\ Cred[c] \in {Disabled, Cred[d]}
    /\ IF s = "single" THEN Body(c, "single") = Body(d, "single") ELSE Args[c] = Args[d]

Abstract == INSTANCE DurableAdd WITH
    KeyOf   <- [c \in Clients |-> Args[c].key],
    Splits  <- {c \in Clients : Args[c].infer},
    Same    <- SameWrite,
    stage   <- [k \in Keys |-> Stage(k)],
    holder  <- [k \in Keys |-> IF Done(PlainKey(k)) THEN ledger[PlainKey(k)].by ELSE Nobody],
    granted <- {c \in Clients : Args[c].key # NoKey /\ receipts[c] # {}}

\* Retries, lost answers, late requests and restarts of the bridge amount to
\* the atomic records and grants of DurableAdd.
ImplementsDurableAdd == Abstract!Spec
=============================================================================
