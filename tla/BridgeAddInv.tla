----------------------------- MODULE BridgeAddInv -----------------------------
(***************************************************************************)
(* The inductive invariant behind the safety properties of BridgeAdd: what *)
(* the requests in flight, the answers and the handlers' positions say     *)
(* about the store.                                                        *)
(***************************************************************************)
EXTENDS BridgeAdd

\* The store key a write of this client and track is filed under.
KeyFits(c, track, k) ==
    IF track = "single" /\ Args[c].key = NoKey
    THEN \E a \in Anon : k = AnonKey(a)
    ELSE /\ Args[c].key \in Keys
         /\ k = (IF track = "project" THEN ProjectKey(Args[c].key) ELSE PlainKey(Args[c].key))

\* Under the client's key the personal child of its very request is recorded,
\* for its credential.
ProjectBacked(c) ==
    LET k == PlainKey(Args[c].key) IN
    /\ Args[c].key \in Keys
    /\ Done(k)
    /\ ledger[k].track = "personal"
    /\ Request(k) = Args[c]
    /\ Channel(k) = Cred[c]

\* A recorded write of this client's own request, under event e.
Recorded(c, track, e) ==
    \E k \in StoreKeys :
        /\ Done(k)
        /\ ledger[k].event = e
        /\ ledger[k].track = track
        /\ Body(ledger[k].by, track) = Body(c, track)
        /\ KeyFits(c, track, k)
        /\ Channel(k) = Cred[c]

InFlight == inbox \cup working

MessagesFit ==
    \A m \in InFlight :
        /\ KeyFits(m.client, m.track, m.skey)
        /\ m.track = "project" => ProjectBacked(m.client)
        /\ m.live => pc[m.client] = m.track /\ reply[m.client].kind = "none"

\* A handler waits for one answer at a time.
OneLive ==
    /\ \A m, n \in InFlight : m.live /\ n.live /\ m.client = n.client => m = n
    /\ \A m \in inbox \cap working : ~m.live

WorkingOwned ==
    \A m \in working :
        Used(m.skey) /\ ledger[m.skey].by = m.client /\ ledger[m.skey].track = m.track

CellsFit ==
    \A k \in StoreKeys : Used(k) =>
        /\ ledger[k].by \in Clients
        /\ KeyFits(ledger[k].by, ledger[k].track, k)
        /\ ledger[k].track = "project" => ProjectBacked(ledger[k].by)

\* The write behind an answer with an event row.
Answers(c, track, r) ==
    \E k \in StoreKeys :
        /\ Done(k)
        /\ ledger[k].event = r.event
        /\ ledger[k].track = track
        /\ Body(ledger[k].by, track) = Body(c, track)
        /\ KeyFits(c, track, k)
        /\ Channel(k) = r.channel

RepliesFit ==
    \A c \in Clients :
        /\ reply[c].kind # "none" => pc[c] \in Waiting
        /\ reply[c].kind = "event" => Answers(c, pc[c], reply[c])

HandlersFit ==
    \A c \in Clients :
        /\ pc[c] \in {"preflight", "personal"} => Args[c].key \in Keys
        /\ pc[c] = "project" => ProjectBacked(c) /\ Recorded(c, "personal", first[c])
        /\ told[c] = "incomplete" => ProjectBacked(c)

ReceiptsFit ==
    \A c \in Clients : \A r \in receipts[c] :
        \/ Len(r) = 1 /\ Recorded(c, "single", r[1])
        \/ /\ Len(r) = 2
           /\ Recorded(c, "personal", r[1])
           /\ Recorded(c, "project", r[2])

\* The inductive invariant: every request, answer, handler position and receipt
\* has the durable intents behind it that the next steps rely on.
IInv ==
    /\ TypeOK
    /\ MessagesFit
    /\ OneLive
    /\ WorkingOwned
    /\ CellsFit
    /\ RepliesFit
    /\ HandlersFit
    /\ ReceiptsFit

\* Event ids are handed out once.
EventIds ==
    /\ \A k \in StoreKeys : Used(k) => ledger[k].event \in 1..minted
    /\ \A j, k \in StoreKeys :
          Used(j) /\ Used(k) /\ ledger[j].event = ledger[k].event => j = k

\* A cached event is a recorded one, with its channel.
CacheFits ==
    \A v \in EVENTS : \E k \in StoreKeys :
        Done(k) /\ ledger[k].event = v.event /\ Channel(k) = v.channel

\* The inductive invariant behind the event queries: the cache holds nothing the
\* store has not recorded, for the same credential, and no event id names two intents.
EventInv == IInv /\ EventIds /\ CacheFits

\* Only requests that may be split have a personal or a project child.
SplitFits ==
    /\ \A c \in Clients : pc[c] \in {"preflight", "personal", "project"} => Args[c].infer
    /\ \A m \in InFlight : m.track # "single" => Args[m.client].infer
    /\ \A k \in StoreKeys : Used(k) /\ ledger[k].track # "single" => Args[ledger[k].by].infer

\* The inductive invariant behind the refinement of DurableAdd: a request of raw
\* memories (infer off) never has a personal or project child, in no mode.
RefinementInv == IInv /\ SplitFits

\* What the proofs are by induction on: what the cache and the rows of events say
\* of their owners, and what answers and receipts say of the records.
ProofInv == EventInv /\ RefinementInv
================================================================================
