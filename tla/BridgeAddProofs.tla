--------------------------- MODULE BridgeAddProofs ---------------------------
(***************************************************************************)
(* Proofs about BridgeAdd for any clients, keys, requests, credentials and *)
(* number of faults.                                                       *)
(***************************************************************************)
EXTENDS BridgeAddInv, TLAPS

USE DEF PlainKey, ProjectKey, AnonKey

\* A recorded intent is never taken back: it keeps its request, track and event,
\* and once its outcome is known it stays known.
Grows ==
    \A k \in StoreKeys : Used(k) =>
        /\ Used(k)'
        /\ ledger'[k].by = ledger[k].by
        /\ ledger'[k].track = ledger[k].track
        /\ ledger'[k].event = ledger[k].event
        /\ Done(k) => Done(k)'

-----------------------------------------------------------------------------
LEMMA KeyTypes ==
    /\ \A k \in Keys : PlainKey(k) \in StoreKeys /\ ProjectKey(k) \in StoreKeys
    /\ \A a \in Anon : AnonKey(a) \in StoreKeys
  BY DEF StoreKeys

\* A write that is sent goes to the store key its client and track call for.
LEMMA PostFits ==
    ASSUME NEW c \in Clients, NEW track \in Tracks, Post(c, track),
           track # "single" => Args[c].key # NoKey
    PROVE  \E k \in StoreKeys :
              inbox' = inbox \cup {Message(c, track, k)} /\ KeyFits(c, track, k)
  <1>1. CASE Args[c].key # NoKey
    <2>1. Args[c].key \in Keys
      BY <1>1, ArgsAssumption
    <2>2. StoreKey(c, track) =
            IF track = "project" THEN ProjectKey(Args[c].key) ELSE PlainKey(Args[c].key)
      BY DEF StoreKey, Tracks
    <2>3. StoreKey(c, track) \in StoreKeys /\ KeyFits(c, track, StoreKey(c, track))
      BY <1>1, <2>1, <2>2, KeyTypes DEF KeyFits
    <2>4. QED
      BY <1>1, <2>3 DEF Post
  <1>2. CASE Args[c].key = NoKey
    <2>1. track = "single"
      BY <1>2
    <2>2. PICK a \in Anon : inbox' = inbox \cup {Message(c, track, AnonKey(a))}
      BY <1>2 DEF Post
    <2>3. KeyFits(c, track, AnonKey(a)) /\ AnonKey(a) \in StoreKeys
      BY <1>2, <2>1, KeyTypes DEF KeyFits
    <2>4. QED
      BY <2>2, <2>3
  <1>3. QED
    BY <1>1, <1>2

LEMMA MessageType ==
    ASSUME NEW c \in Clients, NEW track \in Tracks, NEW k \in StoreKeys
    PROVE  Message(c, track, k) \in Messages
  BY DEF Message, Messages

LEMMA OrphanType ==
    ASSUME NEW S \in SUBSET Messages, NEW A
    PROVE  Orphan(S, A) \in SUBSET Messages
  BY DEF Orphan, Messages

\* Requests that lose their handler are the same requests, no longer live.
LEMMA OrphanMember ==
    ASSUME NEW S \in SUBSET Messages, NEW A, NEW n \in Orphan(S, A)
    PROVE  \E m \in S :
              /\ n.client = m.client /\ n.track = m.track /\ n.skey = m.skey
              /\ n.live => n = m /\ m.client \notin A
  <1>1. PICK m \in S : n = IF m.client \in A THEN [m EXCEPT !.live = FALSE] ELSE m
    BY DEF Orphan
  <1>2. QED
    BY <1>1 DEF Messages

-----------------------------------------------------------------------------
LEMMA InitType == Init => TypeOK
  <1> SUFFICES ASSUME Init PROVE TypeOK
    OBVIOUS
  <1> USE DEF Init, StoreInit
  <1>1. ledger \in [StoreKeys -> Cells]
    BY DEF Free, Cells, Tracks
  <1>2. minted \in Nat /\ faults \in 0..MaxFaults
    BY FaultsAssumption
  <1>3. inbox \subseteq Messages /\ working \subseteq Messages
    OBVIOUS
  <1>4. dualEnabled \in BOOLEAN
    OBVIOUS
  <1>5. reply \in [Clients -> [kind : {"none", "error", "conflict", "event"}, event : Nat, channel : Channels]]
    BY DEF NoReply, Channels
  <1>6. pc \in [Clients -> Waiting \cup {"idle", "preflight"}] /\ first \in [Clients -> Nat]
    OBVIOUS
  <1>7. EVENTS \subseteq [event : Nat, channel : Channels] /\ mode \in Modes
    BY ServerModesAssumption
  <1>8. receipts \in [Clients -> SUBSET Seq(Nat)]
    OBVIOUS
  <1>9. acked \in [Clients -> BOOLEAN]
    OBVIOUS
  <1>10. told \in [Clients -> {"nothing", "refused", "error", "conflict", "incomplete"}]
    OBVIOUS
  <1>11. QED
    BY <1>1, <1>2, <1>3, <1>4, <1>5, <1>6, <1>7, <1>8, <1>9, <1>10 DEF TypeOK

Replies == [kind : {"none", "error", "conflict", "event"}, event : Nat, channel : Channels]

\* The answers the store gives have the type of answers.
LEMMA RespondType ==
    ASSUME TypeOK, NEW m \in Messages, NEW r \in Replies, Respond(m, r)
    PROVE  reply' \in [Clients -> Replies]
  BY DEF TypeOK, Respond, Replies, Messages

LEMMA ConstantReplies == NoReply \in Replies /\ Failed \in Replies /\ Refused \in Replies
  BY DEF NoReply, Failed, Refused, Replies, Channels

LEMMA EventRowType ==
    ASSUME TypeOK, NEW k \in StoreKeys, ledger[k].by \in Clients
    PROVE  EventRow(k) \in Replies
  <1>1. Channel(k) \in Channels
    BY DEF Channel, Channels
  <1>2. ledger[k].event \in Nat
    BY DEF TypeOK, Cells
  <1>3. QED
    BY <1>1, <1>2 DEF EventRow, Replies

LEMMA FaultType ==
    ASSUME TypeOK, Fault
    PROVE  faults' \in 0..MaxFaults
  BY FaultsAssumption DEF TypeOK, Fault

\* Settling an intent changes its status and nothing else.
LEMMA Settling ==
    ASSUME TypeOK, NEW k \in StoreKeys, ledger' = [ledger EXCEPT ![k].status = "done"]
    PROVE  /\ ledger' \in [StoreKeys -> Cells]
           /\ ledger'[k].status = "done"
           /\ \A j \in StoreKeys :
                 /\ j # k => ledger'[j] = ledger[j]
                 /\ ledger'[j].by = ledger[j].by
                 /\ ledger'[j].track = ledger[j].track
                 /\ ledger'[j].event = ledger[j].event
  <1> DEFINE cell == [ledger[k] EXCEPT !.status = "done"]
  <1>1. ledger \in [StoreKeys -> Cells] /\ ledger[k] \in Cells
    BY DEF TypeOK
  <1>2. /\ cell \in Cells /\ cell.status = "done" /\ cell.by = ledger[k].by
        /\ cell.track = ledger[k].track /\ cell.event = ledger[k].event
    BY <1>1 DEF Cells
  <1>3. ledger' = [ledger EXCEPT ![k] = cell]
    BY Zenon
  <1> HIDE DEF cell
  <1>4. QED
    BY <1>1, <1>2, <1>3

\* A step of the store keeps the types; the intents it answers from have owners.
LEMMA StoreType ==
    ASSUME TypeOK, CellsFit, WorkingOwned, StoreNext, UNCHANGED bridgeVars
    PROVE  TypeOK'
  <1> USE DEF bridgeVars
  <1>1. ASSUME NEW m \in inbox, Accept(m) PROVE TypeOK'
    <2>1. m \in Messages
      BY DEF TypeOK
    <2>2. [status |-> "pending", by |-> m.client, track |-> m.track, event |-> minted + 1] \in Cells
      BY <2>1 DEF TypeOK, Cells, Messages
    <2>3. ledger' \in [StoreKeys -> Cells]
      BY <1>1, <2>2 DEF Accept, TypeOK
    <2>4. minted' \in Nat
      BY <1>1 DEF Accept, TypeOK
    <2>5. inbox' \subseteq Messages /\ working' \subseteq Messages
      BY <1>1 DEF Accept, TypeOK
    <2>6. QED
      BY <1>1, <2>3, <2>4, <2>5 DEF Accept, TypeOK
  <1>2. ASSUME NEW m \in inbox, Replay(m) PROVE TypeOK'
    <2>1. m \in Messages /\ m.skey \in StoreKeys
      BY DEF TypeOK, Messages
    <2>2. EventRow(m.skey) \in Replies
      BY <1>2, <2>1, EventRowType DEF Replay, CellsFit, Used
    <2>3. reply' \in [Clients -> Replies]
      BY <1>2, <2>1, <2>2, ConstantReplies, RespondType DEF Replay
    <2>4. inbox' \subseteq Messages
      BY <1>2 DEF Replay, TypeOK
    <2>5. QED
      BY <1>2, <2>3, <2>4 DEF Replay, TypeOK, Replies
  <1>3. ASSUME NEW m \in inbox, Drop(m) PROVE TypeOK'
    <2>1. m \in Messages
      BY DEF TypeOK
    <2>2. reply' \in [Clients -> Replies]
      BY <1>3, <2>1, ConstantReplies, RespondType DEF Drop
    <2>3. inbox' \subseteq Messages
      BY <1>3 DEF Drop, TypeOK
    <2>4. faults' \in 0..MaxFaults
      BY <1>3, FaultType DEF Drop
    <2>5. QED
      BY <1>3, <2>2, <2>3, <2>4 DEF Drop, TypeOK, Replies
  <1>4. ASSUME NEW m \in working, Commit(m) PROVE TypeOK'
    <2>1. m \in Messages /\ m.skey \in StoreKeys
      BY DEF TypeOK, Messages
    <2>2. EventRow(m.skey) \in Replies
      BY <2>1, EventRowType DEF WorkingOwned, CellsFit
    <2>3. [kind |-> "event", event |-> ledger[m.skey].event, channel |-> Channel(m.skey)] = EventRow(m.skey)
      BY DEF EventRow
    <2>4. reply' \in [Clients -> Replies]
      BY <1>4, <2>1, <2>2, RespondType DEF Commit
    <2>5. ledger' \in [StoreKeys -> Cells]
      BY <1>4, <2>1, Settling DEF Commit
    <2>6. working' \subseteq Messages
      BY <1>4 DEF Commit, TypeOK
    <2>7. QED
      BY <1>4, <2>4, <2>5, <2>6 DEF Commit, TypeOK, Replies
  <1>5. ASSUME NEW m \in working, Lose(m) PROVE TypeOK'
    <2>1. m \in Messages
      BY DEF TypeOK
    <2>2. reply' \in [Clients -> Replies]
      BY <1>5, <2>1, ConstantReplies, RespondType DEF Lose
    <2>3. working' \subseteq Messages
      BY <1>5 DEF Lose, TypeOK
    <2>4. faults' \in 0..MaxFaults
      BY <1>5, FaultType DEF Lose
    <2>5. QED
      BY <1>5, <2>2, <2>3, <2>4 DEF Lose, TypeOK, Replies
  <1>6. ASSUME NEW k \in StoreKeys, Repair(k) PROVE TypeOK'
    <2>1. ledger' \in [StoreKeys -> Cells]
      BY <1>6, Settling DEF Repair
    <2>2. QED
      BY <1>6, <2>1 DEF Repair, TypeOK
  <1>7. CASE DisableDual
    <2>1. faults' \in 0..MaxFaults
      BY <1>7, FaultType DEF DisableDual
    <2>2. QED
      BY <1>7, <2>1 DEF DisableDual, TypeOK
  <1>8. CASE EnableDual
    BY <1>8 DEF EnableDual, TypeOK
  <1>9. QED
    BY <1>1, <1>2, <1>3, <1>4, <1>5, <1>6, <1>7, <1>8 DEF StoreNext

-----------------------------------------------------------------------------
(***************************************************************************)
(* Intents only grow, so what was recorded stays recorded.                 *)
(***************************************************************************)
LEMMA StoreGrows ==
    ASSUME TypeOK, StoreNext
    PROVE  Grows
  <1>1. ASSUME NEW m \in inbox, Accept(m) PROVE Grows
    <2>1. m.skey \in StoreKeys /\ ~Used(m.skey)
      BY <1>1 DEF Accept, Used, TypeOK, Messages
    <2>2. \A k \in StoreKeys : k # m.skey => ledger'[k] = ledger[k]
      BY <1>1 DEF Accept, TypeOK
    <2>3. QED
      BY <2>1, <2>2 DEF Grows, Used, Done
  <1>2. ASSUME NEW k \in StoreKeys, ledger' = [ledger EXCEPT ![k].status = "done"] PROVE Grows
    <2>1. \A j \in StoreKeys : Used(j) => Used(j)' /\ (Done(j) => Done(j)')
      BY <1>2, Settling DEF Used, Done
    <2>2. QED
      BY <1>2, <2>1, Settling DEF Grows
  <1>3. ASSUME NEW m \in working, Commit(m) PROVE Grows
    <2>1. m.skey \in StoreKeys
      BY DEF TypeOK, Messages
    <2>2. QED
      BY <1>2, <1>3, <2>1 DEF Commit
  <1>4. ASSUME NEW k \in StoreKeys, Repair(k) PROVE Grows
    BY <1>2, <1>4 DEF Repair
  <1>5. CASE ledger' = ledger
    BY <1>5 DEF Grows, Used, Done
  <1>6. QED
    BY <1>1, <1>3, <1>4, <1>5 DEF StoreNext, Replay, Drop, Lose, DisableDual, EnableDual

LEMMA SameLedgerGrows ==
    ASSUME ledger' = ledger
    PROVE  Grows
  BY DEF Grows, Used, Done

LEMMA BackedStays ==
    ASSUME Grows, NEW c \in Clients, ProjectBacked(c)
    PROVE  ProjectBacked(c)'
  <1> DEFINE k == PlainKey(Args[c].key)
  <1>1. k \in StoreKeys /\ Done(k) /\ Used(k)
    BY KeyTypes DEF ProjectBacked, Done, Used
  <1>2. Done(k)' /\ ledger'[k].by = ledger[k].by /\ ledger'[k].track = ledger[k].track
    BY <1>1 DEF Grows
  <1>3. QED
    BY <1>2 DEF ProjectBacked, Request, Channel

LEMMA RecordedStays ==
    ASSUME Grows, NEW c \in Clients, NEW track, NEW e, Recorded(c, track, e)
    PROVE  Recorded(c, track, e)'
  <1>1. PICK k \in StoreKeys :
          /\ Done(k) /\ ledger[k].event = e /\ ledger[k].track = track
          /\ Body(ledger[k].by, track) = Body(c, track)
          /\ KeyFits(c, track, k) /\ Channel(k) = Cred[c]
    BY DEF Recorded
  <1>2. Used(k)
    BY <1>1 DEF Used, Done
  <1>3. /\ Done(k)' /\ ledger'[k].by = ledger[k].by
        /\ ledger'[k].track = ledger[k].track /\ ledger'[k].event = ledger[k].event
    BY <1>1, <1>2 DEF Grows
  <1>4. QED
    BY <1>1, <1>3 DEF Recorded, Channel

\* An answer the caller may read records its own write under its credential.
LEMMA ReadableRecorded ==
    ASSUME TypeOK, CellsFit, RepliesFit, NEW c \in Clients, Readable(c)
    PROVE  Recorded(c, pc[c], reply[c].event)
  <1>1. PICK k \in StoreKeys :
          /\ Done(k) /\ ledger[k].event = reply[c].event /\ ledger[k].track = pc[c]
          /\ Body(ledger[k].by, pc[c]) = Body(c, pc[c])
          /\ KeyFits(c, pc[c], k) /\ Channel(k) = reply[c].channel
    BY DEF RepliesFit, Readable, Answers
  <1>2. ledger[k].by \in Clients
    BY <1>1 DEF CellsFit, Used, Done
  <1>3. Channel(k) = Cred[c]
    BY <1>1, <1>2, CredAssumption DEF Readable, CanRead, Channel
  <1>4. QED
    BY <1>1, <1>3 DEF Recorded

\* The fingerprint in the personal child's body pins the whole request.
LEMMA PersonalBacks ==
    ASSUME NEW c \in Clients, NEW e, Recorded(c, "personal", e)
    PROVE  ProjectBacked(c)
  <1>1. PICK k \in StoreKeys :
          /\ Done(k) /\ ledger[k].track = "personal"
          /\ Body(ledger[k].by, "personal") = Body(c, "personal")
          /\ KeyFits(c, "personal", k) /\ Channel(k) = Cred[c]
    BY DEF Recorded
  <1>2. Body(c, "personal").fingerprint = Args[c]
        /\ Body(ledger[k].by, "personal").fingerprint = Args[ledger[k].by]
    BY DEF Body, Fingerprint
  <1>3. Args[ledger[k].by] = Args[c]
    BY <1>1, <1>2
  <1>4. k = PlainKey(Args[c].key) /\ Args[c].key \in Keys
    BY <1>1 DEF KeyFits
  <1>5. QED
    BY <1>1, <1>3, <1>4 DEF ProjectBacked, Request

LEMMA BodyTrack ==
    ASSUME NEW c, NEW t \in Tracks
    PROVE  Body(c, t).track = t
  BY DEF Body, Tracks

-----------------------------------------------------------------------------
(***************************************************************************)
(* Messages and answers.  Four things happen to them: a handler sends one, *)
(* the store takes one and answers it, a handler reads its answer, and a   *)
(* handler abandons its message.                                           *)
(***************************************************************************)
\* Answers, about the ledger L.
AnswersIn(L, c, track, r) ==
    \E k \in StoreKeys :
        /\ L[k].status = "done"
        /\ L[k].event = r.event
        /\ L[k].track = track
        /\ Body(L[k].by, track) = Body(c, track)
        /\ KeyFits(c, track, k)
        /\ Cred[L[k].by] = r.channel

LEMMA RepliesFitIn ==
    /\ RepliesFit <=> \A c \in Clients :
          /\ reply[c].kind # "none" => pc[c] \in Waiting
          /\ reply[c].kind = "event" => AnswersIn(ledger, c, pc[c], reply[c])
    /\ RepliesFit' <=> \A c \in Clients :
          /\ reply'[c].kind # "none" => pc'[c] \in Waiting
          /\ reply'[c].kind = "event" => AnswersIn(ledger', c, pc'[c], reply'[c])
  BY DEF RepliesFit, Answers, AnswersIn, Done, Channel, KeyFits

LEMMA AnswersStay ==
    ASSUME Grows, NEW c, NEW track, NEW r, AnswersIn(ledger, c, track, r)
    PROVE  AnswersIn(ledger', c, track, r)
  <1>1. PICK k \in StoreKeys :
          /\ ledger[k].status = "done" /\ ledger[k].event = r.event
          /\ ledger[k].track = track /\ Body(ledger[k].by, track) = Body(c, track)
          /\ KeyFits(c, track, k) /\ Cred[ledger[k].by] = r.channel
    BY DEF AnswersIn
  <1>2. Used(k) /\ Done(k)
    BY <1>1 DEF Used, Done
  <1>3. /\ Done(k)' /\ ledger'[k].by = ledger[k].by
        /\ ledger'[k].track = ledger[k].track /\ ledger'[k].event = ledger[k].event
    BY <1>2 DEF Grows
  <1>4. QED
    BY <1>1, <1>3 DEF AnswersIn, Done

Traffic == MessagesFit /\ OneLive /\ RepliesFit

\* Nobody waits for the answer of a message of c.
Quiet(c) == \A m \in InFlight : m.client = c => ~m.live

LEMMA IdleQuiet ==
    ASSUME MessagesFit, TypeOK, NEW c \in Clients,
           pc[c] \notin Waiting \/ reply[c].kind # "none"
    PROVE  Quiet(c)
  BY DEF Quiet, MessagesFit, TypeOK, InFlight, Messages, Tracks, Waiting

LEMMA Sending ==
    ASSUME TypeOK, Traffic, NEW c \in Clients, NEW t \in Tracks, NEW k \in StoreKeys,
           Quiet(c), KeyFits(c, t, k), t = "project" => ProjectBacked(c),
           inbox' = inbox \cup {Message(c, t, k)}, working' = working,
           ledger' = ledger, pc' = [pc EXCEPT ![c] = t],
           reply'[c].kind = "none", \A d \in Clients \ {c} : reply'[d] = reply[d]
    PROVE  Traffic'
  <1> DEFINE n == Message(c, t, k)
  <1>1. n.client = c /\ n.track = t /\ n.skey = k /\ n.live
    BY DEF Message
  <1>2. InFlight' = InFlight \cup {n}
    BY DEF InFlight
  <1>3. \A m \in InFlight : m.client \in Clients
    BY DEF InFlight, TypeOK, Messages
  <1>4. \A d \in Clients : ProjectBacked(d) => ProjectBacked(d)'
    BY SameLedgerGrows, BackedStays
  <1>5. pc'[c] = t /\ \A d \in Clients \ {c} : pc'[d] = pc[d]
    BY DEF TypeOK
  <1> HIDE DEF n
  <1>6. MessagesFit'
    <2> SUFFICES ASSUME NEW m \in InFlight'
                 PROVE  /\ KeyFits(m.client, m.track, m.skey)
                        /\ m.track = "project" => ProjectBacked(m.client)'
                        /\ m.live => pc'[m.client] = m.track /\ reply'[m.client].kind = "none"
      BY DEF MessagesFit, KeyFits
    <2>1. CASE m = n
      BY <1>1, <1>4, <1>5, <2>1
    <2>2. CASE m \in InFlight
      BY <1>3, <1>4, <1>5, <2>2 DEF Traffic, MessagesFit, Quiet
    <2>3. QED
      BY <1>2, <2>1, <2>2
  <1>7. OneLive'
    <2>1. \A m, o \in InFlight' : m.live /\ o.live /\ m.client = o.client => m = o
      BY <1>1, <1>2 DEF Traffic, OneLive, Quiet
    <2>2. \A m \in inbox' \cap working' : ~m.live
      <3>1. n \notin working
        BY <1>1 DEF Quiet, InFlight
      <3>2. QED
        BY <3>1 DEF Traffic, OneLive, n
    <2>3. QED
      BY <2>1, <2>2 DEF OneLive
  <1>8. RepliesFit'
    <2> SUFFICES ASSUME NEW d \in Clients
                 PROVE  /\ reply'[d].kind # "none" => pc'[d] \in Waiting
                        /\ reply'[d].kind = "event" => AnswersIn(ledger', d, pc'[d], reply'[d])
      BY RepliesFitIn
    <2>1. CASE d = c
      BY <2>1
    <2>2. CASE d # c
      BY <1>5, <2>2, RepliesFitIn DEF Traffic
    <2>3. QED
      BY <2>1, <2>2
  <1>9. QED
    BY <1>6, <1>7, <1>8 DEF Traffic

\* The store takes message m and, if somebody waits for it, answers r.
LEMMA Answering ==
    ASSUME TypeOK, Traffic, Grows, NEW m \in InFlight, NEW r,
           \/ m \in inbox /\ inbox' = inbox \ {m} /\ working' = working
           \/ m \in working /\ working' = working \ {m} /\ inbox' = inbox,
           Respond(m, r), pc' = pc,
           r.kind = "event" => AnswersIn(ledger', m.client, m.track, r)
    PROVE  Traffic'
  <1>1. InFlight' \subseteq InFlight /\ inbox' \subseteq inbox /\ working' \subseteq working
    BY DEF InFlight
  <1>2. \A o \in InFlight : o.client \in Clients /\ o.track \in Tracks
    BY DEF InFlight, TypeOK, Messages
  <1>3. ASSUME NEW o \in InFlight', m.live, o.live PROVE o.client # m.client
    BY <1>1, <1>3 DEF Traffic, OneLive, InFlight
  <1>4. /\ \A d \in Clients : ~(m.live /\ d = m.client) => reply'[d] = reply[d]
        /\ m.live => reply'[m.client] = r
    BY <1>2 DEF Respond, TypeOK
  <1>5. MessagesFit'
    <2> SUFFICES ASSUME NEW o \in InFlight'
                 PROVE  /\ KeyFits(o.client, o.track, o.skey)
                        /\ o.track = "project" => ProjectBacked(o.client)'
                        /\ o.live => pc[o.client] = o.track /\ reply'[o.client].kind = "none"
      BY DEF MessagesFit, KeyFits
    <2>1. KeyFits(o.client, o.track, o.skey)
      BY <1>1 DEF Traffic, MessagesFit
    <2>2. o.track = "project" => ProjectBacked(o.client)'
      BY <1>1, <1>2, BackedStays DEF Traffic, MessagesFit
    <2>3. o.live => pc[o.client] = o.track /\ reply'[o.client].kind = "none"
      BY <1>1, <1>2, <1>3, <1>4 DEF Traffic, MessagesFit
    <2>4. QED
      BY <2>1, <2>2, <2>3
  <1>6. OneLive'
    BY <1>1 DEF Traffic, OneLive
  <1>7. RepliesFit'
    <2> SUFFICES ASSUME NEW d \in Clients
                 PROVE  /\ reply'[d].kind # "none" => pc[d] \in Waiting
                        /\ reply'[d].kind = "event" => AnswersIn(ledger', d, pc[d], reply'[d])
      BY RepliesFitIn
    <2>1. CASE m.live /\ d = m.client
      <3>1. pc[d] = m.track
        BY <2>1 DEF Traffic, MessagesFit
      <3>2. QED
        BY <1>2, <1>4, <2>1, <3>1 DEF Tracks, Waiting
    <2>2. CASE ~(m.live /\ d = m.client)
      <3>1. reply'[d] = reply[d]
        BY <1>4, <2>2
      <3>2. reply[d].kind = "event" => AnswersIn(ledger', d, pc[d], reply[d])
        BY AnswersStay, RepliesFitIn DEF Traffic
      <3>3. QED
        BY <3>1, <3>2, RepliesFitIn DEF Traffic
    <2>3. QED
      BY <2>1, <2>2
  <1>8. QED
    BY <1>5, <1>6, <1>7 DEF Traffic

\* A handler with nothing on its way goes to where it waits for nothing.
LEMMA Reading ==
    ASSUME TypeOK, Traffic, NEW c \in Clients, NEW l, l \notin Waiting, Quiet(c),
           ledger' = ledger, inbox' = inbox, working' = working,
           pc' = [pc EXCEPT ![c] = l], reply'[c].kind = "none",
           \A d \in Clients \ {c} : reply'[d] = reply[d]
    PROVE  Traffic'
  <1>1. InFlight' = InFlight /\ \A m \in InFlight : m.client \in Clients
    BY DEF InFlight, TypeOK, Messages
  <1>2. \A d \in Clients : ProjectBacked(d) => ProjectBacked(d)'
    BY SameLedgerGrows, BackedStays
  <1>3. pc'[c] = l /\ \A d \in Clients \ {c} : pc'[d] = pc[d]
    BY DEF TypeOK
  <1>4. MessagesFit'
    <2> SUFFICES ASSUME NEW m \in InFlight
                 PROVE  /\ KeyFits(m.client, m.track, m.skey)
                        /\ m.track = "project" => ProjectBacked(m.client)'
                        /\ m.live => pc'[m.client] = m.track /\ reply'[m.client].kind = "none"
      BY <1>1 DEF MessagesFit, KeyFits
    <2>1. QED
      BY <1>1, <1>2, <1>3 DEF Traffic, MessagesFit, Quiet
  <1>5. OneLive'
    BY <1>1 DEF Traffic, OneLive
  <1>6. RepliesFit'
    BY <1>3, RepliesFitIn DEF Traffic
  <1>7. QED
    BY <1>4, <1>5, <1>6 DEF Traffic

\* The handlers of the clients in A are gone.
LEMMA Abandoning ==
    ASSUME TypeOK, Traffic, WorkingOwned, NEW A \in SUBSET Clients,
           ledger' = ledger, inbox' = Orphan(inbox, A), working' = Orphan(working, A),
           \A d \in A : reply'[d].kind = "none",
           \A d \in Clients \ A : pc'[d] = pc[d] /\ reply'[d] = reply[d]
    PROVE  Traffic' /\ WorkingOwned'
  <1> DEFINE Twin(o, m) ==
               /\ o.client = m.client /\ o.track = m.track /\ o.skey = m.skey
               /\ o.live => o = m /\ m.client \notin A
  <1>1. inbox \in SUBSET Messages /\ working \in SUBSET Messages
    BY DEF TypeOK
  <1>2. /\ \A o \in inbox' : \E m \in inbox : Twin(o, m)
        /\ \A o \in working' : \E m \in working : Twin(o, m)
    BY <1>1, OrphanMember
  <1>3. \A o \in InFlight' : \E m \in InFlight : Twin(o, m)
    BY <1>2 DEF InFlight
  <1>4. \A m \in InFlight : m.client \in Clients
    BY DEF InFlight, TypeOK, Messages
  <1>5. \A d \in Clients : ProjectBacked(d) => ProjectBacked(d)'
    BY SameLedgerGrows, BackedStays
  <1>6. MessagesFit'
    <2> SUFFICES ASSUME NEW o \in InFlight'
                 PROVE  /\ KeyFits(o.client, o.track, o.skey)
                        /\ o.track = "project" => ProjectBacked(o.client)'
                        /\ o.live => pc'[o.client] = o.track /\ reply'[o.client].kind = "none"
      BY DEF MessagesFit, KeyFits
    <2>1. PICK m \in InFlight : Twin(o, m)
      BY <1>3
    <2>2. QED
      BY <1>4, <1>5, <2>1 DEF Traffic, MessagesFit
  <1>7. OneLive'
    <2>1. \A o \in InFlight' : o.live => o \in InFlight
      BY <1>3
    <2>2. \A o \in inbox' \cap working' : o.live => o \in inbox \cap working
      BY <1>2
    <2>3. QED
      BY <2>1, <2>2 DEF Traffic, OneLive
  <1>8. RepliesFit'
    BY RepliesFitIn DEF Traffic
  <1>9. WorkingOwned'
    <2> SUFFICES ASSUME NEW o \in working'
                 PROVE  /\ ledger[o.skey].status # "free"
                        /\ ledger[o.skey].by = o.client /\ ledger[o.skey].track = o.track
      BY DEF WorkingOwned, Used
    <2>1. PICK m \in working : Twin(o, m)
      BY <1>2
    <2>2. QED
      BY <2>1 DEF WorkingOwned, Used
  <1>10. QED
    BY <1>6, <1>7, <1>8, <1>9 DEF Traffic

-----------------------------------------------------------------------------
(***************************************************************************)
(* A step of the store keeps the invariant.                                *)
(***************************************************************************)
\* Handlers and receipts rely on what is recorded, and that stays.
LEMMA StoreHandlers ==
    ASSUME TypeOK, Grows, UNCHANGED bridgeVars, HandlersFit, ReceiptsFit
    PROVE  HandlersFit' /\ ReceiptsFit'
  <1>1. HandlersFit'
    <2> SUFFICES ASSUME NEW c \in Clients
                 PROVE  /\ pc[c] \in {"preflight", "personal"} => Args[c].key \in Keys
                        /\ pc[c] = "project" => ProjectBacked(c)' /\ Recorded(c, "personal", first[c])'
                        /\ told[c] = "incomplete" => ProjectBacked(c)'
      BY DEF HandlersFit, bridgeVars
    <2>1. \A e : pc[c] = "project" /\ e = first[c] => Recorded(c, "personal", e)'
      BY RecordedStays DEF HandlersFit
    <2>2. pc[c] = "project" => Recorded(c, "personal", first[c])'
      BY <2>1 DEF Recorded, KeyFits, bridgeVars
    <2>3. QED
      BY <2>2, BackedStays DEF HandlersFit
  <1>2. ReceiptsFit'
    <2> SUFFICES ASSUME NEW c \in Clients, NEW r \in receipts[c]
                 PROVE  \/ Len(r) = 1 /\ Recorded(c, "single", r[1])'
                        \/ Len(r) = 2 /\ Recorded(c, "personal", r[1])' /\ Recorded(c, "project", r[2])'
      BY DEF ReceiptsFit, bridgeVars
    <2>1. QED
      BY RecordedStays DEF ReceiptsFit
  <1>3. QED
    BY <1>1, <1>2

\* CellsFit, about a cell of the ledger L.
BackedIn(L, c) ==
    /\ Args[c].key \in Keys
    /\ L[PlainKey(Args[c].key)].status = "done"
    /\ L[PlainKey(Args[c].key)].track = "personal"
    /\ Args[L[PlainKey(Args[c].key)].by] = Args[c]
    /\ Cred[L[PlainKey(Args[c].key)].by] = Cred[c]

CellFits(L, k) ==
    /\ L[k].by \in Clients
    /\ KeyFits(L[k].by, L[k].track, k)
    /\ L[k].track = "project" => BackedIn(L, L[k].by)

LEMMA BackedInIs ==
    ASSUME NEW c
    PROVE  (ProjectBacked(c) <=> BackedIn(ledger, c)) /\ (ProjectBacked(c)' <=> BackedIn(ledger', c))
  BY DEF ProjectBacked, BackedIn, Done, Request, Channel

LEMMA CellsFitIn ==
    /\ CellsFit <=> \A k \in StoreKeys : ledger[k].status # "free" => CellFits(ledger, k)
    /\ CellsFit' <=> \A k \in StoreKeys : ledger'[k].status # "free" => CellFits(ledger', k)
  BY DEF CellsFit, CellFits, Used, BackedIn, ProjectBacked, Done, Request, Channel, KeyFits

LEMMA CellsStay ==
    ASSUME Grows, CellsFit, NEW k \in StoreKeys, Used(k)
    PROVE  CellFits(ledger', k)
  <1>1. ledger'[k].by = ledger[k].by /\ ledger'[k].track = ledger[k].track
    BY DEF Grows
  <1>2. CellFits(ledger, k)
    BY CellsFitIn DEF Used
  <1>3. \A c \in Clients : BackedIn(ledger, c) => BackedIn(ledger', c)
    BY BackedStays, BackedInIs
  <1>4. QED
    BY <1>1, <1>2, <1>3 DEF CellFits

LEMMA WorkingStays ==
    ASSUME TypeOK, Grows, WorkingOwned, NEW m \in working
    PROVE  Used(m.skey)' /\ ledger'[m.skey].by = m.client /\ ledger'[m.skey].track = m.track
  BY DEF Grows, WorkingOwned, TypeOK, Messages

Owned == WorkingOwned /\ CellsFit

LEMMA OwnedStays ==
    ASSUME TypeOK, Grows, Owned, working' \subseteq working,
           \A k \in StoreKeys : Used(k)' => Used(k)
    PROVE  Owned'
  <1>1. WorkingOwned'
    BY WorkingStays DEF Owned, WorkingOwned, Used
  <1>2. CellsFit'
    BY CellsStay, CellsFitIn DEF Owned, Used
  <1>3. QED
    BY <1>1, <1>2 DEF Owned

LEMMA StoreTraffic ==
    ASSUME IInv, StoreNext, UNCHANGED bridgeVars
    PROVE  Traffic' /\ Owned'
  <1>1. TypeOK /\ Traffic /\ Owned /\ Grows
    BY StoreGrows DEF IInv, Traffic, Owned
  <1>2. pc' = pc
    BY DEF bridgeVars
  <1>3. inbox \subseteq Messages /\ working \subseteq Messages
    BY <1>1 DEF TypeOK
  <1>4. ASSUME NEW m \in inbox, Accept(m) PROVE Traffic' /\ Owned'
    <2>1. m \in InFlight /\ m.client \in Clients /\ m.skey \in StoreKeys
      BY <1>3 DEF InFlight, Messages
    <2>2. /\ ledger'[m.skey].status = "pending" /\ ledger'[m.skey].by = m.client
          /\ ledger'[m.skey].track = m.track
          /\ \A k \in StoreKeys : k # m.skey => ledger'[k] = ledger[k]
      BY <1>1, <1>4, <2>1 DEF Accept, TypeOK
    <2>3. inbox' = inbox \ {m} /\ working' = working \cup {m} /\ reply' = reply
      BY <1>4 DEF Accept
    <2>4. InFlight' = InFlight
      BY <2>3 DEF InFlight
    <2>5. \A c \in Clients : ProjectBacked(c) => ProjectBacked(c)'
      BY <1>1, BackedStays
    <2>6. MessagesFit'
      <3> SUFFICES ASSUME NEW o \in InFlight
                   PROVE  /\ KeyFits(o.client, o.track, o.skey)
                          /\ o.track = "project" => ProjectBacked(o.client)'
                          /\ o.live => pc[o.client] = o.track /\ reply[o.client].kind = "none"
        BY <1>2, <2>3, <2>4 DEF MessagesFit, KeyFits
      <3>1. o.client \in Clients
        BY <1>3 DEF InFlight, Messages
      <3>2. QED
        BY <1>1, <2>5, <3>1 DEF Traffic, MessagesFit
    <2>7. OneLive'
      BY <1>1, <2>3, <2>4 DEF Traffic, OneLive
    <2>8. RepliesFit'
      BY <1>1, <1>2, <2>3, AnswersStay, RepliesFitIn DEF Traffic
    <2>9. WorkingOwned'
      <3> SUFFICES ASSUME NEW o \in working'
                   PROVE  /\ ledger'[o.skey].status # "free"
                          /\ ledger'[o.skey].by = o.client /\ ledger'[o.skey].track = o.track
        BY DEF WorkingOwned, Used
      <3>1. CASE o = m
        BY <2>2, <3>1
      <3>2. CASE o \in working
        BY <1>1, <3>2, WorkingStays DEF Owned, Used
      <3>3. QED
        BY <2>3, <3>1, <3>2
    <2>10. CellsFit'
      <3>1. KeyFits(m.client, m.track, m.skey)
        BY <1>1, <2>1 DEF Traffic, MessagesFit
      <3>2. m.track = "project" => BackedIn(ledger', m.client)
        BY <1>1, <2>1, <2>5, BackedInIs DEF Traffic, MessagesFit
      <3>3. CellFits(ledger', m.skey)
        BY <2>1, <2>2, <3>1, <3>2 DEF CellFits
      <3>4. \A k \in StoreKeys : k # m.skey /\ ledger'[k].status # "free" => CellFits(ledger', k)
        BY <1>1, <2>2, CellsStay DEF Owned, Used
      <3>5. QED
        BY <3>3, <3>4, CellsFitIn
    <2>11. QED
      BY <2>6, <2>7, <2>8, <2>9, <2>10 DEF Traffic, Owned
  <1>5. ASSUME NEW m \in inbox, Replay(m) PROVE Traffic' /\ Owned'
    <2>1. m \in InFlight /\ m.client \in Clients /\ m.skey \in StoreKeys /\ m.track \in Tracks
      BY <1>3 DEF InFlight, Messages
    <2> DEFINE r == IF ~SameBody(m) THEN Refused
                    ELSE IF ledger[m.skey].status = "done" THEN EventRow(m.skey) ELSE Failed
    <2>2. /\ inbox' = inbox \ {m} /\ Respond(m, r)
          /\ ledger' = ledger /\ working' = working
      BY <1>5 DEF Replay
    <2>3. ASSUME r.kind = "event" PROVE AnswersIn(ledger', m.client, m.track, r)
      <3>1. SameBody(m) /\ ledger[m.skey].status = "done" /\ r = EventRow(m.skey)
        BY <2>3 DEF Refused, Failed
      <3>2. ledger[m.skey].track \in Tracks
        BY <1>1, <2>1 DEF TypeOK, Cells
      <3>3. m.track = ledger[m.skey].track
        BY <2>1, <3>1, <3>2, BodyTrack DEF SameBody
      <3>4. Body(ledger[m.skey].by, m.track) = Body(m.client, m.track)
        BY <3>1, <3>3 DEF SameBody
      <3>5. KeyFits(m.client, m.track, m.skey)
        BY <1>1, <2>1 DEF Traffic, MessagesFit
      <3>6. r.event = ledger[m.skey].event /\ r.channel = Cred[ledger[m.skey].by]
        BY <3>1 DEF EventRow, Channel
      <3>7. QED
        BY <2>1, <2>2, <3>1, <3>3, <3>4, <3>5, <3>6 DEF AnswersIn
    <2> HIDE DEF r
    <2>4. Traffic'
      BY <1>1, <1>2, <2>1, <2>2, <2>3, Answering
    <2>5. Owned'
      BY <1>1, <2>2, OwnedStays DEF Used
    <2>6. QED
      BY <2>4, <2>5
  <1>6. ASSUME NEW m \in working, Commit(m) PROVE Traffic' /\ Owned'
    <2>1. m \in InFlight /\ m.client \in Clients /\ m.skey \in StoreKeys /\ m.track \in Tracks
      BY <1>3 DEF InFlight, Messages
    <2>2. /\ working' = working \ {m} /\ inbox' = inbox
          /\ Respond(m, EventRow(m.skey))
          /\ ledger' = [ledger EXCEPT ![m.skey].status = "done"]
      BY <1>6 DEF Commit
    <2>3. /\ ledger'[m.skey].status = "done" /\ ledger'[m.skey].by = ledger[m.skey].by
          /\ ledger'[m.skey].track = ledger[m.skey].track
          /\ ledger'[m.skey].event = ledger[m.skey].event
      BY <1>1, <2>1, <2>2, Settling
    <2>4. Used(m.skey) /\ ledger[m.skey].by = m.client /\ ledger[m.skey].track = m.track
      BY <1>1 DEF Owned, WorkingOwned
    <2>5. KeyFits(m.client, m.track, m.skey)
      BY <1>1, <2>1 DEF Traffic, MessagesFit
    <2>6. AnswersIn(ledger', m.client, m.track, EventRow(m.skey))
      <3>1. /\ EventRow(m.skey).event = ledger[m.skey].event
            /\ EventRow(m.skey).channel = Cred[ledger[m.skey].by]
        BY DEF EventRow, Channel
      <3>2. QED
        BY <2>1, <2>3, <2>4, <2>5, <3>1 DEF AnswersIn
    <2>7. Traffic'
      BY <1>1, <1>2, <2>1, <2>2, <2>6, Answering
    <2>8. \A k \in StoreKeys : Used(k)' => Used(k)
      BY <1>1, <2>1, <2>2, <2>4, Settling DEF Used
    <2>9. Owned'
      BY <1>1, <2>2, <2>8, OwnedStays
    <2>10. QED
      BY <2>7, <2>9
  <1>7. ASSUME NEW m \in InFlight,
               \/ m \in inbox /\ inbox' = inbox \ {m} /\ working' = working
               \/ m \in working /\ working' = working \ {m} /\ inbox' = inbox,
               Respond(m, Failed), ledger' = ledger
        PROVE  Traffic' /\ Owned'
    <2>1. Failed.kind # "event"
      BY DEF Failed
    <2>2. Traffic'
      BY <1>1, <1>2, <1>7, <2>1, Answering
    <2>3. Owned'
      BY <1>1, <1>7, OwnedStays DEF Used
    <2>4. QED
      BY <2>2, <2>3
  <1>8. ASSUME NEW m \in inbox, Drop(m) PROVE Traffic' /\ Owned'
    BY <1>7, <1>8 DEF Drop, InFlight
  <1>9. ASSUME NEW m \in working, Lose(m) PROVE Traffic' /\ Owned'
    BY <1>7, <1>9 DEF Lose, InFlight
  <1>10. ASSUME inbox' = inbox, working' = working, reply' = reply,
                \A k \in StoreKeys : Used(k)' => Used(k)
         PROVE  Traffic' /\ Owned'
    <2>1. MessagesFit'
      <3> SUFFICES ASSUME NEW o \in InFlight
                   PROVE  /\ KeyFits(o.client, o.track, o.skey)
                          /\ o.track = "project" => ProjectBacked(o.client)'
                          /\ o.live => pc[o.client] = o.track /\ reply[o.client].kind = "none"
        BY <1>2, <1>10 DEF MessagesFit, KeyFits, InFlight
      <3>1. o.client \in Clients
        BY <1>3 DEF InFlight, Messages
      <3>2. QED
        BY <1>1, <3>1, BackedStays DEF Traffic, MessagesFit
    <2>2. OneLive'
      BY <1>1, <1>10 DEF Traffic, OneLive, InFlight
    <2>3. RepliesFit'
      BY <1>1, <1>2, <1>10, AnswersStay, RepliesFitIn DEF Traffic
    <2>4. Owned'
      BY <1>1, <1>10, OwnedStays
    <2>5. QED
      BY <2>1, <2>2, <2>3, <2>4 DEF Traffic
  <1>11. ASSUME NEW k \in StoreKeys, Repair(k) PROVE Traffic' /\ Owned'
    <2>1. \A j \in StoreKeys : Used(j)' => Used(j)
      BY <1>1, <1>11, Settling DEF Repair, Used
    <2>2. QED
      BY <1>10, <1>11, <2>1 DEF Repair
  <1>12. CASE DisableDual \/ EnableDual
    BY <1>10, <1>12 DEF DisableDual, EnableDual, Used
  <1>13. QED
    BY <1>4, <1>5, <1>6, <1>8, <1>9, <1>11, <1>12 DEF StoreNext

LEMMA StoreIInv ==
    ASSUME IInv, StoreNext, UNCHANGED bridgeVars
    PROVE  IInv'
  <1>1. TypeOK'
    BY StoreType DEF IInv
  <1>2. HandlersFit' /\ ReceiptsFit'
    BY StoreGrows, StoreHandlers DEF IInv
  <1>3. QED
    BY <1>1, <1>2, StoreTraffic DEF IInv, Traffic, Owned

-----------------------------------------------------------------------------
(***************************************************************************)
(* A step of the bridge leaves the ledger alone.                           *)
(***************************************************************************)
RecordedIn(L, c, track, e) ==
    \E k \in StoreKeys :
        /\ L[k].status = "done"
        /\ L[k].event = e
        /\ L[k].track = track
        /\ Body(L[k].by, track) = Body(c, track)
        /\ KeyFits(c, track, k)
        /\ Cred[L[k].by] = Cred[c]

LEMMA RecordedInIs ==
    ASSUME NEW c, NEW track, NEW e
    PROVE  Recorded(c, track, e) <=> RecordedIn(ledger, c, track, e)
  BY DEF Recorded, RecordedIn, Done, Channel

\* HandlersFit and ReceiptsFit, about the position p, the personal event f, the
\* report t and the receipts R of a client.
HandlerFits(L, c, p, f, t) ==
    /\ p \in {"preflight", "personal"} => Args[c].key \in Keys
    /\ p = "project" => BackedIn(L, c) /\ RecordedIn(L, c, "personal", f)
    /\ t = "incomplete" => BackedIn(L, c)

ReceiptFits(L, c, r) ==
    \/ Len(r) = 1 /\ RecordedIn(L, c, "single", r[1])
    \/ /\ Len(r) = 2
       /\ RecordedIn(L, c, "personal", r[1])
       /\ RecordedIn(L, c, "project", r[2])

LEMMA HandlersFitIn ==
    /\ HandlersFit <=> \A c \in Clients : HandlerFits(ledger, c, pc[c], first[c], told[c])
    /\ HandlersFit' <=> \A c \in Clients : HandlerFits(ledger', c, pc'[c], first'[c], told'[c])
  <1>1. HandlersFit <=> \A c \in Clients : HandlerFits(ledger, c, pc[c], first[c], told[c])
    BY BackedInIs, RecordedInIs DEF HandlersFit, HandlerFits
  <1>2. HandlersFit' <=> \A c \in Clients : HandlerFits(ledger', c, pc'[c], first'[c], told'[c])
    BY BackedInIs DEF HandlersFit, HandlerFits, Recorded, RecordedIn, Done, Channel, KeyFits
  <1>3. QED
    BY <1>1, <1>2

LEMMA ReceiptsFitIn ==
    /\ ReceiptsFit <=> \A c \in Clients : \A r \in receipts[c] : ReceiptFits(ledger, c, r)
    /\ ReceiptsFit' <=> \A c \in Clients : \A r \in receipts'[c] : ReceiptFits(ledger', c, r)
  BY DEF ReceiptsFit, ReceiptFits, Recorded, RecordedIn, Done, Channel, KeyFits

LEMMA SameStoreOwned ==
    ASSUME IInv, ledger' = ledger, working' = working
    PROVE  Owned'
  BY SameLedgerGrows, OwnedStays DEF IInv, Owned, Used

LEMMA AddSingleIInv ==
    ASSUME IInv, NEW c \in Clients, AddSingle(c)
    PROVE  IInv'
  <1>1. TypeOK /\ Traffic /\ Quiet(c)
    BY IdleQuiet DEF IInv, Traffic, AddSingle, Waiting
  <1>2. PICK k \in StoreKeys :
          inbox' = inbox \cup {Message(c, "single", k)} /\ KeyFits(c, "single", k)
    BY PostFits DEF AddSingle, Tracks
  <1>3. reply[c].kind = "none"
    BY DEF IInv, RepliesFit, AddSingle, Waiting
  <1>4. Traffic'
    BY <1>1, <1>2, <1>3, Sending DEF AddSingle, Tracks
  <1>5. TypeOK'
    BY <1>1, <1>2, MessageType DEF AddSingle, TypeOK, Tracks, Waiting
  <1>6. HandlersFit'
    <2> SUFFICES ASSUME NEW d \in Clients
                 PROVE  HandlerFits(ledger', d, pc'[d], first'[d], told'[d])
      BY HandlersFitIn
    <2>1. HandlerFits(ledger, d, pc[d], first[d], told[d])
      BY HandlersFitIn DEF IInv
    <2>2. QED
      BY <1>1, <2>1 DEF AddSingle, TypeOK, HandlerFits
  <1>7. ReceiptsFit'
    BY ReceiptsFitIn DEF IInv, AddSingle
  <1>8. QED
    BY <1>4, <1>5, <1>6, <1>7, SameStoreOwned DEF IInv, Traffic, Owned, AddSingle

LEMMA AddDualIInv ==
    ASSUME IInv, NEW c \in Clients, AddDual(c)
    PROVE  IInv'
  <1>1. TypeOK /\ Traffic /\ Quiet(c)
    BY IdleQuiet DEF IInv, Traffic, AddDual, Waiting
  <1>2. reply[c].kind = "none"
    BY DEF IInv, RepliesFit, AddDual, Waiting
  <1>3. Traffic'
    BY <1>1, <1>2, Reading DEF AddDual, storeVars, Waiting
  <1>4. TypeOK'
    BY <1>1 DEF AddDual, storeVars, TypeOK
  <1>5. HandlersFit'
    <2> SUFFICES ASSUME NEW d \in Clients
                 PROVE  HandlerFits(ledger', d, pc'[d], first'[d], told'[d])
      BY HandlersFitIn
    <2>1. HandlerFits(ledger, d, pc[d], first[d], told[d])
      BY HandlersFitIn DEF IInv
    <2>2. Args[c].key \in Keys
      BY ArgsAssumption DEF AddDual
    <2>3. QED
      BY <1>1, <2>1, <2>2 DEF AddDual, storeVars, TypeOK, HandlerFits
  <1>6. ReceiptsFit'
    BY ReceiptsFitIn DEF IInv, AddDual, storeVars
  <1>7. QED
    BY <1>3, <1>4, <1>5, <1>6, SameStoreOwned DEF IInv, Traffic, Owned, AddDual, storeVars

LEMMA PreflightIInv ==
    ASSUME IInv, NEW c \in Clients, Preflight(c)
    PROVE  IInv'
  <1>1. TypeOK /\ Traffic /\ Quiet(c)
    BY IdleQuiet DEF IInv, Traffic, Preflight, Waiting
  <1>2. reply[c].kind = "none"
    BY DEF IInv, RepliesFit, Preflight, Waiting
  <1>3. Args[c].key \in Keys /\ Args[c].key # NoKey
    BY ArgsAssumption DEF IInv, HandlersFit, Preflight
  <1>4. Owned'
    BY SameStoreOwned DEF Preflight
  <1>5. ReceiptsFit'
    BY ReceiptsFitIn DEF IInv, Preflight
  <1>6. \A d \in Clients : HandlerFits(ledger, d, pc[d], first[d], told[d])
    BY HandlersFitIn DEF IInv
  <1>7. CASE Post(c, "personal") /\ pc' = [pc EXCEPT ![c] = "personal"] /\ told' = told
    <2>1. PICK k \in StoreKeys :
            inbox' = inbox \cup {Message(c, "personal", k)} /\ KeyFits(c, "personal", k)
      BY <1>3, <1>7, PostFits DEF Tracks
    <2>2. Traffic'
      BY <1>1, <1>2, <1>7, <2>1, Sending DEF Preflight, Tracks
    <2>3. TypeOK'
      BY <1>1, <1>7, <2>1, MessageType DEF Preflight, TypeOK, Tracks, Waiting
    <2>4. HandlersFit'
      BY <1>1, <1>3, <1>6, <1>7, HandlersFitIn DEF Preflight, TypeOK, HandlerFits
    <2>5. QED
      BY <1>4, <1>5, <2>2, <2>3, <2>4 DEF IInv, Traffic, Owned
  <1>8. CASE /\ pc' = [pc EXCEPT ![c] = "idle"] /\ inbox' = inbox
             /\ told' = [told EXCEPT ![c] = "refused"]
    <2>1. Traffic'
      BY <1>1, <1>2, <1>8, Reading DEF Preflight, Waiting
    <2>2. TypeOK'
      BY <1>1, <1>8 DEF Preflight, TypeOK
    <2>3. HandlersFit'
      BY <1>1, <1>6, <1>8, HandlersFitIn DEF Preflight, TypeOK, HandlerFits
    <2>4. QED
      BY <1>4, <1>5, <2>1, <2>2, <2>3 DEF IInv, Traffic, Owned
  <1>9. QED
    BY <1>7, <1>8 DEF Preflight

\* What a handler knows once it has read an answer of its own.
LEMMA ReadAnswer ==
    ASSUME IInv, NEW c \in Clients, Readable(c)
    PROVE  /\ pc[c] \in Waiting /\ Quiet(c)
           /\ reply[c].event \in Nat /\ Cached(c) \subseteq [event : Nat, channel : Channels]
           /\ RecordedIn(ledger, c, pc[c], reply[c].event)
  <1>1. pc[c] \in Waiting
    BY DEF IInv, RepliesFit, Readable
  <1>2. Quiet(c)
    BY IdleQuiet DEF IInv, Readable
  <1>3. reply[c] \in Replies /\ EVENTS \subseteq [event : Nat, channel : Channels]
    BY DEF IInv, TypeOK, Replies
  <1>4. reply[c].event \in Nat /\ Cached(c) \subseteq [event : Nat, channel : Channels]
    BY <1>3 DEF Replies, Cached
  <1>5. Recorded(c, pc[c], reply[c].event)
    BY ReadableRecorded DEF IInv
  <1>6. QED
    BY <1>1, <1>2, <1>4, <1>5, RecordedInIs

\* Reading an answer leaves none.
LEMMA ConsumeReads ==
    ASSUME TypeOK, NEW c \in Clients, Consume(c)
    PROVE  /\ reply'[c].kind = "none" /\ \A d \in Clients \ {c} : reply'[d] = reply[d]
           /\ reply' \in [Clients -> Replies]
  BY ConstantReplies DEF Consume, TypeOK, NoReply, Replies

LEMMA ReceiptKeeps ==
    ASSUME TypeOK, NEW c \in Clients, NEW r \in Seq(Nat), Receipt(c, r)
    PROVE  /\ receipts' \in [Clients -> SUBSET Seq(Nat)] /\ receipts'[c] = receipts[c] \cup {r}
           /\ \A d \in Clients \ {c} : receipts'[d] = receipts[d]
           /\ acked' \in [Clients -> BOOLEAN] /\ faults' \in 0..MaxFaults
           /\ pc' = [pc EXCEPT ![c] = "idle"]
  <1>1. receipts \in [Clients -> SUBSET Seq(Nat)] /\ receipts' = [receipts EXCEPT ![c] = @ \cup {r}]
    BY DEF TypeOK, Receipt
  <1>2. acked' \in [Clients -> BOOLEAN]
    BY DEF TypeOK, Receipt
  <1>3. faults' \in 0..MaxFaults
    BY FaultType DEF TypeOK, Receipt
  <1>4. QED
    BY <1>1, <1>2, <1>3 DEF Receipt

LEMMA SingleDoneIInv ==
    ASSUME IInv, NEW c \in Clients, SingleDone(c)
    PROVE  IInv'
  <1> DEFINE r == <<reply[c].event>>
  <1>1. TypeOK /\ Traffic
    BY DEF IInv, Traffic
  <1>2. /\ Quiet(c) /\ reply[c].event \in Nat
        /\ Cached(c) \subseteq [event : Nat, channel : Channels]
        /\ RecordedIn(ledger, c, "single", reply[c].event)
    BY ReadAnswer DEF SingleDone
  <1>3. r \in Seq(Nat) /\ Len(r) = 1 /\ r[1] = reply[c].event
    BY <1>2
  <1>4. Receipt(c, r) /\ Consume(c)
    BY DEF SingleDone
  <1> HIDE DEF r
  <1>5. Traffic'
    BY <1>1, <1>2, <1>3, <1>4, ReceiptKeeps, ConsumeReads, Reading DEF SingleDone, Waiting
  <1>6. TypeOK'
    BY <1>1, <1>2, <1>3, <1>4, ReceiptKeeps, ConsumeReads DEF SingleDone, TypeOK, Replies
  <1>7. HandlersFit'
    <2>1. \A d \in Clients : HandlerFits(ledger, d, pc[d], first[d], told[d])
      BY HandlersFitIn DEF IInv
    <2>2. pc' = [pc EXCEPT ![c] = "idle"]
      BY <1>1, <1>3, <1>4, ReceiptKeeps
    <2>3. QED
      BY <1>1, <2>1, <2>2, HandlersFitIn DEF SingleDone, TypeOK, HandlerFits
  <1>8. ReceiptsFit'
    <2>1. ReceiptFits(ledger, c, r)
      BY <1>2, <1>3 DEF ReceiptFits
    <2>2. \A d \in Clients : \A s \in receipts[d] : ReceiptFits(ledger, d, s)
      BY ReceiptsFitIn DEF IInv
    <2>3. receipts'[c] = receipts[c] \cup {r} /\ \A d \in Clients \ {c} : receipts'[d] = receipts[d]
      BY <1>1, <1>3, <1>4, ReceiptKeeps
    <2>4. \A d \in Clients : \A s \in receipts'[d] : ReceiptFits(ledger, d, s)
      BY <2>1, <2>2, <2>3
    <2>5. ledger' = ledger
      BY DEF SingleDone
    <2>6. QED
      BY <2>4, <2>5, ReceiptsFitIn
  <1>9. QED
    BY <1>5, <1>6, <1>7, <1>8, SameStoreOwned DEF IInv, Traffic, Owned, SingleDone

LEMMA PersonalDoneIInv ==
    ASSUME IInv, NEW c \in Clients, PersonalDone(c)
    PROVE  IInv'
  <1>1. TypeOK /\ Traffic
    BY DEF IInv, Traffic
  <1>2. /\ Quiet(c) /\ reply[c].event \in Nat
        /\ Cached(c) \subseteq [event : Nat, channel : Channels]
        /\ RecordedIn(ledger, c, "personal", reply[c].event)
    BY ReadAnswer DEF PersonalDone
  <1>3. ProjectBacked(c)
    BY <1>2, RecordedInIs, PersonalBacks
  <1>4. Args[c].key \in Keys /\ Args[c].key # NoKey
    BY <1>3, ArgsAssumption DEF ProjectBacked
  <1>5. PICK k \in StoreKeys :
          inbox' = inbox \cup {Message(c, "project", k)} /\ KeyFits(c, "project", k)
    BY <1>4, PostFits DEF PersonalDone, Tracks
  <1>6. Consume(c)
    BY DEF PersonalDone
  <1>7. Traffic'
    BY <1>1, <1>2, <1>3, <1>5, <1>6, ConsumeReads, Sending DEF PersonalDone, Tracks
  <1>8. TypeOK'
    BY <1>1, <1>2, <1>5, <1>6, ConsumeReads, MessageType
    DEF PersonalDone, TypeOK, Replies, Tracks, Waiting
  <1>9. HandlersFit'
    <2>1. \A d \in Clients : HandlerFits(ledger, d, pc[d], first[d], told[d])
      BY HandlersFitIn DEF IInv
    <2>2. BackedIn(ledger, c)
      BY <1>3, BackedInIs
    <2>3. QED
      BY <1>1, <1>2, <2>1, <2>2, HandlersFitIn DEF PersonalDone, TypeOK, HandlerFits
  <1>10. ReceiptsFit'
    BY ReceiptsFitIn DEF IInv, PersonalDone
  <1>11. QED
    BY <1>7, <1>8, <1>9, <1>10, SameStoreOwned DEF IInv, Traffic, Owned, PersonalDone

LEMMA ProjectDoneIInv ==
    ASSUME IInv, NEW c \in Clients, ProjectDone(c)
    PROVE  IInv'
  <1> DEFINE r == <<first[c], reply[c].event>>
  <1>1. TypeOK /\ Traffic
    BY DEF IInv, Traffic
  <1>2. /\ Quiet(c) /\ reply[c].event \in Nat
        /\ Cached(c) \subseteq [event : Nat, channel : Channels]
        /\ RecordedIn(ledger, c, "project", reply[c].event)
    BY ReadAnswer DEF ProjectDone
  <1>3. \A d \in Clients : HandlerFits(ledger, d, pc[d], first[d], told[d])
    BY HandlersFitIn DEF IInv
  <1>4. RecordedIn(ledger, c, "personal", first[c])
    BY <1>3 DEF ProjectDone, HandlerFits
  <1>5. first[c] \in Nat
    BY <1>1 DEF TypeOK
  <1>6. r \in Seq(Nat) /\ Len(r) = 2 /\ r[1] = first[c] /\ r[2] = reply[c].event
    BY <1>2, <1>5
  <1>7. Receipt(c, r) /\ Consume(c)
    BY DEF ProjectDone
  <1> HIDE DEF r
  <1>8. Traffic'
    BY <1>1, <1>2, <1>6, <1>7, ReceiptKeeps, ConsumeReads, Reading DEF ProjectDone, Waiting
  <1>9. TypeOK'
    BY <1>1, <1>2, <1>6, <1>7, ReceiptKeeps, ConsumeReads DEF ProjectDone, TypeOK, Replies
  <1>10. HandlersFit'
    <2>1. pc' = [pc EXCEPT ![c] = "idle"]
      BY <1>1, <1>6, <1>7, ReceiptKeeps
    <2>2. QED
      BY <1>1, <1>3, <2>1, HandlersFitIn DEF ProjectDone, TypeOK, HandlerFits
  <1>11. ReceiptsFit'
    <2>1. ReceiptFits(ledger, c, r)
      BY <1>2, <1>4, <1>6 DEF ReceiptFits
    <2>2. \A d \in Clients : \A s \in receipts[d] : ReceiptFits(ledger, d, s)
      BY ReceiptsFitIn DEF IInv
    <2>3. receipts'[c] = receipts[c] \cup {r} /\ \A d \in Clients \ {c} : receipts'[d] = receipts[d]
      BY <1>1, <1>6, <1>7, ReceiptKeeps
    <2>4. \A d \in Clients : \A s \in receipts'[d] : ReceiptFits(ledger, d, s)
      BY <2>1, <2>2, <2>3
    <2>5. ledger' = ledger
      BY DEF ProjectDone
    <2>6. QED
      BY <2>4, <2>5, ReceiptsFitIn
  <1>12. QED
    BY <1>8, <1>9, <1>10, <1>11, SameStoreOwned DEF IInv, Traffic, Owned, ProjectDone

\* A report names the personal child only when the handler stood behind it.
LEMMA ReportKeeps ==
    ASSUME TypeOK, NEW c \in Clients, Report(c), pc[c] # "idle",
           \A d \in Clients : HandlerFits(ledger, d, pc[d], first[d], told[d])
    PROVE  /\ told' \in [Clients -> {"nothing", "refused", "error", "conflict", "incomplete"}]
           /\ told'[c] = "incomplete" => BackedIn(ledger, c)
           /\ \A d \in Clients \ {c} : told'[d] = told[d]
  <1>1. told' \in [Clients -> {"nothing", "refused", "error", "conflict", "incomplete"}]
    BY DEF Report, TypeOK
  <1>2. told'[c] = "incomplete" => pc[c] = "project"
    BY DEF Report, TypeOK
  <1>3. \A d \in Clients \ {c} : told'[d] = told[d]
    BY DEF Report, TypeOK
  <1>4. QED
    BY <1>1, <1>2, <1>3 DEF HandlerFits

LEMMA AddFailsIInv ==
    ASSUME IInv, NEW c \in Clients, AddFails(c)
    PROVE  IInv'
  <1>1. TypeOK /\ Traffic /\ Quiet(c)
    BY IdleQuiet DEF IInv, Traffic, AddFails
  <1>2. Consume(c) /\ Report(c) /\ pc[c] # "idle"
    BY DEF AddFails, Waiting
  <1>3. Traffic'
    BY <1>1, <1>2, ConsumeReads, Reading DEF AddFails, Waiting
  <1>4. \A d \in Clients : HandlerFits(ledger, d, pc[d], first[d], told[d])
    BY HandlersFitIn DEF IInv
  <1>5. TypeOK'
    BY <1>1, <1>2, <1>4, ConsumeReads, ReportKeeps DEF AddFails, TypeOK, Replies
  <1>6. HandlersFit'
    <2> SUFFICES ASSUME NEW d \in Clients
                 PROVE  HandlerFits(ledger', d, pc'[d], first'[d], told'[d])
      BY HandlersFitIn
    <2>1. CASE d = c
      BY <1>1, <1>2, <1>4, <2>1, ReportKeeps DEF AddFails, TypeOK, HandlerFits
    <2>2. CASE d # c
      BY <1>1, <1>2, <1>4, <2>2, ReportKeeps DEF AddFails, TypeOK, HandlerFits
    <2>3. QED
      BY <2>1, <2>2
  <1>7. ReceiptsFit'
    BY ReceiptsFitIn DEF IInv, AddFails
  <1>8. QED
    BY <1>3, <1>5, <1>6, <1>7, SameStoreOwned DEF IInv, Traffic, Owned, AddFails

\* Cells rely on the ledger alone.
LEMMA SameLedgerCells ==
    ASSUME IInv, ledger' = ledger
    PROVE  CellsFit'
  BY CellsFitIn DEF IInv

LEMMA TimeoutIInv ==
    ASSUME IInv, NEW c \in Clients, Timeout(c)
    PROVE  IInv'
  <1>1. TypeOK /\ Traffic /\ WorkingOwned
    BY DEF IInv, Traffic
  <1>2. Consume(c) /\ Report(c) /\ pc[c] # "idle"
    BY DEF Timeout
  <1>3. \A d \in Clients \ {c} : pc'[d] = pc[d]
    BY DEF Timeout, IInv, TypeOK
  <1>4. Traffic' /\ WorkingOwned'
    BY <1>1, <1>2, <1>3, ConsumeReads, Abandoning DEF Timeout
  <1>5. \A d \in Clients : HandlerFits(ledger, d, pc[d], first[d], told[d])
    BY HandlersFitIn DEF IInv
  <1>6. TypeOK'
    <2>1. inbox' \subseteq Messages /\ working' \subseteq Messages
      BY <1>1, OrphanType DEF Timeout, TypeOK
    <2>2. faults' \in 0..MaxFaults
      BY <1>1, FaultType DEF Timeout
    <2>3. QED
      BY <1>1, <1>2, <1>5, <2>1, <2>2, ConsumeReads, ReportKeeps DEF Timeout, TypeOK, Replies
  <1>7. HandlersFit'
    <2> SUFFICES ASSUME NEW d \in Clients
                 PROVE  HandlerFits(ledger', d, pc'[d], first'[d], told'[d])
      BY HandlersFitIn
    <2>1. CASE d = c
      BY <1>1, <1>2, <1>5, <2>1, ReportKeeps DEF Timeout, TypeOK, HandlerFits
    <2>2. CASE d # c
      BY <1>1, <1>2, <1>5, <2>2, ReportKeeps DEF Timeout, TypeOK, HandlerFits
    <2>3. QED
      BY <2>1, <2>2
  <1>8. ReceiptsFit'
    BY ReceiptsFitIn DEF IInv, Timeout
  <1>9. CellsFit'
    BY SameLedgerCells DEF Timeout
  <1>10. QED
    BY <1>4, <1>6, <1>7, <1>8, <1>9 DEF IInv, Traffic

LEMMA RestartIInv ==
    ASSUME IInv, Restart
    PROVE  IInv'
  <1>1. TypeOK /\ Traffic /\ WorkingOwned
    BY DEF IInv, Traffic
  <1>2. Traffic' /\ WorkingOwned'
    BY <1>1, Abandoning DEF Restart, NoReply
  <1>3. TypeOK'
    <2>1. inbox' \subseteq Messages /\ working' \subseteq Messages
      BY <1>1, OrphanType DEF Restart, TypeOK
    <2>2. faults' \in 0..MaxFaults
      BY <1>1, FaultType DEF Restart
    <2>3. reply' \in [Clients -> Replies]
      BY ConstantReplies DEF Restart
    <2>4. mode' \in Modes
      BY ServerModesAssumption DEF Restart
    <2>5. QED
      BY <1>1, <2>1, <2>2, <2>3, <2>4 DEF Restart, TypeOK, Replies
  <1>4. HandlersFit'
    <2>1. \A d \in Clients : HandlerFits(ledger, d, pc[d], first[d], told[d])
      BY HandlersFitIn DEF IInv
    <2>2. QED
      BY <2>1, HandlersFitIn DEF Restart, HandlerFits
  <1>5. ReceiptsFit'
    BY ReceiptsFitIn DEF IInv, Restart
  <1>6. CellsFit'
    BY SameLedgerCells DEF Restart
  <1>7. QED
    BY <1>2, <1>3, <1>4, <1>5, <1>6 DEF IInv, Traffic

-----------------------------------------------------------------------------
(***************************************************************************)
(* The invariant, and what follows from it.                                *)
(***************************************************************************)
LEMMA InitIInv == Init => IInv
  <1> SUFFICES ASSUME Init PROVE IInv
    OBVIOUS
  <1>1. TypeOK
    BY InitType
  <1>2. InFlight = {} /\ inbox = {} /\ working = {}
    BY DEF Init, StoreInit, InFlight
  <1>3. \A k \in StoreKeys : ~Used(k)
    BY DEF Init, StoreInit, Used, Free
  <1>4. MessagesFit /\ OneLive /\ WorkingOwned
    BY <1>2 DEF MessagesFit, OneLive, WorkingOwned
  <1>5. CellsFit
    BY <1>3 DEF CellsFit
  <1>6. RepliesFit
    BY DEF Init, StoreInit, RepliesFit, NoReply
  <1>7. HandlersFit /\ ReceiptsFit
    BY DEF Init, HandlersFit, ReceiptsFit
  <1>8. QED
    BY <1>1, <1>4, <1>5, <1>6, <1>7 DEF IInv

LEMMA NextIInv == IInv /\ [Next]_vars => IInv'
  <1> SUFFICES ASSUME IInv, [Next]_vars PROVE IInv'
    OBVIOUS
  <1>1. CASE StoreNext /\ UNCHANGED bridgeVars
    BY <1>1, StoreIInv
  <1>2. ASSUME NEW c \in Clients, Add(c) PROVE IInv'
    BY <1>2, AddSingleIInv, AddDualIInv, PreflightIInv, SingleDoneIInv, PersonalDoneIInv,
       ProjectDoneIInv, AddFailsIInv DEF Add
  <1>3. ASSUME NEW c \in Clients, Timeout(c) PROVE IInv'
    BY <1>3, TimeoutIInv
  <1>4. CASE Restart
    BY <1>4, RestartIInv
  <1>5. CASE UNCHANGED vars
    <2>1. TypeOK' /\ MessagesFit' /\ OneLive' /\ WorkingOwned'
      BY <1>5 DEF vars, storeVars, bridgeVars, IInv, TypeOK, MessagesFit, OneLive, WorkingOwned,
         InFlight, KeyFits, ProjectBacked, Used, Done, Request, Channel
    <2>2. CellsFit'
      BY <1>5, SameLedgerCells DEF vars, storeVars
    <2>3. RepliesFit'
      BY <1>5, RepliesFitIn DEF IInv, vars, storeVars, bridgeVars
    <2>4. HandlersFit' /\ ReceiptsFit'
      BY <1>5, HandlersFitIn, ReceiptsFitIn DEF IInv, vars, storeVars, bridgeVars
    <2>5. QED
      BY <2>1, <2>2, <2>3, <2>4 DEF IInv
  <1>6. QED
    BY <1>1, <1>2, <1>3, <1>4, <1>5 DEF Next

LEMMA SpecIInv == Spec => []IInv
  BY InitIInv, NextIInv, PTL DEF Spec

\* Type correctness for any number of clients, keys and faults.
THEOREM TypeOKTheorem == Spec => []TypeOK
  <1>1. IInv => TypeOK
    BY DEF IInv
  <1>2. QED
    BY <1>1, SpecIInv, PTL

\* The three forms of store keys never meet, and a key is found from its form.
LEMMA KeyForms ==
    ASSUME NEW c, NEW t \in Tracks, NEW k, KeyFits(c, t, ProjectKey(k))
    PROVE  t = "project" /\ Args[c].key = k /\ k \in Keys
  BY DEF KeyFits, Tracks

\* A keyed request has each track under one store key only: a repeated request,
\* whatever happened to the earlier ones, is not written a second time.
THEOREM WrittenOnceTheorem == Spec => []WrittenOnce
  <1>1. IInv => WrittenOnce
    <2> SUFFICES ASSUME IInv, NEW j \in StoreKeys, NEW k \in StoreKeys, Used(j), Used(k),
                        Request(j) = Request(k), Request(j).key # NoKey,
                        ledger[j].track = ledger[k].track
                 PROVE  j = k
      BY DEF WrittenOnce
    <2>1. KeyFits(ledger[j].by, ledger[j].track, j) /\ KeyFits(ledger[k].by, ledger[k].track, k)
      BY DEF IInv, CellsFit
    <2>2. QED
      BY <2>1 DEF KeyFits, Request
  <1>2. QED
    BY <1>1, SpecIInv, PTL

\* The two children of a dual write belong to one request and one credential.
THEOREM ChildrenAgreeTheorem == Spec => []ChildrenAgree
  <1>1. IInv => ChildrenAgree
    <2> SUFFICES ASSUME IInv, NEW k \in Keys, Used(ProjectKey(k))
                 PROVE  /\ Done(PlainKey(k))
                        /\ ledger[PlainKey(k)].track = "personal"
                        /\ Request(PlainKey(k)) = Request(ProjectKey(k))
                        /\ Channel(PlainKey(k)) = Channel(ProjectKey(k))
      BY DEF ChildrenAgree
    <2> DEFINE b == ledger[ProjectKey(k)].by
    <2>1. ProjectKey(k) \in StoreKeys
      BY KeyTypes
    <2>2. ledger[ProjectKey(k)].track \in Tracks
      BY <2>1 DEF IInv, TypeOK, Cells
    <2>3. KeyFits(b, ledger[ProjectKey(k)].track, ProjectKey(k))
      BY <2>1 DEF IInv, CellsFit
    <2>4. ledger[ProjectKey(k)].track = "project" /\ Args[b].key = k
      BY <2>2, <2>3, KeyForms
    <2>5. ProjectBacked(b)
      BY <2>1, <2>4 DEF IInv, CellsFit
    <2>6. QED
      BY <2>4, <2>5 DEF ProjectBacked, Request, Channel
  <1>2. QED
    BY <1>1, SpecIInv, PTL

\* A receipt stands for recorded writes of the client's own request.
THEOREM ReceiptSoundTheorem == Spec => []ReceiptSound
  <1>1. IInv => ReceiptSound
    <2> SUFFICES ASSUME IInv, NEW c \in Clients, NEW r \in receipts[c], NEW i \in DOMAIN r
                 PROVE  \E k \in StoreKeys :
                           /\ Done(k)
                           /\ ledger[k].event = r[i]
                           /\ ledger[k].track = (IF Len(r) = 1 THEN "single"
                                                  ELSE IF i = 1 THEN "personal" ELSE "project")
                           /\ Body(ledger[k].by, ledger[k].track) = Body(c, ledger[k].track)
                           /\ Cred[c] \in {Disabled, Channel(k)}
      BY DEF ReceiptSound
    <2>1. \A t, e : Recorded(c, t, e) =>
            \E k \in StoreKeys :
               /\ Done(k) /\ ledger[k].event = e /\ ledger[k].track = t
               /\ Body(ledger[k].by, ledger[k].track) = Body(c, ledger[k].track)
               /\ Cred[c] \in {Disabled, Channel(k)}
      BY DEF Recorded
    <2>2. r \in Seq(Nat)
      BY DEF IInv, TypeOK
    <2>3. CASE Len(r) = 1 /\ Recorded(c, "single", r[1])
      <3>1. i = 1
        BY <2>2, <2>3
      <3>2. QED
        BY <2>1, <2>3, <3>1
    <2>4. CASE Len(r) = 2 /\ Recorded(c, "personal", r[1]) /\ Recorded(c, "project", r[2])
      <3>1. i \in {1, 2}
        BY <2>2, <2>4
      <3>2. QED
        BY <2>1, <2>4, <3>1
    <2>5. QED
      BY <2>3, <2>4 DEF IInv, ReceiptsFit
  <1>2. QED
    BY <1>1, SpecIInv, PTL

\* "Personal extraction is recorded" is true whenever it is reported.
THEOREM IncompleteMeansRecordedTheorem == Spec => []IncompleteMeansRecorded
  <1>1. IInv => IncompleteMeansRecorded
    BY DEF IInv, HandlersFit, IncompleteMeansRecorded, ProjectBacked
  <1>2. QED
    BY <1>1, SpecIInv, PTL

\* All receipts of a keyed request are equal, so the composite event ID is stable.
THEOREM ReceiptStableTheorem == Spec => []ReceiptStable
  <1>1. IInv => ReceiptStable
    <2> SUFFICES ASSUME IInv, NEW c \in Clients, Args[c].key # NoKey,
                        NEW r \in receipts[c], NEW s \in receipts[c]
                 PROVE  r = s
      BY DEF ReceiptStable
    <2> DEFINE plain == ledger[PlainKey(Args[c].key)]
               project == ledger[ProjectKey(Args[c].key)]
    <2>1. \A e : Recorded(c, "single", e) => plain.track = "single" /\ e = plain.event
      BY DEF Recorded, KeyFits
    <2>2. \A e : Recorded(c, "personal", e) => plain.track = "personal" /\ e = plain.event
      BY DEF Recorded, KeyFits
    <2>3. \A e : Recorded(c, "project", e) => e = project.event
      BY DEF Recorded, KeyFits
    <2>4. r \in Seq(Nat) /\ s \in Seq(Nat)
      BY DEF IInv, TypeOK
    <2>5. \A q \in receipts[c] :
            \/ plain.track = "single" /\ Len(q) = 1 /\ q[1] = plain.event
            \/ plain.track = "personal" /\ Len(q) = 2 /\ q[1] = plain.event /\ q[2] = project.event
      BY <2>1, <2>2, <2>3 DEF IInv, ReceiptsFit
    <2> HIDE DEF plain, project
    <2>6. Len(r) = Len(s) /\ \A i \in 1..Len(r) : r[i] = s[i]
      BY <2>4, <2>5
    <2>7. r \in [1..Len(r) -> Nat] /\ s \in [1..Len(s) -> Nat]
      BY <2>4
    <2>8. QED
      BY <2>6, <2>7
  <1>2. QED
    BY <1>1, SpecIInv, PTL

-----------------------------------------------------------------------------
(***************************************************************************)
(* The event queries: what the process-local cache and the durable rows    *)
(* answer, and to whom.                                                    *)
(***************************************************************************)
\* An old event id is not handed out again.
LEMMA AcceptIds ==
    ASSUME EventInv, NEW m \in inbox, Accept(m)
    PROVE  EventIds'
  <1>1. TypeOK /\ minted \in Nat /\ m.skey \in StoreKeys
    BY DEF EventInv, IInv, TypeOK, Messages
  <1>2. /\ ledger'[m.skey].event = minted + 1 /\ minted' = minted + 1
        /\ \A k \in StoreKeys : k # m.skey => ledger'[k] = ledger[k]
    BY <1>1 DEF Accept, TypeOK
  <1>3. \A k \in StoreKeys : k # m.skey /\ Used(k)' => Used(k) /\ ledger'[k].event \in 1..minted
    BY <1>2 DEF EventInv, EventIds, Used
  <1>4. \A j, k \in StoreKeys :
          Used(j)' /\ Used(k)' /\ ledger'[j].event = ledger'[k].event => j = k
    BY <1>1, <1>2, <1>3 DEF EventInv, EventIds
  <1>5. \A k \in StoreKeys : Used(k)' => ledger'[k].event \in 1..minted'
    BY <1>1, <1>2, <1>3
  <1>6. QED
    BY <1>4, <1>5 DEF EventIds

LEMMA SameIds ==
    ASSUME EventIds, minted' = minted, Grows,
           \A k \in StoreKeys : Used(k)' => Used(k)
    PROVE  EventIds'
  <1>1. \A k \in StoreKeys : Used(k)' => Used(k) /\ ledger'[k].event = ledger[k].event
    BY DEF Grows
  <1>2. QED
    BY <1>1 DEF EventIds

LEMMA StoreIds ==
    ASSUME EventInv, StoreNext
    PROVE  EventIds'
  <1>1. TypeOK /\ Grows /\ EventIds
    BY StoreGrows DEF EventInv, IInv
  <1>2. ASSUME NEW m \in inbox, Accept(m) PROVE EventIds'
    BY <1>2, AcceptIds
  <1>3. ASSUME NEW k \in StoreKeys, Used(k), ledger' = [ledger EXCEPT ![k].status = "done"],
               minted' = minted
        PROVE  EventIds'
    <2>1. \A j \in StoreKeys : Used(j)' => Used(j)
      BY <1>1, <1>3, Settling DEF Used
    <2>2. QED
      BY <1>1, <1>3, <2>1, SameIds
  <1>4. ASSUME NEW m \in working, Commit(m) PROVE EventIds'
    <2>1. m.skey \in StoreKeys /\ Used(m.skey)
      BY DEF EventInv, IInv, TypeOK, Messages, WorkingOwned
    <2>2. QED
      BY <1>3, <1>4, <2>1 DEF Commit
  <1>5. ASSUME NEW k \in StoreKeys, Repair(k) PROVE EventIds'
    BY <1>3, <1>5 DEF Repair, Used
  <1>6. CASE ledger' = ledger /\ minted' = minted
    BY <1>1, <1>6, SameIds DEF Used
  <1>7. QED
    BY <1>2, <1>4, <1>5, <1>6 DEF StoreNext, Replay, Drop, Lose, DisableDual, EnableDual

LEMMA CacheStays ==
    ASSUME CacheFits, Grows, EVENTS' \subseteq EVENTS
    PROVE  CacheFits'
  <1> SUFFICES ASSUME NEW v \in EVENTS'
               PROVE  \E k \in StoreKeys :
                         /\ ledger'[k].status = "done" /\ ledger'[k].event = v.event
                         /\ Cred[ledger'[k].by] = v.channel
    BY DEF CacheFits, Done, Channel
  <1>1. PICK k \in StoreKeys : Done(k) /\ ledger[k].event = v.event /\ Channel(k) = v.channel
    BY DEF CacheFits
  <1>2. Used(k)
    BY <1>1 DEF Used, Done
  <1>3. Done(k)' /\ ledger'[k].by = ledger[k].by /\ ledger'[k].event = ledger[k].event
    BY <1>1, <1>2 DEF Grows
  <1>4. QED
    BY <1>1, <1>3 DEF Done, Channel

\* What a handler caches is the recorded event it was answered with.
LEMMA CacheGrows ==
    ASSUME EventInv, NEW c \in Clients, Readable(c), EVENTS' = Cached(c), ledger' = ledger
    PROVE  CacheFits'
  <1> SUFFICES ASSUME NEW v \in EVENTS'
               PROVE  \E k \in StoreKeys :
                         Done(k) /\ ledger[k].event = v.event /\ Channel(k) = v.channel
    BY DEF CacheFits, Done, Channel
  <1>1. CASE v \in EVENTS
    BY <1>1 DEF EventInv, CacheFits
  <1>2. CASE v = [event |-> reply[c].event, channel |-> reply[c].channel]
    <2>1. Answers(c, pc[c], reply[c])
      BY DEF EventInv, IInv, RepliesFit, Readable
    <2>2. QED
      BY <1>2, <2>1 DEF Answers
  <1>3. QED
    BY <1>1, <1>2 DEF Cached

LEMMA NextEventInv == EventInv /\ [Next]_vars => EventInv'
  <1> SUFFICES ASSUME EventInv, [Next]_vars PROVE EventInv'
    OBVIOUS
  <1>1. IInv' /\ TypeOK /\ EventIds /\ CacheFits
    BY NextIInv DEF EventInv, IInv
  <1>2. CASE StoreNext /\ UNCHANGED bridgeVars
    BY <1>1, <1>2, StoreIds, StoreGrows, CacheStays DEF EventInv, bridgeVars
  <1>3. ASSUME ledger' = ledger, minted' = minted PROVE EventIds' /\ Grows
    BY <1>1, <1>3, SameLedgerGrows, SameIds DEF Used
  <1>4. CASE ledger' = ledger /\ minted' = minted /\ EVENTS' \subseteq EVENTS
    BY <1>1, <1>3, <1>4, CacheStays DEF EventInv
  <1>5. ASSUME NEW c \in Clients, SingleDone(c) \/ PersonalDone(c) \/ ProjectDone(c)
        PROVE  EventInv'
    <2>1. Readable(c) /\ EVENTS' = Cached(c) /\ ledger' = ledger /\ minted' = minted
      BY <1>5 DEF SingleDone, PersonalDone, ProjectDone
    <2>2. QED
      BY <1>1, <1>3, <2>1, CacheGrows DEF EventInv
  <1>6. ASSUME NEW c \in Clients, AddSingle(c) \/ AddDual(c) \/ Preflight(c) \/ AddFails(c) \/ Timeout(c)
        PROVE  EventInv'
    BY <1>4, <1>6 DEF AddSingle, AddDual, Preflight, AddFails, Timeout, storeVars
  <1>7. CASE Restart
    BY <1>4, <1>7 DEF Restart
  <1>8. CASE UNCHANGED vars
    BY <1>4, <1>8 DEF vars, storeVars, bridgeVars
  <1>9. QED
    BY <1>2, <1>5, <1>6, <1>7, <1>8 DEF Next, Add

LEMMA SpecEventInv == Spec => []EventInv
  <1>1. Init => EventInv
    BY InitIInv DEF Init, StoreInit, EventInv, EventIds, CacheFits, Used, Free
  <1>2. QED
    BY <1>1, NextEventInv, PTL DEF Spec

-----------------------------------------------------------------------------
\* All that is known of an event is the one row recorded under its id.
LEMMA OneRow ==
    ASSUME EventInv, NEW k \in StoreKeys, Used(k)
    PROVE  /\ Rows(ledger[k].event) = {k}
           /\ \A v \in EVENTS : v.event = ledger[k].event => Done(k) /\ v.channel = Channel(k)
  <1>1. Rows(ledger[k].event) = {k}
    BY DEF Rows, EventInv, EventIds, Used
  <1>2. ASSUME NEW v \in EVENTS, v.event = ledger[k].event PROVE Done(k) /\ v.channel = Channel(k)
    <2>1. PICK j \in StoreKeys : Done(j) /\ ledger[j].event = v.event /\ Channel(j) = v.channel
      BY DEF EventInv, CacheFits
    <2>2. j = k
      BY <1>2, <2>1 DEF EventInv, EventIds, Used, Done
    <2>3. QED
      BY <2>1, <2>2
  <1>3. QED
    BY <1>1, <1>2

\* Nothing about an event is told to another credential, for any number of
\* clients and whatever was cached, lost or retried.
THEOREM EventsPrivateTheorem == Spec => []EventsPrivate
  <1>1. EventInv => EventsPrivate
    <2> SUFFICES ASSUME EventInv, NEW c \in Clients, NEW k \in StoreKeys, Used(k),
                        EventStatus(c, ledger[k].event) # "not found"
                 PROVE  Cred[c] \in {Disabled, Channel(k)}
      BY DEF EventsPrivate
    <2> DEFINE cached == {v \in EVENTS : v.event = ledger[k].event}
    <2>1. CASE cached # {}
      <3>1. \A v \in cached : CanRead(c, v.channel)
        BY <2>1 DEF EventStatus
      <3>2. \A v \in cached : v.channel = Channel(k)
        BY OneRow
      <3>3. QED
        BY <2>1, <3>1, <3>2 DEF CanRead
    <2>2. CASE cached = {}
      <3>1. CanRead(c, Channel(k))
        BY <2>2, OneRow DEF EventStatus
      <3>2. QED
        BY <3>1 DEF CanRead
    <2>3. QED
      BY <2>1, <2>2
  <1>2. QED
    BY <1>1, SpecEventInv, PTL

\* Both event queries find every receipt ever issued, after any restart.
THEOREM ReceiptQueryableTheorem == Spec => []ReceiptQueryable
  <1>1. EventInv => ReceiptQueryable
    <2> SUFFICES ASSUME EventInv, NEW c \in Clients, NEW r \in receipts[c]
                 PROVE  /\ ReceiptStatus(c, r) = "SUCCEEDED"
                        /\ \A i \in DOMAIN r : r[i] \in ListEvents(c)
      BY DEF ReceiptQueryable
    <2>1. r \in Seq(Nat)
      BY DEF EventInv, IInv, TypeOK
    <2>2. \/ Len(r) = 1 /\ Recorded(c, "single", r[1])
          \/ Len(r) = 2 /\ Recorded(c, "personal", r[1]) /\ Recorded(c, "project", r[2])
      BY DEF EventInv, IInv, ReceiptsFit
    <2>3. \A i \in DOMAIN r : \E t : Recorded(c, t, r[i])
      <3>1. DOMAIN r = 1..Len(r)
        BY <2>1
      <3>2. DOMAIN r \subseteq {1, 2} /\ (2 \in DOMAIN r => Len(r) = 2)
        BY <2>2, <3>1
      <3>3. QED
        BY <2>2, <3>2
    <2>4. ASSUME NEW i \in DOMAIN r
          PROVE  EventStatus(c, r[i]) = "SUCCEEDED" /\ r[i] \in ListEvents(c)
      <3>1. PICK k \in StoreKeys : Done(k) /\ ledger[k].event = r[i] /\ Channel(k) = Cred[c]
        BY <2>3 DEF Recorded
      <3>2. Used(k) /\ CanRead(c, Channel(k))
        BY <3>1 DEF Used, Done, CanRead
      <3>3. /\ Rows(r[i]) = {k}
            /\ \A v \in EVENTS : v.event = r[i] => v.channel = Channel(k)
        BY <3>1, <3>2, OneRow
      <3>4. EventStatus(c, r[i]) = "SUCCEEDED"
        BY <3>1, <3>2, <3>3 DEF EventStatus, Done
      <3>5. r[i] \in ListEvents(c)
        BY <3>1, <3>2 DEF ListEvents, Used
      <3>6. QED
        BY <3>4, <3>5
    <2>5. 1 \in DOMAIN r
      BY <2>1, <2>2
    <2>6. {EventStatus(c, r[i]) : i \in DOMAIN r} = {"SUCCEEDED"}
      BY <2>4, <2>5
    <2>7. ReceiptStatus(c, r) = "SUCCEEDED"
      BY <2>6 DEF ReceiptStatus
    <2>8. QED
      BY <2>4, <2>7
  <1>2. QED
    BY <1>1, SpecEventInv, PTL
==============================================================================
