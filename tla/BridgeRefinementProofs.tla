------------------------ MODULE BridgeRefinementProofs ------------------------
(***************************************************************************)
(* Proof that BridgeAdd implements DurableAdd, for any instance: the steps *)
(* that settle an intent record it, the step that issues the first receipt *)
(* grants it, and all others, retries, losses and restarts among them,     *)
(* leave the abstract state alone.                                         *)
(***************************************************************************)
EXTENDS BridgeAddProofs

\* The three forms of store keys are distinct and each is injective.
LEMMA KeysApart ==
    ASSUME NEW k, NEW l
    PROVE  /\ PlainKey(k) = PlainKey(l) => k = l
           /\ ProjectKey(k) = ProjectKey(l) => k = l
           /\ PlainKey(k) # ProjectKey(l)
           /\ PlainKey(k) # AnonKey(l)
           /\ ProjectKey(k) # AnonKey(l)
  BY DEF PlainKey, ProjectKey, AnonKey

\* Under a key as the client sent it only its single and personal writes are filed.
LEMMA PlainForms ==
    ASSUME NEW c, NEW t \in Tracks, NEW k, KeyFits(c, t, PlainKey(k))
    PROVE  t \in {"single", "personal"} /\ Args[c].key = k
  <1>1. CASE t = "single" /\ Args[c].key = NoKey
    <2>1. PICK a \in Anon : PlainKey(k) = AnonKey(a)
      BY <1>1 DEF KeyFits
    <2>2. QED
      BY <2>1, KeysApart
  <1>2. CASE t = "project"
    <2>1. PlainKey(k) = ProjectKey(Args[c].key)
      BY <1>2 DEF KeyFits
    <2>2. QED
      BY <2>1, KeysApart
  <1>3. CASE t # "project" /\ ~(t = "single" /\ Args[c].key = NoKey)
    <2>1. PlainKey(k) = PlainKey(Args[c].key)
      BY <1>3 DEF KeyFits
    <2>2. QED
      BY <1>3, <2>1, KeysApart DEF Tracks
  <1>4. QED
    BY <1>1, <1>2, <1>3

LEMMA SplitFitsInit == Init => SplitFits
  BY DEF Init, StoreInit, SplitFits, InFlight, Used, Free

LEMMA SplitFitsNext ==
    ASSUME IInv, SplitFits, [Next]_vars
    PROVE  SplitFits'
  <1>1. TypeOK
    BY DEF IInv
  <1>2. ASSUME Grows, \A k \in StoreKeys : Used(k)' => Used(k)
        PROVE  \A k \in StoreKeys :
                  ledger'[k].status # "free" /\ ledger'[k].track # "single" => Args[ledger'[k].by].infer
    BY <1>2 DEF Grows, SplitFits, Used
  <1>3. ASSUME NEW m \in inbox, Accept(m), UNCHANGED bridgeVars PROVE SplitFits'
    <2>1. m.skey \in StoreKeys /\ m \in InFlight
      BY <1>1 DEF TypeOK, Messages, InFlight
    <2>2. /\ ledger'[m.skey].by = m.client /\ ledger'[m.skey].track = m.track
          /\ \A k \in StoreKeys : k # m.skey => ledger'[k] = ledger[k]
      BY <1>1, <1>3, <2>1 DEF Accept, TypeOK
    <2>3. InFlight' = InFlight
      BY <1>3 DEF Accept, InFlight
    <2>4. pc' = pc
      BY <1>3 DEF bridgeVars
    <2>5. QED
      BY <2>1, <2>2, <2>3, <2>4 DEF SplitFits, Used
  <1>4. ASSUME StoreNext, UNCHANGED bridgeVars, InFlight' \subseteq InFlight,
               \A k \in StoreKeys : Used(k)' => Used(k)
        PROVE  SplitFits'
    BY <1>1, <1>2, <1>4, StoreGrows DEF SplitFits, Used, bridgeVars
  <1>5. ASSUME NEW m \in working, Commit(m), UNCHANGED bridgeVars PROVE SplitFits'
    <2>1. m.skey \in StoreKeys /\ Used(m.skey)
      BY <1>1 DEF IInv, WorkingOwned, TypeOK, Messages
    <2>2. \A k \in StoreKeys : Used(k)' => Used(k)
      BY <1>1, <1>5, <2>1, Settling DEF Commit, Used
    <2>3. InFlight' \subseteq InFlight
      BY <1>5 DEF Commit, InFlight
    <2>4. QED
      BY <1>4, <1>5, <2>2, <2>3 DEF StoreNext
  <1>6. ASSUME NEW k \in StoreKeys, Repair(k), UNCHANGED bridgeVars PROVE SplitFits'
    <2>1. \A j \in StoreKeys : Used(j)' => Used(j)
      BY <1>1, <1>6, Settling DEF Repair, Used
    <2>2. InFlight' \subseteq InFlight
      BY <1>6 DEF Repair, InFlight
    <2>3. QED
      BY <1>4, <1>6, <2>1, <2>2 DEF StoreNext
  <1>7. ASSUME NEW m \in inbox, Replay(m) \/ Drop(m), UNCHANGED bridgeVars PROVE SplitFits'
    BY <1>4, <1>7 DEF StoreNext, Replay, Drop, InFlight, Used
  <1>8. ASSUME NEW m \in working, Lose(m), UNCHANGED bridgeVars PROVE SplitFits'
    BY <1>4, <1>8 DEF StoreNext, Lose, InFlight, Used
  <1>9. CASE (DisableDual \/ EnableDual) /\ UNCHANGED bridgeVars
    BY <1>4, <1>9 DEF StoreNext, DisableDual, EnableDual, InFlight, Used
  <1>10. ASSUME ledger' = ledger,
                \A n \in InFlight' : \E m \in InFlight : n.client = m.client /\ n.track = m.track,
                \A d \in Clients : pc'[d] = pc[d] \/ pc'[d] = "idle" \/ pc'[d] = "single"
         PROVE  SplitFits'
    BY <1>10 DEF SplitFits, Used
  <1>11. ASSUME NEW c \in Clients, NEW t \in Tracks, Args[c].infer \/ t = "single",
                Post(c, t), t # "single" => Args[c].key # NoKey,
                ledger' = ledger, working' = working, pc' = [pc EXCEPT ![c] = t]
         PROVE  SplitFits'
    <2>1. PICK k \in StoreKeys : inbox' = inbox \cup {Message(c, t, k)}
      BY <1>11, PostFits
    <2>2. InFlight' = InFlight \cup {Message(c, t, k)}
      BY <1>11, <2>1 DEF InFlight
    <2>3. Message(c, t, k).client = c /\ Message(c, t, k).track = t
      BY DEF Message
    <2>4. \A n \in InFlight' : n.track # "single" => Args[n.client].infer
      BY <1>11, <2>2, <2>3 DEF SplitFits
    <2>5. \A d \in Clients : pc'[d] = (IF d = c THEN t ELSE pc[d])
      BY <1>1, <1>11 DEF TypeOK
    <2>6. \A d \in Clients : pc'[d] \in {"preflight", "personal", "project"} => Args[d].infer
      BY <1>11, <2>5 DEF SplitFits
    <2>7. QED
      BY <1>11, <2>4, <2>6 DEF SplitFits, Used
  <1>12. ASSUME NEW c \in Clients, Add(c) PROVE SplitFits'
    <2>1. CASE AddSingle(c)
      BY <1>11, <2>1 DEF AddSingle, Tracks
    <2>2. CASE AddDual(c)
      <3>1. Args[c].infer
        BY <2>2 DEF AddDual, IsDual
      <3>2. InFlight' = InFlight /\ ledger' = ledger
        BY <2>2 DEF AddDual, storeVars, InFlight
      <3>3. \A d \in Clients : pc'[d] = (IF d = c THEN "preflight" ELSE pc[d])
        BY <1>1, <2>2 DEF AddDual, TypeOK
      <3>4. QED
        BY <3>1, <3>2, <3>3 DEF SplitFits, Used
    <2>3. CASE Preflight(c)
      <3>1. Args[c].infer /\ Args[c].key # NoKey
        BY <2>3, ArgsAssumption DEF Preflight, SplitFits, IInv, HandlersFit
      <3>2. CASE Post(c, "personal") /\ pc' = [pc EXCEPT ![c] = "personal"]
        BY <1>11, <2>3, <3>1, <3>2 DEF Preflight, Tracks
      <3>3. CASE inbox' = inbox /\ pc' = [pc EXCEPT ![c] = "idle"]
        BY <1>1, <1>10, <2>3, <3>3 DEF Preflight, TypeOK, InFlight
      <3>4. QED
        BY <2>3, <3>2, <3>3 DEF Preflight
    <2>4. CASE PersonalDone(c)
      <3>1. Args[c].infer /\ Args[c].key # NoKey
        BY <2>4, ArgsAssumption DEF PersonalDone, SplitFits, IInv, HandlersFit
      <3>2. QED
        BY <1>11, <2>4, <3>1 DEF PersonalDone, Tracks
    <2>5. CASE SingleDone(c) \/ ProjectDone(c) \/ AddFails(c)
      BY <1>1, <1>10, <2>5 DEF SingleDone, ProjectDone, AddFails, Receipt, TypeOK, InFlight
    <2>6. QED
      BY <1>12, <2>1, <2>2, <2>3, <2>4, <2>5 DEF Add
  <1>13. ASSUME NEW A \in SUBSET Clients, ledger' = ledger,
                inbox' = Orphan(inbox, A), working' = Orphan(working, A),
                \A d \in Clients : pc'[d] = pc[d] \/ pc'[d] = "idle"
         PROVE  SplitFits'
    <2>1. inbox \in SUBSET Messages /\ working \in SUBSET Messages
      BY <1>1 DEF TypeOK
    <2>2. \A n \in InFlight' : \E m \in InFlight : n.client = m.client /\ n.track = m.track
      BY <1>13, <2>1, OrphanMember DEF InFlight
    <2>3. QED
      BY <1>10, <1>13, <2>2
  <1>14. ASSUME NEW c \in Clients, Timeout(c) PROVE SplitFits'
    BY <1>1, <1>13, <1>14 DEF Timeout, TypeOK
  <1>15. CASE Restart
    BY <1>13, <1>15 DEF Restart
  <1>16. CASE UNCHANGED vars
    BY <1>10, <1>16 DEF vars, storeVars, bridgeVars, InFlight
  <1>17. QED
    BY <1>3, <1>5, <1>6, <1>7, <1>8, <1>9, <1>12, <1>14, <1>15, <1>16 DEF Next, StoreNext

LEMMA SpecRefinementInv == Spec => []RefinementInv
  <1>1. Init => RefinementInv
    BY InitIInv, SplitFitsInit DEF RefinementInv
  <1>2. RefinementInv /\ [Next]_vars => RefinementInv'
    BY NextIInv, SplitFitsNext DEF RefinementInv
  <1>3. QED
    BY <1>1, <1>2, PTL DEF Spec

-----------------------------------------------------------------------------
(***************************************************************************)
(* The abstract state, written out.                                        *)
(***************************************************************************)
StageIn(L, k) ==
    IF L[PlainKey(k)].status # "done" THEN "none"
    ELSE IF L[PlainKey(k)].track = "single" THEN "single"
    ELSE IF L[ProjectKey(k)].status = "done" THEN "both" ELSE "personal"

HolderIn(L, k) == IF L[PlainKey(k)].status = "done" THEN L[PlainKey(k)].by ELSE Nobody

stageBar == [k \in Keys |-> StageIn(ledger, k)]
holderBar == [k \in Keys |-> HolderIn(ledger, k)]
grantedBar == {c \in Clients : Args[c].key # NoKey /\ receipts[c] # {}}

\* A step that leaves the settled intents and the first receipts alone.
Stutters == stageBar' = stageBar /\ holderBar' = holderBar /\ grantedBar' = grantedBar

\* The steps of DurableAdd on the abstract state.
RecordsFirst(k, c, s) ==
    /\ stageBar[k] = "none"
    /\ Args[c].key = k
    /\ s = "personal" => Args[c].infer
    /\ stageBar' = [stageBar EXCEPT ![k] = s]
    /\ holderBar' = [holderBar EXCEPT ![k] = c]
    /\ grantedBar' = grantedBar

RecordsSecond(k) ==
    /\ stageBar[k] = "personal"
    /\ stageBar' = [stageBar EXCEPT ![k] = "both"]
    /\ holderBar' = holderBar /\ grantedBar' = grantedBar

Grants(c) ==
    /\ c \notin grantedBar
    /\ Args[c].key \in Keys
    /\ stageBar[Args[c].key] \in {"single", "both"}
    /\ SameWrite(c, holderBar[Args[c].key], stageBar[Args[c].key])
    /\ grantedBar' = grantedBar \cup {c}
    /\ stageBar' = stageBar /\ holderBar' = holderBar

Steps ==
    \/ \E k \in Keys, c \in Clients, s \in {"single", "personal"} : RecordsFirst(k, c, s)
    \/ \E k \in Keys : RecordsSecond(k)
    \/ \E c \in Clients : Grants(c)
    \/ Stutters

LEMMA BarPrimes ==
    /\ stageBar' = [k \in Keys |-> StageIn(ledger', k)]
    /\ holderBar' = [k \in Keys |-> HolderIn(ledger', k)]
    /\ grantedBar' = {c \in Clients : Args[c].key # NoKey /\ receipts'[c] # {}}
  BY DEF stageBar, holderBar, grantedBar, StageIn, HolderIn

\* Settling the intent of store key j.
LEMMA SettlingSteps ==
    ASSUME RefinementInv, NEW j \in StoreKeys, Used(j), receipts' = receipts,
           ledger' = [ledger EXCEPT ![j].status = "done"]
    PROVE  Steps
  <1>1. IInv /\ SplitFits /\ TypeOK
    BY DEF RefinementInv, IInv
  <1>2. /\ ledger'[j].status = "done" /\ ledger'[j].by = ledger[j].by
        /\ ledger'[j].track = ledger[j].track
        /\ \A i \in StoreKeys : i # j => ledger'[i] = ledger[i]
    BY <1>1, Settling
  <1>3. grantedBar' = grantedBar
    BY BarPrimes DEF grantedBar
  <1>4. /\ ledger[j].by \in Clients /\ ledger[j].track \in Tracks
        /\ KeyFits(ledger[j].by, ledger[j].track, j)
    BY <1>1 DEF IInv, CellsFit, TypeOK, Cells
  <1>5. CASE ledger[j].status = "done"
    <2>1. \A i \in StoreKeys : /\ ledger'[i].status = ledger[i].status
                               /\ ledger'[i].by = ledger[i].by /\ ledger'[i].track = ledger[i].track
      BY <1>2, <1>5
    <2>2. \A k \in Keys : StageIn(ledger', k) = StageIn(ledger, k)
                          /\ HolderIn(ledger', k) = HolderIn(ledger, k)
      BY <2>1, KeyTypes DEF StageIn, HolderIn
    <2>3. stageBar' = stageBar /\ holderBar' = holderBar
      BY <2>2, BarPrimes DEF stageBar, holderBar
    <2>4. QED
      BY <1>3, <2>3 DEF Steps, Stutters
  <1>6. ASSUME NEW k0 \in Keys, j = PlainKey(k0), ledger[j].status # "done" PROVE Steps
    <2> DEFINE c == ledger[j].by
               s == ledger[j].track
    <2>1. s \in {"single", "personal"} /\ Args[c].key = k0
      BY <1>4, <1>6, PlainForms
    <2>2. s = "personal" => Args[c].infer
      BY <1>1 DEF SplitFits
    <2>3. ledger[ProjectKey(k0)].status # "done"
      <3>1. SUFFICES ASSUME ledger[ProjectKey(k0)].status = "done" PROVE FALSE
        OBVIOUS
      <3>2. ProjectKey(k0) \in StoreKeys /\ Used(ProjectKey(k0))
        BY <3>1, KeyTypes DEF Used
      <3>3. ledger[ProjectKey(k0)].track \in Tracks
        BY <1>1, <3>2 DEF TypeOK, Cells
      <3>4. ledger[ProjectKey(k0)].track = "project" /\ Args[ledger[ProjectKey(k0)].by].key = k0
        BY <1>1, <3>2, <3>3, KeyForms DEF IInv, CellsFit
      <3>5. Done(PlainKey(k0))
        BY <1>1, <3>2, <3>4 DEF IInv, CellsFit, ProjectBacked
      <3>6. QED
        BY <1>6, <3>5 DEF Done
    <2>4. /\ StageIn(ledger, k0) = "none" /\ StageIn(ledger', k0) = s
          /\ HolderIn(ledger', k0) = c
      <3>1. ledger'[ProjectKey(k0)] = ledger[ProjectKey(k0)]
        BY <1>2, <1>6, KeyTypes, KeysApart
      <3>2. /\ ledger'[PlainKey(k0)].status = "done" /\ ledger'[PlainKey(k0)].by = c
            /\ ledger'[PlainKey(k0)].track = s
        BY <1>2, <1>6
      <3>3. QED
        BY <1>6, <2>1, <2>3, <3>1, <3>2 DEF StageIn, HolderIn
    <2>5. \A k \in Keys : k # k0 => /\ StageIn(ledger', k) = StageIn(ledger, k)
                                    /\ HolderIn(ledger', k) = HolderIn(ledger, k)
      <3> SUFFICES ASSUME NEW k \in Keys, k # k0
                   PROVE  /\ StageIn(ledger', k) = StageIn(ledger, k)
                          /\ HolderIn(ledger', k) = HolderIn(ledger, k)
        OBVIOUS
      <3>1. PlainKey(k) # j /\ ProjectKey(k) # j
        BY <1>6, KeysApart
      <3>2. QED
        BY <1>2, <3>1, KeyTypes DEF StageIn, HolderIn
    <2> HIDE DEF c, s
    <2>6. stageBar' = [stageBar EXCEPT ![k0] = s] /\ holderBar' = [holderBar EXCEPT ![k0] = c]
      BY <2>4, <2>5, BarPrimes DEF stageBar, holderBar
    <2>7. stageBar[k0] = "none"
      BY <2>4 DEF stageBar
    <2>8. RecordsFirst(k0, c, s)
      BY <1>3, <2>1, <2>2, <2>6, <2>7 DEF RecordsFirst
    <2>9. c \in Clients
      BY <1>4 DEF c
    <2>10. QED
      BY <2>1, <2>8, <2>9 DEF Steps
  <1>7. ASSUME NEW k0 \in Keys, j = ProjectKey(k0), ledger[j].status # "done" PROVE Steps
    <2> DEFINE c == ledger[j].by
    <2>1. ledger[j].track = "project" /\ Args[c].key = k0
      BY <1>4, <1>7, KeyForms
    <2>2. ledger[PlainKey(k0)].status = "done" /\ ledger[PlainKey(k0)].track = "personal"
      BY <1>1, <2>1 DEF IInv, CellsFit, ProjectBacked, Done
    <2>3. StageIn(ledger, k0) = "personal" /\ StageIn(ledger', k0) = "both"
      <3>1. ledger'[PlainKey(k0)] = ledger[PlainKey(k0)]
        BY <1>2, <1>7, KeyTypes, KeysApart
      <3>2. QED
        BY <1>2, <1>7, <2>2, <3>1 DEF StageIn
    <2>4. \A k \in Keys : k # k0 => StageIn(ledger', k) = StageIn(ledger, k)
      <3> SUFFICES ASSUME NEW k \in Keys, k # k0
                   PROVE  StageIn(ledger', k) = StageIn(ledger, k)
        OBVIOUS
      <3>1. PlainKey(k) # j /\ ProjectKey(k) # j
        BY <1>7, KeysApart
      <3>2. QED
        BY <1>2, <3>1, KeyTypes DEF StageIn, HolderIn
    <2>5. \A k \in Keys : HolderIn(ledger', k) = HolderIn(ledger, k)
      <3> SUFFICES ASSUME NEW k \in Keys
                   PROVE  HolderIn(ledger', k) = HolderIn(ledger, k)
        OBVIOUS
      <3>1. PlainKey(k) # j
        BY <1>7, KeysApart
      <3>2. QED
        BY <1>2, <3>1, KeyTypes DEF HolderIn
    <2>6. stageBar' = [stageBar EXCEPT ![k0] = "both"] /\ holderBar' = holderBar
      BY <2>3, <2>4, <2>5, BarPrimes DEF stageBar, holderBar
    <2>7. stageBar[k0] = "personal"
      BY <2>3 DEF stageBar
    <2>8. QED
      BY <1>3, <2>6, <2>7 DEF Steps, RecordsSecond
  <1>8. ASSUME NEW a \in Anon, j = AnonKey(a) PROVE Steps
    <2>1. \A k \in Keys : StageIn(ledger', k) = StageIn(ledger, k)
                          /\ HolderIn(ledger', k) = HolderIn(ledger, k)
      <3> SUFFICES ASSUME NEW k \in Keys
                   PROVE  /\ StageIn(ledger', k) = StageIn(ledger, k)
                          /\ HolderIn(ledger', k) = HolderIn(ledger, k)
        OBVIOUS
      <3>1. PlainKey(k) # j /\ ProjectKey(k) # j
        BY <1>8, KeysApart
      <3>2. QED
        BY <1>2, <3>1, KeyTypes DEF StageIn, HolderIn
    <2>2. stageBar' = stageBar /\ holderBar' = holderBar
      BY <2>1, BarPrimes DEF stageBar, holderBar
    <2>3. QED
      BY <1>3, <2>2 DEF Steps, Stutters
  <1>9. QED
    BY <1>5, <1>6, <1>7, <1>8 DEF StoreKeys

\* An intent that is only begun, or not touched, settles nothing.
LEMMA OtherSteps ==
    ASSUME receipts' = receipts,
           \A k \in StoreKeys : ledger'[k] = ledger[k] \/
              (ledger[k].status # "done" /\ ledger'[k].status # "done")
    PROVE  Stutters
  <1>1. \A k \in Keys : StageIn(ledger', k) = StageIn(ledger, k)
                        /\ HolderIn(ledger', k) = HolderIn(ledger, k)
    <2> SUFFICES ASSUME NEW k \in Keys
                 PROVE  /\ StageIn(ledger', k) = StageIn(ledger, k)
                        /\ HolderIn(ledger', k) = HolderIn(ledger, k)
      OBVIOUS
    <2>1. PlainKey(k) \in StoreKeys /\ ProjectKey(k) \in StoreKeys
      BY KeyTypes
    <2>2. QED
      BY <2>1 DEF StageIn, HolderIn
  <1>2. QED
    BY <1>1, BarPrimes DEF Stutters, stageBar, holderBar, grantedBar

\* Issuing a receipt grants it when it is the client's first.
LEMMA ReceiptSteps ==
    ASSUME RefinementInv, RefinementInv', NEW c \in Clients, NEW r,
           receipts' = [receipts EXCEPT ![c] = @ \cup {r}], ledger' = ledger
    PROVE  Steps
  <1>1. stageBar' = stageBar /\ holderBar' = holderBar
    BY BarPrimes DEF stageBar, holderBar
  <1>2. TypeOK
    BY DEF RefinementInv, IInv
  <1>3. r \in receipts'[c] /\ receipts'[c] # {} /\ \A d \in Clients \ {c} : receipts'[d] = receipts[d]
    BY <1>2 DEF TypeOK
  <1>4. CASE Args[c].key = NoKey \/ receipts[c] # {}
    <2>1. grantedBar' = grantedBar
      BY <1>3, <1>4, BarPrimes DEF grantedBar
    <2>2. QED
      BY <1>1, <2>1 DEF Steps, Stutters
  <1>5. CASE Args[c].key # NoKey /\ receipts[c] = {}
    <2> DEFINE k == Args[c].key
    <2>1. c \notin grantedBar /\ grantedBar' = grantedBar \cup {c}
      BY <1>3, <1>5, BarPrimes DEF grantedBar
    <2>2. k \in Keys
      BY <1>5, ArgsAssumption
    <2>3. ReceiptFits(ledger, c, r)
      BY <1>3, ReceiptsFitIn DEF RefinementInv, IInv
    <2>4. CASE RecordedIn(ledger, c, "single", r[1])
      <3>1. /\ ledger[PlainKey(k)].status = "done" /\ ledger[PlainKey(k)].track = "single"
            /\ Body(ledger[PlainKey(k)].by, "single") = Body(c, "single")
            /\ Cred[ledger[PlainKey(k)].by] = Cred[c]
        BY <1>5, <2>4 DEF RecordedIn, KeyFits
      <3>2. stageBar[k] = "single" /\ holderBar[k] = ledger[PlainKey(k)].by
        BY <2>2, <3>1 DEF stageBar, holderBar, StageIn, HolderIn
      <3>3. SameWrite(c, holderBar[k], stageBar[k])
        BY <3>1, <3>2 DEF SameWrite
      <3>4. QED
        BY <1>1, <2>1, <2>2, <3>2, <3>3 DEF Steps, Grants
    <2>5. CASE RecordedIn(ledger, c, "personal", r[1]) /\ RecordedIn(ledger, c, "project", r[2])
      <3>1. Recorded(c, "personal", r[1])
        BY <2>5, RecordedInIs
      <3>2. ProjectBacked(c)
        BY <3>1, PersonalBacks
      <3>3. /\ ledger[PlainKey(k)].status = "done" /\ ledger[PlainKey(k)].track = "personal"
            /\ Args[ledger[PlainKey(k)].by] = Args[c] /\ Cred[ledger[PlainKey(k)].by] = Cred[c]
        BY <3>2 DEF ProjectBacked, Done, Request, Channel
      <3>4. ledger[ProjectKey(k)].status = "done"
        BY <2>5 DEF RecordedIn, KeyFits
      <3>5. stageBar[k] = "both" /\ holderBar[k] = ledger[PlainKey(k)].by
        BY <2>2, <3>3, <3>4 DEF stageBar, holderBar, StageIn, HolderIn
      <3>6. SameWrite(c, holderBar[k], stageBar[k])
        BY <3>3, <3>5 DEF SameWrite
      <3>7. QED
        BY <1>1, <2>1, <2>2, <3>5, <3>6 DEF Steps, Grants
    <2>6. QED
      BY <2>3, <2>4, <2>5 DEF ReceiptFits
  <1>6. QED
    BY <1>4, <1>5

LEMMA NextSteps ==
    ASSUME RefinementInv, RefinementInv', [Next]_vars
    PROVE  Steps
  <1>1. TypeOK /\ WorkingOwned
    BY DEF RefinementInv, IInv
  <1>2. CASE ledger' = ledger /\ receipts' = receipts
    <2>1. \A k \in StoreKeys : ledger'[k] = ledger[k] \/
             (ledger[k].status # "done" /\ ledger'[k].status # "done")
      BY <1>2
    <2>2. receipts' = receipts
      BY <1>2
    <2>3. Stutters
      BY <2>1, <2>2, OtherSteps
    <2>4. QED
      BY <2>3 DEF Steps
  <1>3. ASSUME NEW m \in inbox, Accept(m), UNCHANGED bridgeVars PROVE Steps
    <2>1. m.skey \in StoreKeys
      BY <1>1 DEF TypeOK, Messages
    <2>2. \A k \in StoreKeys : ledger'[k] = ledger[k] \/
             (ledger[k].status # "done" /\ ledger'[k].status # "done")
      <3>1. \A k \in StoreKeys : k # m.skey => ledger'[k] = ledger[k]
        BY <1>1, <1>3, <2>1 DEF Accept, TypeOK
      <3>2. ledger'[m.skey].status = "pending" /\ ledger[m.skey].status = "free"
        BY <1>1, <1>3, <2>1 DEF Accept, TypeOK
      <3> SUFFICES ASSUME NEW k \in StoreKeys
                   PROVE  ledger'[k] = ledger[k] \/
                             (ledger[k].status # "done" /\ ledger'[k].status # "done")
        OBVIOUS
      <3>3. CASE k = m.skey
        BY <3>2, <3>3
      <3>4. CASE k # m.skey
        BY <3>1, <3>4
      <3>5. QED
        BY <3>3, <3>4
    <2>3. receipts' = receipts
      BY <1>3 DEF bridgeVars
    <2>4. Stutters
      BY <2>2, <2>3, OtherSteps
    <2>5. QED
      BY <2>4 DEF Steps
  <1>4. ASSUME NEW m \in working, Commit(m), UNCHANGED bridgeVars PROVE Steps
    <2>1. m.skey \in StoreKeys /\ Used(m.skey)
      BY <1>1 DEF TypeOK, Messages, WorkingOwned
    <2>2. QED
      BY <1>4, <2>1, SettlingSteps DEF Commit, bridgeVars
  <1>5. ASSUME NEW k \in StoreKeys, Repair(k), UNCHANGED bridgeVars PROVE Steps
    BY <1>5, SettlingSteps DEF Repair, Used, bridgeVars
  <1>6. CASE StoreNext /\ UNCHANGED bridgeVars
    BY <1>2, <1>3, <1>4, <1>5, <1>6
    DEF StoreNext, Replay, Drop, Lose, DisableDual, EnableDual, bridgeVars
  <1>7. ASSUME NEW c \in Clients, SingleDone(c) \/ ProjectDone(c) PROVE Steps
    BY <1>7, ReceiptSteps DEF SingleDone, ProjectDone, Receipt
  <1>8. ASSUME NEW c \in Clients,
               \/ AddSingle(c) \/ AddDual(c) \/ Preflight(c) \/ PersonalDone(c)
               \/ AddFails(c) \/ Timeout(c)
        PROVE  Steps
    BY <1>2, <1>8 DEF AddSingle, AddDual, Preflight, PersonalDone, AddFails, Timeout, storeVars
  <1>9. CASE Restart
    BY <1>2, <1>9 DEF Restart
  <1>10. CASE UNCHANGED vars
    BY <1>2, <1>10 DEF vars, storeVars, bridgeVars
  <1>11. QED
    BY <1>6, <1>7, <1>8, <1>9, <1>10 DEF Next, Add

\* The bridge and the store implement the atomic records and grants, for any
\* clients, keys, requests, credentials, modes and number of faults.
THEOREM ImplementsDurableAddTheorem == Spec => ImplementsDurableAdd
  <1>1. Init => Abstract!Init
    <2> SUFFICES ASSUME Init PROVE Abstract!Init
      OBVIOUS
    <2>1. \A k \in StoreKeys : ledger[k].status = "free"
      BY DEF Init, StoreInit, Free
    <2>2. \A k \in Keys : ~Done(PlainKey(k))
      BY <2>1, KeyTypes DEF Done
    <2>3. [k \in Keys |-> Stage(k)] = [k \in Keys |-> "none"]
      BY <2>2 DEF Stage
    <2>4. [k \in Keys |-> IF Done(PlainKey(k)) THEN ledger[PlainKey(k)].by ELSE Nobody]
            = [k \in Keys |-> Nobody]
      BY <2>2
    <2>5. {c \in Clients : Args[c].key # NoKey /\ receipts[c] # {}} = {}
      BY DEF Init
    <2>6. QED
      BY <2>3, <2>4, <2>5 DEF Abstract!Init
  <1>2. ASSUME RefinementInv, RefinementInv', [Next]_vars
        PROVE  Abstract!Next \/ UNCHANGED Abstract!vars
    <2>1. Steps
      BY <1>2, NextSteps
    <2>2. /\ stageBar = [k \in Keys |-> Stage(k)]
          /\ holderBar = [k \in Keys |-> IF Done(PlainKey(k)) THEN ledger[PlainKey(k)].by ELSE Nobody]
          /\ grantedBar = {c \in Clients : Args[c].key # NoKey /\ receipts[c] # {}}
      BY DEF stageBar, holderBar, grantedBar, StageIn, HolderIn, Stage, Done
    <2>3. /\ stageBar' = [k \in Keys |-> Stage(k)]'
          /\ holderBar' = [k \in Keys |-> IF Done(PlainKey(k)) THEN ledger[PlainKey(k)].by ELSE Nobody]'
          /\ grantedBar' = {c \in Clients : Args[c].key # NoKey /\ receipts[c] # {}}'
      BY DEF stageBar, holderBar, grantedBar, StageIn, HolderIn, Stage, Done
    <2>4. ASSUME NEW k \in Keys, NEW c \in Clients, NEW s \in {"single", "personal"},
                 RecordsFirst(k, c, s)
          PROVE  Abstract!RecordFirst(k, c, s)
      BY <2>2, <2>3, <2>4 DEF RecordsFirst, Abstract!RecordFirst
    <2>5. ASSUME NEW k \in Keys, RecordsSecond(k) PROVE Abstract!RecordSecond(k)
      BY <2>2, <2>3, <2>5 DEF RecordsSecond, Abstract!RecordSecond
    <2>6. ASSUME NEW c \in Clients, Grants(c) PROVE Abstract!Grant(c)
      BY <2>2, <2>3, <2>6 DEF Grants, Abstract!Grant
    <2>7. Stutters => UNCHANGED Abstract!vars
      BY <2>2, <2>3 DEF Stutters, Abstract!vars
    <2>8. QED
      BY <2>1, <2>4, <2>5, <2>6, <2>7 DEF Steps, Abstract!Next
  <1>3. RefinementInv /\ RefinementInv' /\ [Next]_vars => [Abstract!Next]_(Abstract!vars)
    BY <1>2
  <1>4. QED
    BY <1>1, <1>3, SpecRefinementInv, PTL DEF Spec, ImplementsDurableAdd, Abstract!Spec

\* The inductive invariants of both proofs hold together, restarts, losses and
\* repairs included.
THEOREM ProofInvTheorem == Spec => []ProofInv
  BY SpecEventInv, SpecRefinementInv, PTL DEF ProofInv
===============================================================================
