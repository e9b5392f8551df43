---------------------------- MODULE PluginsProofs ----------------------------
(***************************************************************************)
(* Proofs about Plugins: the capture policy (CapturePolicy), the Pi client *)
(* (PiClient), and from them and the installers' theorems what holds of    *)
(* all of them side by side.                                               *)
(***************************************************************************)
EXTENDS PluginInstallProofs, FiniteSetTheorems, WellFoundedInduction

\* The cardinality that the components count with is that of the library's theorems.
LEMMA SameCardinality ==
    /\ \A S : Policy!Cardinality(S) = Cardinality(S)
    /\ \A S : Pi!Cardinality(S) = Cardinality(S)
<1>1. \A S : Policy!Cardinality(S) = Cardinality(S)
  BY Zenon DEF Cardinality, Policy!Cardinality
<1>2. \A S : Pi!Cardinality(S) = Cardinality(S)
  BY Zenon DEF Cardinality, Pi!Cardinality
<1> QED
  BY <1>1, <1>2

-----------------------------------------------------------------------------
\* CapturePolicy, for any number of processes and faults.
PolicyPlaces == {"stopped", "idle", "opening", "deciding", "persisting", "leaving"}

\* Who is between taking and removing the lock has created the file that is there:
\* nobody else removes it, and it stays behind when its owner dies.
LockOwned ==
    /\ policyPc \in [Processes -> PolicyPlaces]
    /\ lock \in Processes \cup {Nobody}
    /\ \A p \in Processes : Policy!Inside(p) => lock = p

\* At the beginning no process runs.
LEMMA InitLockOwned == Policy!Init => LockOwned
  BY DEF Policy!Init, LockOwned, PolicyPlaces, Policy!Inside

\* A process that neither enters nor leaves keeps the lock as it is.
LEMMA NextLockOwned ==
    ASSUME Policy!PolicyAssumption, LockOwned, [Policy!Next]_(Policy!vars)
    PROVE  LockOwned'
  <1> USE DEF LockOwned, PolicyPlaces, Policy!Inside
  <1>0. Nobody \notin Processes
    BY DEF Policy!PolicyAssumption
  <1>1. ASSUME NEW p \in Processes, Policy!Start(p) PROVE LockOwned'
    BY <1>1 DEF Policy!Start
  <1>2. ASSUME NEW p \in Processes, NEW t \in Texts, Policy!Offer(p, t) PROVE LockOwned'
    BY <1>2 DEF Policy!Offer
  <1>3. ASSUME NEW p \in Processes, Policy!OpenLock(p) PROVE LockOwned'
    <2>1. \A q \in Processes : ~Policy!Inside(q)
      BY <1>0, <1>3 DEF Policy!OpenLock
    <2>2. QED
      BY <1>3, <2>1 DEF Policy!OpenLock
  <1>4. ASSUME NEW p \in Processes, Policy!LockUnavailable(p) PROVE LockOwned'
    <2>1. CASE lock # Nobody /\ UNCHANGED lock
      BY <1>4, <2>1 DEF Policy!LockUnavailable
    <2>2. CASE lock = Nobody /\ lock' = p
      <3>1. \A q \in Processes : ~Policy!Inside(q)
        BY <1>0, <2>2
      <3>2. QED
        BY <1>4, <2>2, <3>1 DEF Policy!LockUnavailable
    <2>3. QED
      BY <1>4, <2>1, <2>2 DEF Policy!LockUnavailable
  <1>5. ASSUME NEW p \in Processes, Policy!Decide(p) PROVE LockOwned'
    <2>1. lock' = lock /\ policyPc[p] = "deciding"
      BY <1>5 DEF Policy!Decide
    <2>2. \/ policyPc' = [policyPc EXCEPT ![p] = "persisting"]
          \/ policyPc' = [policyPc EXCEPT ![p] = "leaving"]
      BY <1>5 DEF Policy!Decide
    <2>3. QED
      BY <2>1, <2>2
  <1>6. ASSUME NEW p \in Processes, Policy!Persist(p) PROVE LockOwned'
    BY <1>6 DEF Policy!Persist
  <1>7. ASSUME NEW p \in Processes, Policy!PersistFails(p) PROVE LockOwned'
    BY <1>7 DEF Policy!PersistFails
  <1>8. ASSUME NEW p \in Processes, Policy!Unlock(p) PROVE LockOwned'
    <2>1. \A q \in Processes \ {p} : ~Policy!Inside(q)
      BY <1>8 DEF Policy!Unlock
    <2>2. QED
      BY <1>8, <2>1 DEF Policy!Unlock
  <1>9. ASSUME NEW p \in Processes, Policy!UnlockFails(p) PROVE LockOwned'
    BY <1>9 DEF Policy!UnlockFails
  <1>10. ASSUME NEW p \in Processes, Policy!Die(p) PROVE LockOwned'
    BY <1>10 DEF Policy!Die
  <1>11. CASE Policy!Damage
    BY <1>11 DEF Policy!Damage, Policy!local
  <1>12. CASE Policy!Midnight
    BY <1>12 DEF Policy!Midnight, Policy!local
  <1>13. CASE UNCHANGED Policy!vars
    BY <1>13 DEF Policy!vars, Policy!local
  <1>14. QED
    BY <1>1, <1>2, <1>3, <1>4, <1>5, <1>6, <1>7, <1>8, <1>9, <1>10, <1>11, <1>12, <1>13
       DEF Policy!Next, Policy!Call

\* At most one process is between taking and removing the lock of claimCapture,
\* whichever of them die, restart or cannot remove their lock.
THEOREM LockExcludesTheorem ==
    ASSUME Policy!PolicyAssumption
    PROVE  Policy!Spec => []Policy!OneInside
  <1>1. LockOwned => Policy!OneInside
    BY DEF LockOwned, Policy!OneInside
  <1>2. Policy!Init /\ [][Policy!Next]_(Policy!vars) => []LockOwned
    BY InitLockOwned, NextLockOwned, PTL
  <1>3. QED
    BY <1>1, <1>2, PTL DEF Policy!Spec

-----------------------------------------------------------------------------
Hashes == UNION {[1..n -> Texts] : n \in 0..HashLimit}

\* slice(-n) of a list with one entry more keeps at most n of them.
LEMMA LastOfHashes ==
    ASSUME Policy!PolicyAssumption, NEW h \in Hashes, NEW t \in Texts
    PROVE  Policy!LastOf(Append(h, t), HashLimit) \in Hashes
  <1>1. PICK n \in 0..HashLimit : h \in [1..n -> Texts]
    BY DEF Hashes
  <1>2. HashLimit \in Nat \ {0} /\ n \in Nat /\ n <= HashLimit
    BY <1>1 DEF Policy!PolicyAssumption
  <1>3. h \in Seq(Texts) /\ Len(h) = n
    BY <1>1, <1>2
  <1>4. /\ Append(h, t) \in Seq(Texts)
        /\ Append(h, t) \in [1..(n + 1) -> Texts]
        /\ Len(Append(h, t)) = n + 1
    <2>1. Append(h, t) \in Seq(Texts) /\ Len(Append(h, t)) = n + 1
      BY <1>3, AppendProperties
    <2>2. QED
      BY <2>1, LenProperties
  <1>5. CASE n + 1 <= HashLimit
    <2>1. Policy!LastOf(Append(h, t), HashLimit) \in [1..(n + 1) -> Texts]
      BY <1>4, <1>5 DEF Policy!LastOf
    <2>2. n + 1 \in 0..HashLimit
      BY <1>2, <1>5
    <2>3. QED
      BY <2>1, <2>2 DEF Hashes
  <1>6. CASE n = HashLimit
    <2>1. Policy!LastOf(Append(h, t), HashLimit) = Tail(Append(h, t))
      <3>1. Append(h, t) # <<>>
        BY <1>3, AppendProperties
      <3>2. Tail(Append(h, t)) = SubSeq(Append(h, t), 2, Len(Append(h, t)))
        BY <1>4, <3>1, TailIsSubSeq
      <3>3. QED
        BY <1>2, <1>4, <1>6, <3>2 DEF Policy!LastOf
    <2>2. Tail(Append(h, t)) \in [1..HashLimit -> Texts]
      <3>1. Append(h, t) # <<>>
        BY <1>3, AppendProperties
      <3>2. Tail(Append(h, t)) \in Seq(Texts) /\ Len(Tail(Append(h, t))) = HashLimit
        BY <1>2, <1>4, <1>6, <3>1, HeadTailProperties
      <3>3. QED
        BY <3>2, LenProperties
    <2>3. HashLimit \in 0..HashLimit
      BY <1>2
    <2>4. QED
      BY <2>1, <2>2, <2>3 DEF Hashes
  <1>7. QED
    BY <1>2, <1>5, <1>6

\* Three fields of a record get new values of their types.
LEMMA ResetRecord ==
    ASSUME NEW D, NEW C, NEW S, NEW H,
           NEW r \in [date : D, count : C, sessions : S, hashes : H],
           NEW d \in D, NEW c \in C, NEW s \in S
    PROVE  [r EXCEPT !.date = d, !.count = c, !.sessions = s]
             \in [date : D, count : C, sessions : S, hashes : H]
  OBVIOUS

\* On a new day the counters of the app start at zero, and it keeps its type.
LEMMA AppStateTyped ==
    ASSUME Policy!PolicyAssumption, Policy!TypeOK, NEW p \in Processes, file \in Policy!States
    PROVE  Policy!AppState(file, p) \in Policy!AppStates
  <1> DEFINE zero == [x \in Policy!Sessions |-> 0]
             old == file[AppOf[p]]
  <1>1. old \in Policy!AppStates
    BY DEF Policy!States, Policy!Apps
  <1>2. /\ now[p] \in 0..LastDay /\ 0 \in 0..DailyLimit
        /\ zero \in [Policy!Sessions -> 0..SessionLimit]
    BY DEF Policy!PolicyAssumption, Policy!TypeOK
  <1> HIDE DEF zero, old
  <1>3. [old EXCEPT !.date = now[p], !.count = 0, !.sessions = zero] \in Policy!AppStates
    BY <1>1, <1>2, ResetRecord DEF Policy!AppStates
  <1>4. QED
    BY <1>1, <1>3 DEF Policy!AppState, zero, old

\* Counting a claim that the limits allow keeps them.
LEMMA CountedFits ==
    ASSUME Policy!PolicyAssumption, Policy!TypeOK, NEW p \in Processes, file \in Policy!States,
           Policy!Eligible(Policy!AppState(file, p), p)
    PROVE  [file EXCEPT ![AppOf[p]] = Policy!Counted(Policy!AppState(file, p), p)] \in Policy!States
  <1> DEFINE app == Policy!AppState(file, p)
  <1>0. AppOf[p] \in Policy!Apps /\ SessionOf[p] \in Policy!Sessions
    BY DEF Policy!Apps, Policy!Sessions
  <1>1. SessionLimit \in Nat /\ DailyLimit \in Nat /\ now[p] \in 0..LastDay /\ text[p] \in Texts
    BY DEF Policy!PolicyAssumption, Policy!TypeOK
  <1>3. app \in Policy!AppStates
    BY AppStateTyped
  <1> HIDE DEF app
  <1>4. app.hashes \in Hashes
    BY <1>3 DEF Policy!AppStates, Hashes
  <1>5. Policy!LastOf(Append(app.hashes, text[p]), HashLimit) \in Hashes
    BY <1>1, <1>4, LastOfHashes
  <1>6. app.count + 1 \in 0..DailyLimit
    BY <1>1, <1>3 DEF Policy!AppStates, Policy!Eligible, app
  <1>7. [app.sessions EXCEPT ![SessionOf[p]] = @ + 1] \in [Policy!Sessions -> 0..SessionLimit]
    <2>1. app.sessions[SessionOf[p]] < SessionLimit
      BY DEF Policy!Eligible, app
    <2>2. QED
      BY <1>0, <1>1, <1>3, <2>1 DEF Policy!AppStates
  <1>8. Policy!Counted(app, p) \in Policy!AppStates
    BY <1>3, <1>5, <1>6, <1>7 DEF Policy!Counted, Policy!AppStates, Hashes
  <1>9. QED
    BY <1>0, <1>8 DEF Policy!States, app

\* A state that mentions no app yet.
LEMMA EmptyStateTyped == ASSUME Policy!PolicyAssumption PROVE Policy!EmptyState \in Policy!States
  <1>1. <<>> \in Hashes
    <2>1. <<>> \in [1..0 -> Texts] /\ 0 \in 0..HashLimit
      BY DEF Policy!PolicyAssumption
    <2>2. QED
      BY <2>1 DEF Hashes
  <1>2. /\ 0 \in 0..LastDay /\ 0 \in 0..DailyLimit
        /\ [s \in Policy!Sessions |-> 0] \in [Policy!Sessions -> 0..SessionLimit]
    BY DEF Policy!PolicyAssumption
  <1>3. Policy!NewApp \in Policy!AppStates
    BY <1>1, <1>2 DEF Policy!NewApp, Policy!AppStates, Hashes
  <1>4. QED
    BY <1>3 DEF Policy!EmptyState, Policy!States

LEMMA InitTypeOK == ASSUME Policy!PolicyAssumption, Policy!Init PROVE Policy!TypeOK
  BY EmptyStateTyped DEF Policy!PolicyAssumption, Policy!Init, Policy!TypeOK

LEMMA NextTypeOK ==
    ASSUME Policy!PolicyAssumption, Policy!TypeOK, [Policy!Next]_(Policy!vars)
    PROVE  Policy!TypeOK'
  <1> USE DEF Policy!TypeOK
  <1>0. /\ 1 \in 1..LastDay /\ Policy!EmptyState \in Policy!States
        /\ \A p \in Processes : Policy!Item(p) \in Policy!Items
    BY EmptyStateTyped
      DEF Policy!PolicyAssumption, Policy!Item, Policy!Items, Policy!Apps, Policy!Sessions
  <1>f. ASSUME Policy!Fault PROVE policyFaults' \in 0..PolicyFaults
    BY <1>f DEF Policy!PolicyAssumption, Policy!Fault
  <1>1. ASSUME NEW p \in Processes, Policy!Start(p) PROVE Policy!TypeOK'
    BY <1>1 DEF Policy!Start, Policy!PolicyAssumption
  <1>2. ASSUME NEW p \in Processes, NEW t \in Texts, Policy!Offer(p, t) PROVE Policy!TypeOK'
    BY <1>2 DEF Policy!Offer
  <1>3. ASSUME NEW p \in Processes, Policy!OpenLock(p) PROVE Policy!TypeOK'
    BY <1>3 DEF Policy!OpenLock
  <1>4. ASSUME NEW p \in Processes, Policy!LockUnavailable(p) PROVE Policy!TypeOK'
    BY <1>4, <1>f DEF Policy!LockUnavailable
  <1>5. ASSUME NEW p \in Processes, Policy!Decide(p) PROVE Policy!TypeOK'
    <2>1. CASE Policy!Valid(file) /\ Policy!Eligible(Policy!AppState(file, p), p)
      <3>1. file \in Policy!States
        BY <2>1 DEF Policy!Valid
      <3>2. [file EXCEPT ![AppOf[p]] = Policy!Counted(Policy!AppState(file, p), p)] \in Policy!States
        BY <2>1, <3>1, CountedFits
      <3>3. state' \in [Processes -> Policy!States]
        BY <1>5, <2>1, <3>2 DEF Policy!Decide
      <3>4. QED
        BY <1>5, <2>1, <3>3 DEF Policy!Decide
    <2>2. CASE ~(Policy!Valid(file) /\ Policy!Eligible(Policy!AppState(file, p), p))
      BY <1>5, <2>2 DEF Policy!Decide
    <2>3. QED
      BY <2>1, <2>2
  <1>6. ASSUME NEW p \in Processes, Policy!Persist(p) PROVE Policy!TypeOK'
    <2>1. claims' \in Seq(Policy!Items)
      BY <1>0, <1>6, AppendProperties DEF Policy!Persist
    <2>2. QED
      BY <1>6, <2>1 DEF Policy!Persist
  <1>7. ASSUME NEW p \in Processes, Policy!PersistFails(p) PROVE Policy!TypeOK'
    <2>1. claims' \in Seq(Policy!Items) /\ file' \in Policy!States \cup {Corrupt}
      <3>1. Append(claims, Policy!Item(p)) \in Seq(Policy!Items) /\ state[p] \in Policy!States
        BY <1>0, AppendProperties
      <3>2. QED
        BY <1>7, <3>1 DEF Policy!PersistFails
    <2>2. /\ UNCHANGED <<mode, text, now, state, lock, today, captured>>
          /\ grant' \in [Processes -> BOOLEAN] /\ policyFaults' \in 0..PolicyFaults
          /\ policyPc' \in [Processes -> {"stopped", "idle", "opening", "deciding", "persisting", "leaving"}]
      BY <1>7, <1>f DEF Policy!PersistFails
    <2>3. QED
      BY <2>1, <2>2
  <1>8. ASSUME NEW p \in Processes, Policy!Unlock(p) PROVE Policy!TypeOK'
    <2>1. captured' \in Seq(Policy!Items)
      BY <1>0, <1>8, AppendProperties DEF Policy!Unlock
    <2>2. QED
      BY <1>8, <2>1 DEF Policy!Unlock
  <1>9. ASSUME NEW p \in Processes, Policy!UnlockFails(p) PROVE Policy!TypeOK'
    BY <1>9, <1>f DEF Policy!UnlockFails
  <1>10. ASSUME NEW p \in Processes, Policy!Die(p) PROVE Policy!TypeOK'
    BY <1>0, <1>10, <1>f DEF Policy!Die
  <1>11. CASE Policy!Damage
    BY <1>11, <1>f DEF Policy!Damage, Policy!local
  <1>12. CASE Policy!Midnight
    BY <1>12 DEF Policy!Midnight, Policy!local, Policy!PolicyAssumption
  <1>13. CASE UNCHANGED Policy!vars
    BY <1>13 DEF Policy!vars, Policy!local
  <1>14. QED
    BY <1>1, <1>2, <1>3, <1>4, <1>5, <1>6, <1>7, <1>8, <1>9, <1>10, <1>11, <1>12, <1>13
       DEF Policy!Next, Policy!Call

\* The capture policy keeps its types: in memory and in the file the counters stay
\* within the session and day limits, and the hashes within their number.
THEOREM TypeOKTheorem ==
    ASSUME Policy!PolicyAssumption
    PROVE  Policy!Spec => []Policy!TypeOK
  BY InitTypeOK, NextTypeOK, PTL DEF Policy!Spec

-----------------------------------------------------------------------------
\* How often something is in a list, and in a list with one entry more.
LEMMA TimesType ==
    ASSUME NEW S, NEW s \in Seq(S), NEW x
    PROVE  IsFiniteSet({i \in DOMAIN s : s[i] = x}) /\ Policy!Times(s, x) \in Nat
  <1>1. DOMAIN s = 1..Len(s) /\ Len(s) \in Nat
    BY LenProperties
  <1>2. IsFiniteSet(1..Len(s))
    BY <1>1, FS_Interval
  <1>3. IsFiniteSet({i \in DOMAIN s : s[i] = x})
    <2>1. {i \in DOMAIN s : s[i] = x} \subseteq 1..Len(s)
      BY <1>1
    <2>2. QED
      BY <1>2, <2>1, FS_Subset
  <1>4. QED
    BY <1>3, FS_CardinalityType, SameCardinality DEF Policy!Times

LEMMA TimesAppend ==
    ASSUME NEW S, NEW s \in Seq(S), NEW y \in S, NEW x
    PROVE  Policy!Times(Append(s, y), x) = Policy!Times(s, x) + (IF y = x THEN 1 ELSE 0)
  <1> DEFINE at == {i \in DOMAIN s : s[i] = x}
             atNew == {i \in DOMAIN Append(s, y) : Append(s, y)[i] = x}
  <1>1. DOMAIN s = 1..Len(s) /\ Len(s) \in Nat
    BY LenProperties
  <1>2. /\ Append(s, y) \in Seq(S)
        /\ Len(Append(s, y)) = Len(s) + 1
        /\ \A i \in 1..Len(s) : Append(s, y)[i] = s[i]
        /\ Append(s, y)[Len(s) + 1] = y
    BY AppendProperties
  <1>3. DOMAIN Append(s, y) = 1..(Len(s) + 1)
    BY <1>2, LenProperties
  <1>4. CASE y = x
    <2>1. atNew = at \cup {Len(s) + 1}
      BY <1>1, <1>2, <1>3, <1>4
    <2>2. Len(s) + 1 \notin at
      BY <1>1
    <2>3. IsFiniteSet(at)
      BY TimesType
    <2> HIDE DEF at
    <2>4. Cardinality(at \cup {Len(s) + 1}) = Cardinality(at) + 1
      BY <2>2, <2>3, FS_AddElement
    <2>5. Policy!Times(Append(s, y), x) = Cardinality(at) + 1
      BY <2>1, <2>4, SameCardinality DEF Policy!Times
    <2>6. QED
      BY <1>4, <2>5, SameCardinality DEF Policy!Times, at
  <1>5. CASE y # x
    <2>1. atNew = at
      BY <1>1, <1>2, <1>3, <1>5
    <2>2. Policy!Times(Append(s, y), x) = Policy!Times(s, x) /\ Policy!Times(s, x) \in Nat
      BY <2>1, TimesType DEF Policy!Times
    <2>3. QED
      BY <1>5, <2>2
  <1>6. QED
    BY <1>4, <1>5

\* A grant waits for its answer only between the decision and the end of the call,
\* and after persist its claim is on disk and not used for another capture.
GrantsClaimed ==
    /\ \A p \in Processes : grant[p] => policyPc[p] \in {"persisting", "leaving"}
    /\ \A x \in Policy!Items : Policy!Times(captured, x) <= Policy!Times(claims, x)
    /\ \A p \in Processes :
          policyPc[p] = "leaving" /\ grant[p] => Policy!Times(captured, Policy!Item(p)) + 1 <= Policy!Times(claims, Policy!Item(p))

ClaimInv == Policy!TypeOK /\ LockOwned /\ GrantsClaimed

LEMMA ItemTyped == ASSUME Policy!TypeOK, NEW p \in Processes PROVE Policy!Item(p) \in Policy!Items
  BY DEF Policy!TypeOK, Policy!Item, Policy!Items, Policy!Apps, Policy!Sessions

\* Steps that change neither history, and give no grant.
LEMMA HistoriesKept ==
    ASSUME GrantsClaimed, UNCHANGED <<claims, captured>>,
           \A p \in Processes : grant'[p] =>
               /\ grant[p] /\ UNCHANGED <<policyPc[p], text[p], now[p]>>
    PROVE  GrantsClaimed'
  BY DEF GrantsClaimed, Policy!Item

LEMMA NextGrantsClaimed ==
    ASSUME Policy!PolicyAssumption, ClaimInv, [Policy!Next]_(Policy!vars)
    PROVE  GrantsClaimed'
  <1> USE DEF ClaimInv
  <1>0. /\ grant \in [Processes -> BOOLEAN] /\ policyPc \in [Processes -> PolicyPlaces]
        /\ text \in [Processes -> Texts] /\ now \in [Processes -> 1..LastDay]
        /\ claims \in Seq(Policy!Items) /\ captured \in Seq(Policy!Items)
        /\ \A p \in Processes : grant[p] => policyPc[p] \in {"persisting", "leaving"}
    BY DEF Policy!TypeOK, LockOwned, GrantsClaimed
  <1>n. \A x \in Policy!Items : Policy!Times(captured, x) \in Nat /\ Policy!Times(claims, x) \in Nat
    BY <1>0, TimesType
  <1>1. ASSUME NEW p \in Processes, Policy!Start(p) PROVE GrantsClaimed'
    BY <1>0, <1>1, HistoriesKept DEF Policy!Start
  <1>2. ASSUME NEW p \in Processes, NEW t \in Texts, Policy!Offer(p, t) PROVE GrantsClaimed'
    BY <1>0, <1>2, HistoriesKept DEF Policy!Offer
  <1>3. ASSUME NEW p \in Processes, Policy!OpenLock(p) PROVE GrantsClaimed'
    BY <1>0, <1>3, HistoriesKept DEF Policy!OpenLock
  <1>4. ASSUME NEW p \in Processes, Policy!LockUnavailable(p) PROVE GrantsClaimed'
    BY <1>0, <1>4, HistoriesKept DEF Policy!LockUnavailable
  <1>5. ASSUME NEW p \in Processes, Policy!Decide(p) PROVE GrantsClaimed'
    <2>1. /\ policyPc[p] = "deciding" /\ ~grant[p]
          /\ UNCHANGED <<text, now, claims, captured>>
      BY <1>0, <1>5 DEF Policy!Decide
    <2>2. CASE policyPc' = [policyPc EXCEPT ![p] = "leaving"] /\ UNCHANGED grant
      BY <1>0, <2>1, <2>2, HistoriesKept
    <2>3. CASE policyPc' = [policyPc EXCEPT ![p] = "persisting"] /\ grant' = [grant EXCEPT ![p] = TRUE]
      BY <1>0, <2>1, <2>3 DEF GrantsClaimed, Policy!Item
    <2>4. QED
      BY <1>5, <2>2, <2>3 DEF Policy!Decide
  <1>6. ASSUME NEW p \in Processes, Policy!Persist(p) PROVE GrantsClaimed'
    <2>1. /\ policyPc[p] = "persisting" /\ policyPc' = [policyPc EXCEPT ![p] = "leaving"]
          /\ claims' = Append(claims, Policy!Item(p))
          /\ UNCHANGED <<text, now, grant, captured>>
      BY <1>6 DEF Policy!Persist
    <2>2. Policy!Item(p) \in Policy!Items /\ \A q \in Processes : Policy!Item(q)' = Policy!Item(q)
      BY <2>1, ItemTyped DEF Policy!Item
    <2>3. \A x \in Policy!Items : Policy!Times(claims', x) = Policy!Times(claims, x) + (IF Policy!Item(p) = x THEN 1 ELSE 0)
      BY <1>0, <2>1, <2>2, TimesAppend
    <2>4. \A x \in Policy!Items : Policy!Times(captured', x) <= Policy!Times(claims', x)
      BY <1>n, <2>1, <2>3 DEF GrantsClaimed
    <2>5. \A q \in Processes : policyPc'[q] = "leaving" => q = p
      BY <1>0, <2>1 DEF LockOwned, Policy!Inside
    <2>6. Policy!Times(captured', Policy!Item(p)) + 1 <= Policy!Times(claims', Policy!Item(p))
      BY <1>n, <2>1, <2>2, <2>3 DEF GrantsClaimed
    <2>7. QED
      BY <1>0, <2>1, <2>2, <2>4, <2>5, <2>6 DEF GrantsClaimed
  <1>7. ASSUME NEW p \in Processes, Policy!PersistFails(p) PROVE GrantsClaimed'
    <2>1. /\ policyPc[p] = "persisting" /\ policyPc' = [policyPc EXCEPT ![p] = "leaving"]
          /\ grant' = [grant EXCEPT ![p] = FALSE]
          /\ UNCHANGED <<text, now, captured>>
      BY <1>7 DEF Policy!PersistFails
    <2>2. CASE UNCHANGED claims
      BY <1>0, <2>1, <2>2, HistoriesKept
    <2>3. CASE claims' = Append(claims, Policy!Item(p))
      <3>1. Policy!Item(p) \in Policy!Items
        BY ItemTyped
      <3>2. \A x \in Policy!Items : Policy!Times(claims', x) = Policy!Times(claims, x) + (IF Policy!Item(p) = x THEN 1 ELSE 0)
        BY <1>0, <2>3, <3>1, TimesAppend
      <3>3. \A x \in Policy!Items : Policy!Times(captured', x) <= Policy!Times(claims', x)
        BY <1>n, <2>1, <3>2 DEF GrantsClaimed
      <3>4. \A q \in Processes : policyPc'[q] = "leaving" => q = p
        BY <1>0, <2>1 DEF LockOwned, Policy!Inside
      <3>5. QED
        BY <1>0, <2>1, <3>3, <3>4 DEF GrantsClaimed
    <2>4. QED
      BY <1>7, <2>2, <2>3 DEF Policy!PersistFails
  <1>8. ASSUME NEW p \in Processes, Policy!Unlock(p) PROVE GrantsClaimed'
    <2>1. /\ policyPc[p] = "leaving" /\ policyPc' = [policyPc EXCEPT ![p] = "idle"]
          /\ grant' = [grant EXCEPT ![p] = FALSE]
          /\ UNCHANGED <<text, now, claims>>
      BY <1>8 DEF Policy!Unlock
    <2>2. \A q \in Processes : ~grant'[q]
      BY <1>0, <2>1 DEF LockOwned, Policy!Inside
    <2>3. \A x \in Policy!Items : Policy!Times(captured', x) <= Policy!Times(claims', x)
      <3>1. CASE grant[p]
        <4>1. captured' = Append(captured, Policy!Item(p)) /\ Policy!Item(p) \in Policy!Items
          BY <1>8, <3>1, ItemTyped DEF Policy!Unlock
        <4>2. \A x \in Policy!Items :
                Policy!Times(captured', x) = Policy!Times(captured, x) + (IF Policy!Item(p) = x THEN 1 ELSE 0)
          BY <1>0, <4>1, TimesAppend
        <4>3. Policy!Times(captured, Policy!Item(p)) + 1 <= Policy!Times(claims, Policy!Item(p))
          BY <2>1, <3>1 DEF GrantsClaimed
        <4>4. QED
          BY <1>n, <2>1, <4>2, <4>3 DEF GrantsClaimed
      <3>2. CASE ~grant[p]
        BY <1>8, <2>1, <3>2 DEF Policy!Unlock, GrantsClaimed
      <3>3. QED
        BY <3>1, <3>2
    <2>4. QED
      BY <2>2, <2>3 DEF GrantsClaimed
  <1>9. ASSUME NEW p \in Processes, Policy!UnlockFails(p) PROVE GrantsClaimed'
    BY <1>0, <1>9, HistoriesKept DEF Policy!UnlockFails
  <1>10. ASSUME NEW p \in Processes, Policy!Die(p) PROVE GrantsClaimed'
    BY <1>0, <1>10, HistoriesKept DEF Policy!Die
  <1>11. CASE Policy!Damage
    BY <1>11, HistoriesKept DEF Policy!Damage, Policy!local
  <1>12. CASE Policy!Midnight
    BY <1>12, HistoriesKept DEF Policy!Midnight, Policy!local
  <1>13. CASE UNCHANGED Policy!vars
    BY <1>13, HistoriesKept DEF Policy!vars, Policy!local
  <1>14. QED
    BY <1>1, <1>2, <1>3, <1>4, <1>5, <1>6, <1>7, <1>8, <1>9, <1>10, <1>11, <1>12, <1>13
       DEF Policy!Next, Policy!Call

\* Every capture that claimCapture has granted has a claim of its own on disk,
\* whichever processes and writes fail: quota may be wasted, never exceeded.
THEOREM CapturesClaimedTheorem ==
    ASSUME Policy!PolicyAssumption
    PROVE  Policy!Spec => []Policy!CapturesClaimed
  <1>1. Policy!Init => GrantsClaimed
    <2>1. SUFFICES ASSUME Policy!Init
                   PROVE  \A x \in Policy!Items : Policy!Times(captured, x) <= Policy!Times(claims, x)
      BY DEF Policy!Init, GrantsClaimed
    <2>2. captured = claims /\ captured \in Seq(Policy!Items)
      BY <2>1 DEF Policy!Init
    <2>3. \A x \in Policy!Items : Policy!Times(captured, x) \in Nat
      BY <2>2, TimesType
    <2>4. QED
      BY <2>2, <2>3
  <1>2. Policy!Init => ClaimInv
    BY <1>1, InitTypeOK, InitLockOwned DEF ClaimInv
  <1>3. ClaimInv /\ [Policy!Next]_(Policy!vars) => ClaimInv'
    BY NextTypeOK, NextLockOwned, NextGrantsClaimed DEF ClaimInv
  <1>4. ClaimInv => Policy!CapturesClaimed
    <2>1. SUFFICES ASSUME ClaimInv, NEW i \in DOMAIN captured
                   PROVE  Policy!Times(captured, captured[i]) <= Policy!Times(claims, captured[i])
      BY DEF Policy!CapturesClaimed
    <2>2. captured[i] \in Policy!Items
      BY <2>1, LenProperties DEF ClaimInv, Policy!TypeOK
    <2>3. QED
      BY <2>1, <2>2 DEF ClaimInv, GrantsClaimed
  <1>5. QED
    BY <1>2, <1>3, <1>4, PTL DEF Policy!Spec
-----------------------------------------------------------------------------
\* The quotas, for a list of claims: the claims of an app, those since a position,
\* those since the app's date changed last, and those since it became d.
Of(cl, a) == {i \in DOMAIN cl : cl[i].app = a}
Since(cl, a, i) == {k \in Of(cl, a) : k >= i}
Latest(cl, a) == {i \in Of(cl, a) : \A j \in Of(cl, a) : j >= i => cl[j].day = cl[i].day}
OnDate(cl, a, d) == {i \in Of(cl, a) : \A j \in Of(cl, a) : j >= i => cl[j].day = d}

\* The state of app a agrees with its claims: its counters count those since its
\* date changed last, and its hashes are the texts of the last ones, in order.
CountsRight(app, cl, a) ==
    /\ Latest(cl, a) = OnDate(cl, a, app.date)
    /\ app.count = Cardinality(Latest(cl, a))
    /\ \A s \in Policy!Sessions :
          app.sessions[s] = Cardinality({i \in Latest(cl, a) : cl[i].session = s})

HashesRight(app, cl, a) ==
    \A i \in Of(cl, a) :
        LET age == Cardinality(Since(cl, a, i)) IN
        age <= HashLimit =>
            age <= Len(app.hashes) /\ app.hashes[Len(app.hashes) + 1 - age] = cl[i].text

Matches(st, cl) == \A a \in Policy!Apps : CountsRight(st[a], cl, a) /\ HashesRight(st[a], cl, a)

WithinLimits(cl) ==
    \A a \in Policy!Apps, i, j \in DOMAIN cl :
        LET block == Of(cl, a) \cap (i..j) IN
        (\A k, l \in block : cl[k].day = cl[l].day) =>
            /\ Cardinality(block) <= DailyLimit
            /\ \A s \in Policy!Sessions : Cardinality({k \in block : cl[k].session = s}) <= SessionLimit

NoRepeats(cl) ==
    \A i, j \in DOMAIN cl :
        i < j /\ cl[i].app = cl[j].app /\ cl[i].text = cl[j].text
            => Cardinality(Of(cl, cl[i].app) \cap (i..j)) >= HashLimit + 2

Good(st, cl) == Matches(st, cl) /\ WithinLimits(cl) /\ NoRepeats(cl)

\* Sets of positions are finite.
LEMMA Positions ==
    ASSUME NEW S, NEW s \in Seq(S), NEW T \in SUBSET DOMAIN s
    PROVE  IsFiniteSet(T) /\ Cardinality(T) \in Nat
  <1>1. DOMAIN s = 1..Len(s) /\ Len(s) \in Nat
    BY LenProperties
  <1>2. IsFiniteSet(1..Len(s))
    BY <1>1, FS_Interval
  <1>3. IsFiniteSet(T)
    BY <1>1, <1>2, FS_Subset
  <1>4. QED
    BY <1>3, FS_CardinalityType

\* One claim more: it is the last position.
LEMMA OneMore ==
    ASSUME NEW cl \in Seq(Policy!Items), NEW y \in Policy!Items
    PROVE  LET n == Len(cl) + 1
               new == Append(cl, y)
           IN  /\ n \in Nat \ {0} /\ new \in Seq(Policy!Items)
               /\ DOMAIN cl = 1..(n - 1) /\ DOMAIN new = 1..n /\ n \notin DOMAIN cl
               /\ \A i \in DOMAIN cl : new[i] = cl[i]
               /\ new[n] = y
               /\ \A a : Of(new, a) = IF y.app = a THEN Of(cl, a) \cup {n} ELSE Of(cl, a)
  <1> DEFINE n == Len(cl) + 1
             new == Append(cl, y)
  <1>1. DOMAIN cl = 1..Len(cl) /\ Len(cl) \in Nat
    BY LenProperties
  <1>2. /\ new \in Seq(Policy!Items) /\ Len(new) = Len(cl) + 1
        /\ \A i \in 1..Len(cl) : new[i] = cl[i]
        /\ new[Len(cl) + 1] = y
    BY AppendProperties
  <1>3. DOMAIN new = 1..n
    BY <1>2, LenProperties
  <1> HIDE DEF new
  <1>4. \A a : Of(new, a) = IF y.app = a THEN Of(cl, a) \cup {n} ELSE Of(cl, a)
    BY <1>1, <1>2, <1>3 DEF Of
  <1>5. QED
    BY <1>1, <1>2, <1>3, <1>4 DEF new

\* A claim of another app changes nothing for app a.
LEMMA OtherClaim ==
    ASSUME NEW cl \in Seq(Policy!Items), NEW y \in Policy!Items, NEW a, y.app # a, NEW app
    PROVE  /\ CountsRight(app, cl, a) => CountsRight(app, Append(cl, y), a)
           /\ HashesRight(app, cl, a) => HashesRight(app, Append(cl, y), a)
  <1> DEFINE new == Append(cl, y)
  <1>1. Of(new, a) = Of(cl, a) /\ \A i \in Of(cl, a) : new[i] = cl[i]
    BY OneMore DEF Of
  <1> HIDE DEF new
  <1>2. /\ Latest(new, a) = Latest(cl, a)
        /\ \A d : OnDate(new, a, d) = OnDate(cl, a, d)
        /\ \A i : Since(new, a, i) = Since(cl, a, i)
    BY <1>1 DEF Latest, OnDate, Since
  <1>3. \A s : {i \in Latest(new, a) : new[i].session = s} = {i \in Latest(cl, a) : cl[i].session = s}
    BY <1>1, <1>2 DEF Latest
  <1>4. CountsRight(app, cl, a) => CountsRight(app, new, a)
    BY <1>2, <1>3 DEF CountsRight
  <1>5. HashesRight(app, cl, a) => HashesRight(app, new, a)
    BY <1>1, <1>2 DEF HashesRight
  <1>6. QED
    BY <1>4, <1>5 DEF new

\* A claim of app a: the counters go on on the same date, and start again on another.
LEMMA OwnClaimCounts ==
    ASSUME NEW cl \in Seq(Policy!Items), NEW y \in Policy!Items, NEW old, NEW app,
           CountsRight(old, cl, y.app),
           app.date = y.day,
           app.count = 1 + (IF old.date = y.day THEN old.count ELSE 0),
           \A s \in Policy!Sessions :
              app.sessions[s] = (IF old.date = y.day THEN old.sessions[s] ELSE 0)
                                + (IF s = y.session THEN 1 ELSE 0)
    PROVE  CountsRight(app, Append(cl, y), y.app)
  <1> DEFINE a == y.app
             n == Len(cl) + 1
             new == Append(cl, y)
             was == OnDate(cl, a, y.day)
  <1>1. /\ n \in Nat \ {0} /\ DOMAIN cl = 1..(n - 1) /\ n \notin DOMAIN cl
        /\ \A i \in DOMAIN cl : new[i] = cl[i]
        /\ new[n] = y /\ Of(new, a) = Of(cl, a) \cup {n}
    BY OneMore
  <1> HIDE DEF new, n
  <1>2. Of(cl, a) \subseteq DOMAIN cl
    BY DEF Of
  <1>3. OnDate(new, a, y.day) = was \cup {n}
    BY <1>1, <1>2 DEF OnDate
  <1>4. Latest(new, a) = OnDate(new, a, y.day)
    <2>1. /\ n \in Of(new, a) /\ new[n].day = y.day
          /\ \A i \in Of(new, a) : n >= i /\ i >= i
      BY <1>1, <1>2
    <2>2. ASSUME NEW i \in Latest(new, a) PROVE i \in OnDate(new, a, y.day)
      BY <2>1 DEF OnDate, Latest
    <2>3. ASSUME NEW i \in OnDate(new, a, y.day) PROVE i \in Latest(new, a)
      BY <2>1 DEF OnDate, Latest
    <2>4. QED
      BY <2>2, <2>3
  <1>5. was \subseteq DOMAIN cl /\ n \notin was
    BY <1>1, <1>2 DEF OnDate
  <1>6. IF old.date = y.day THEN was = Latest(cl, a) ELSE was = {}
    <2>1. was \subseteq Latest(cl, a)
      BY <1>1, <1>2 DEF OnDate, Latest
    <2>2. Latest(cl, a) = OnDate(cl, a, old.date)
      BY DEF CountsRight
    <2>3. ASSUME NEW i \in was PROVE old.date = y.day
      <3>1. i \in OnDate(cl, a, old.date) /\ i \in DOMAIN cl
        BY <1>5, <2>1, <2>2
      <3>2. i >= i
        BY <1>1, <3>1
      <3>3. cl[i].day = old.date /\ cl[i].day = y.day
        BY <3>1, <3>2 DEF OnDate
      <3>4. QED
        BY <3>3
    <2>4. QED
      BY <2>2, <2>3
  <1>7. \A T \in SUBSET was :
           Cardinality(T \cup {n}) = Cardinality(T) + 1 /\ Cardinality(T) \in Nat
    <2>1. ASSUME NEW T \in SUBSET was
          PROVE  Cardinality(T \cup {n}) = Cardinality(T) + 1 /\ Cardinality(T) \in Nat
      <3>1. IsFiniteSet(T) /\ Cardinality(T) \in Nat /\ n \notin T
        BY <1>5, Positions
      <3>2. QED
        BY <3>1, FS_AddElement
    <2>2. QED
      BY <2>1
  <1>8. Cardinality({}) = 0
    BY FS_EmptySet
  <1>9. app.count = Cardinality(Latest(new, a))
    <2>1. Cardinality(was \cup {n}) = Cardinality(was) + 1 /\ Cardinality(was) \in Nat
      BY <1>7
    <2>2. Cardinality(was) = IF old.date = y.day THEN old.count ELSE 0
      BY <1>6, <1>8 DEF CountsRight
    <2>3. QED
      BY <1>3, <1>4, <2>1, <2>2
  <1>10. ASSUME NEW s \in Policy!Sessions
         PROVE  app.sessions[s] = Cardinality({i \in Latest(new, a) : new[i].session = s})
    <2> DEFINE T == {i \in was : cl[i].session = s}
    <2>1. {i \in Latest(new, a) : new[i].session = s} = IF s = y.session THEN T \cup {n} ELSE T
      BY <1>1, <1>3, <1>4, <1>5
    <2>2. Cardinality(T \cup {n}) = Cardinality(T) + 1 /\ Cardinality(T) \in Nat
      <3>1. T \in SUBSET was
        OBVIOUS
      <3>2. QED
        BY <1>7, <3>1
    <2>3. Cardinality(T) = IF old.date = y.day THEN old.sessions[s] ELSE 0
      <3>1. CASE old.date = y.day
        BY <1>6, <3>1 DEF CountsRight
      <3>2. CASE old.date # y.day
        <4>1. T = {}
          BY <1>6, <3>2
        <4>2. QED
          BY <1>8, <3>2, <4>1
      <3>3. QED
        BY <3>1, <3>2
    <2>4. app.sessions[s] = Cardinality(T) + (IF s = y.session THEN 1 ELSE 0)
      BY <2>3
    <2> HIDE DEF T
    <2>5. CASE s = y.session
      BY <2>1, <2>2, <2>4, <2>5
    <2>6. CASE s # y.session
      <3>1. {i \in Latest(new, a) : new[i].session = s} = T
        BY <2>1, <2>6
      <3>2. app.sessions[s] = Cardinality(T)
        BY <2>2, <2>4, <2>6
      <3>3. QED
        BY <3>1, <3>2
    <2>7. QED
      BY <2>5, <2>6
  <1>11. CountsRight(app, new, a)
    BY <1>4, <1>9, <1>10 DEF CountsRight
  <1>12. QED
    BY <1>11 DEF new
\* A claim of app a: its text becomes the newest hash, the oldest one is forgotten.
LEMMA OwnClaimHashes ==
    ASSUME HashLimit \in Nat \ {0},
           NEW cl \in Seq(Policy!Items), NEW y \in Policy!Items, NEW old, NEW app,
           HashesRight(old, cl, y.app),
           old.hashes \in Hashes,
           app.hashes = Policy!LastOf(Append(old.hashes, y.text), HashLimit)
    PROVE  HashesRight(app, Append(cl, y), y.app)
  <1> DEFINE a == y.app
             n == Len(cl) + 1
             new == Append(cl, y)
             h == old.hashes
             more == Append(h, y.text)
  <1>1. /\ n \in Nat \ {0} /\ DOMAIN cl = 1..(n - 1) /\ n \notin DOMAIN cl
        /\ \A i \in DOMAIN cl : new[i] = cl[i]
        /\ new[n] = y /\ Of(new, a) = Of(cl, a) \cup {n}
    BY OneMore
  <1>2. y.text \in Texts /\ h \in Seq(Texts) /\ Len(h) \in Nat /\ Len(h) <= HashLimit
    <2>1. PICK m \in 0..HashLimit : h \in [1..m -> Texts]
      BY DEF Hashes
    <2>2. h \in Seq(Texts) /\ Len(h) = m
      BY <2>1, LenProperties
    <2>3. QED
      BY <2>1, <2>2 DEF Policy!Items
  <1>3. /\ more \in Seq(Texts) /\ Len(more) = Len(h) + 1
        /\ \A i \in 1..Len(h) : more[i] = h[i]
        /\ more[Len(h) + 1] = y.text
    BY <1>2, AppendProperties
  <1> HIDE DEF new, n, more, h
  <1>4. /\ Len(app.hashes) = IF Len(h) = HashLimit THEN HashLimit ELSE Len(h) + 1
        /\ \A k \in 1..Len(app.hashes) :
              app.hashes[Len(app.hashes) + 1 - k] = more[Len(h) + 2 - k]
    <2>0. app.hashes = Policy!LastOf(more, HashLimit)
      BY DEF more, h
    <2>1. CASE Len(h) + 1 <= HashLimit
      <3>1. app.hashes = more
        BY <1>3, <2>0, <2>1 DEF Policy!LastOf
      <3>2. QED
        BY <1>2, <1>3, <2>1, <3>1
    <2>2. CASE Len(h) = HashLimit
      <3>1. app.hashes = SubSeq(more, 2, Len(h) + 1)
        <4>1. ~(Len(more) <= HashLimit) /\ Len(more) - HashLimit + 1 = 2 /\ Len(more) = Len(h) + 1
          BY <1>2, <1>3, <2>2
        <4>2. QED
          BY <2>0, <4>1 DEF Policy!LastOf
      <3>2. /\ Len(app.hashes) = Len(h)
            /\ \A i \in 1..Len(h) : app.hashes[i] = more[i + 1]
        <4>1. 2 \in 1..(Len(more) + 1) /\ Len(h) + 1 \in 1..Len(more)
          BY <1>2, <1>3, <2>2
        <4>2. /\ Len(app.hashes) = (Len(h) + 1) - 2 + 1
              /\ \A i \in 1..((Len(h) + 1) - 2 + 1) : app.hashes[i] = more[2 + i - 1]
          BY <1>2, <1>3, <2>2, <3>1, <4>1, SubSeqProperties
        <4>3. QED
          BY <1>2, <4>2
      <3>3. \A k \in 1..Len(h) : Len(h) + 1 - k \in 1..Len(h) /\ (Len(h) + 1 - k) + 1 = Len(h) + 2 - k
        BY <1>2
      <3>4. QED
        BY <1>2, <2>2, <3>2, <3>3
    <2>3. QED
      BY <1>2, <2>1, <2>2
  <1>5. ASSUME NEW i \in Of(new, a),
               Cardinality(Since(new, a, i)) <= HashLimit
        PROVE  /\ Cardinality(Since(new, a, i)) <= Len(app.hashes)
               /\ app.hashes[Len(app.hashes) + 1 - Cardinality(Since(new, a, i))] = new[i].text
    <2>1. CASE i = n
      <3>1. Since(new, a, i) = {n}
        BY <1>1, <2>1 DEF Since, Of
      <3>2. Cardinality(Since(new, a, i)) = 1
        BY <3>1, FS_Singleton
      <3>3. 1 \in 1..Len(app.hashes)
        BY <1>2, <1>4
      <3>4. app.hashes[Len(app.hashes) + 1 - 1] = more[Len(h) + 2 - 1]
        BY <1>4, <3>3
      <3>5. Len(h) + 2 - 1 = Len(h) + 1
        BY <1>2
      <3>6. QED
        BY <1>1, <1>3, <2>1, <3>2, <3>3, <3>4, <3>5
    <2>2. CASE i # n
      <3> DEFINE age == Cardinality(Since(cl, a, i))
      <3>1. i \in Of(cl, a) /\ i \in DOMAIN cl /\ i \in 1..(n - 1)
        BY <1>1, <2>2 DEF Of
      <3>2. Since(new, a, i) = Since(cl, a, i) \cup {n} /\ n \notin Since(cl, a, i)
        BY <1>1, <3>1 DEF Since, Of
      <3>3. IsFiniteSet(Since(cl, a, i)) /\ age \in Nat
        <4>1. Since(cl, a, i) \subseteq DOMAIN cl
          BY DEF Since, Of
        <4>2. QED
          BY <4>1, Positions
      <3>4. Cardinality(Since(new, a, i)) = age + 1
        BY <3>2, <3>3, FS_AddElement
      <3>5. age # 0
        <4>1. i \in Since(cl, a, i)
          BY <1>1, <3>1 DEF Since
        <4>2. QED
          BY <3>3, <4>1, FS_EmptySet
      <3> HIDE DEF age
      <3>6. age <= HashLimit
        BY <1>5, <3>3, <3>4
      <3>7. age <= Len(h) /\ h[Len(h) + 1 - age] = cl[i].text
        BY <3>1, <3>6 DEF HashesRight, age, h
      <3>8. age + 1 \in 1..Len(app.hashes)
        BY <1>2, <1>4, <1>5, <3>3, <3>4, <3>7
      <3>9. app.hashes[Len(app.hashes) + 1 - (age + 1)] = more[Len(h) + 2 - (age + 1)]
        BY <1>4, <3>8
      <3>10. Len(h) + 2 - (age + 1) = Len(h) + 1 - age /\ Len(h) + 1 - age \in 1..Len(h)
        BY <1>2, <3>3, <3>5, <3>7
      <3>11. new[i] = cl[i]
        BY <1>1, <3>1
      <3>12. Len(app.hashes) \in Nat
        BY <1>2, <1>4
      <3>13. age + 1 <= Len(app.hashes)
        BY <3>8, <3>12
      <3>14. QED
        BY <1>3, <3>4, <3>7, <3>9, <3>10, <3>11, <3>13
    <2>3. QED
      BY <2>1, <2>2
  <1>6. HashesRight(app, new, a)
    BY <1>5 DEF HashesRight
  <1>7. QED
    BY <1>6 DEF new

\* A claim whose app's counters are right and within the limits keeps the limits:
\* claims of one day up to the last one are claims since the date changed.
LEMMA ClaimWithinLimits ==
    ASSUME Policy!PolicyAssumption, NEW cl \in Seq(Policy!Items), NEW y \in Policy!Items,
           NEW app \in Policy!AppStates,
           CountsRight(app, Append(cl, y), y.app), WithinLimits(cl)
    PROVE  WithinLimits(Append(cl, y))
  <1> DEFINE n == Len(cl) + 1
             new == Append(cl, y)
  <1>1. /\ n \in Nat \ {0} /\ new \in Seq(Policy!Items)
        /\ DOMAIN cl = 1..(n - 1) /\ DOMAIN new = 1..n /\ n \notin DOMAIN cl
        /\ \A i \in DOMAIN cl : new[i] = cl[i]
        /\ new[n] = y
        /\ \A a : Of(new, a) = IF y.app = a THEN Of(cl, a) \cup {n} ELSE Of(cl, a)
    BY OneMore
  <1>2. SessionLimit \in Nat /\ DailyLimit \in Nat
    BY DEF Policy!PolicyAssumption
  <1> HIDE DEF new, n
  <1>3. \A a : Of(cl, a) \subseteq DOMAIN cl
    BY DEF Of
  <1>4. SUFFICES ASSUME NEW a \in Policy!Apps, NEW i \in DOMAIN new, NEW j \in DOMAIN new,
                        \A k, l \in Of(new, a) \cap (i..j) : new[k].day = new[l].day
                 PROVE  /\ Cardinality(Of(new, a) \cap (i..j)) <= DailyLimit
                        /\ \A s \in Policy!Sessions :
                              Cardinality({k \in Of(new, a) \cap (i..j) : new[k].session = s})
                                <= SessionLimit
    BY DEF WithinLimits, new
  <1> DEFINE block == Of(new, a) \cap (i..j)
             here(s) == {k \in block : new[k].session = s}
  <1>5. CASE n \in block
    <2>1. j = n /\ y.app = a
      BY <1>1, <1>3, <1>5
    <2>2. block \subseteq Latest(new, a)
      <3>1. SUFFICES ASSUME NEW k \in block, NEW l \in Of(new, a), l >= k
                     PROVE  new[l].day = new[k].day
        BY DEF Latest
      <3>2. k \in 1..n /\ l \in 1..n /\ i \in 1..n /\ k >= i
        BY <1>1, <1>3
      <3>3. l \in i..j
        BY <1>1, <2>1, <3>1, <3>2
      <3>4. QED
        BY <1>4, <3>1, <3>3
    <2>3. Latest(new, a) \subseteq DOMAIN new
      BY <1>1, <1>3 DEF Latest
    <2>4. IsFiniteSet(Latest(new, a))
      BY <1>1, <2>3, Positions
    <2>5. Cardinality(block) <= Cardinality(Latest(new, a))
      BY <2>2, <2>4, FS_Subset
    <2>6. app.count = Cardinality(Latest(new, a)) /\ app.count \in 0..DailyLimit
      BY <2>1 DEF CountsRight, Policy!AppStates, new
    <2>7. block \subseteq DOMAIN new
      BY <2>2, <2>3
    <2>8. Cardinality(block) \in Nat
      BY <1>1, <2>7, Positions
    <2>9. Cardinality(block) <= DailyLimit
      BY <1>2, <2>5, <2>6, <2>8
    <2>10. ASSUME NEW s \in Policy!Sessions PROVE Cardinality(here(s)) <= SessionLimit
      <3> DEFINE all == {k \in Latest(new, a) : new[k].session = s}
      <3>1. here(s) \subseteq all /\ all \subseteq DOMAIN new /\ here(s) \subseteq DOMAIN new
        BY <2>2, <2>3
      <3>2. IsFiniteSet(all) /\ Cardinality(all) \in Nat /\ Cardinality(here(s)) \in Nat
        BY <1>1, <3>1, Positions
      <3>3. Cardinality(here(s)) <= Cardinality(all)
        BY <3>1, <3>2, FS_Subset
      <3>4. app.sessions[s] = Cardinality(all) /\ app.sessions[s] \in 0..SessionLimit
        BY <2>1 DEF CountsRight, Policy!AppStates, new
      <3> HIDE DEF all, here
      <3>5. QED
        BY <1>2, <3>2, <3>3, <3>4
    <2>11. QED
      BY <2>9, <2>10
  <1>6. CASE n \notin block
    <2>1. CASE i = n
      <3>1. block = {}
        BY <1>1, <1>3, <1>6, <2>1
      <3>2. Cardinality(block) = 0 /\ \A s : here(s) = {}
        BY <3>1, FS_EmptySet
      <3>3. \A s : Cardinality(here(s)) = 0
        BY <3>2, FS_EmptySet
      <3> HIDE DEF block, here
      <3>4. Cardinality(block) <= DailyLimit /\ \A s : Cardinality(here(s)) <= SessionLimit
        BY <1>2, <3>2, <3>3
      <3>5. QED
        BY <3>4 DEF block, here
    <2>2. CASE i # n
      <3>1. PICK m \in DOMAIN cl : block = Of(cl, a) \cap (i..m)
        <4>1. CASE j = n
          <5>1. n - 1 \in DOMAIN cl
            BY <1>1, <2>2
          <5>2. \A k \in DOMAIN cl : k \in i..j <=> k \in i..(n - 1)
            BY <1>1, <4>1
          <5>3. block = Of(cl, a) \cap (i..(n - 1))
            <6>1. \A k : k \in block => k \in Of(cl, a)
              BY <1>1, <1>6
            <6>2. \A k : k \in Of(cl, a) => k \in Of(new, a) /\ k \in DOMAIN cl
              BY <1>1, <1>3
            <6>3. QED
              BY <5>2, <6>1, <6>2
          <5>4. QED
            BY <5>1, <5>3
        <4>2. CASE j # n
          <5>1. j \in DOMAIN cl
            BY <1>1, <4>2
          <5>2. block = Of(cl, a) \cap (i..j)
            BY <1>1, <1>3, <4>2
          <5>3. QED
            BY <5>1, <5>2
        <4>3. QED
          BY <4>1, <4>2
      <3>2. i \in DOMAIN cl
        BY <1>1, <2>2
      <3>3. \A k \in block : new[k] = cl[k]
        BY <1>1, <1>3, <3>1
      <3>4. \A k, l \in Of(cl, a) \cap (i..m) : cl[k].day = cl[l].day
        BY <1>4, <3>1, <3>3
      <3>5. /\ Cardinality(Of(cl, a) \cap (i..m)) <= DailyLimit
            /\ \A s \in Policy!Sessions :
                  Cardinality({k \in Of(cl, a) \cap (i..m) : cl[k].session = s}) <= SessionLimit
        BY <3>2, <3>4 DEF WithinLimits
      <3>6. \A s : here(s) = {k \in Of(cl, a) \cap (i..m) : cl[k].session = s}
        BY <3>1, <3>3
      <3>7. QED
        BY <3>1, <3>5, <3>6
    <2>3. QED
      BY <2>1, <2>2
  <1>7. QED
    BY <1>5, <1>6
\* A claim whose text is not among the hashes of its app repeats none of its last
\* HashLimit claims.
LEMMA ClaimNoRepeat ==
    ASSUME HashLimit \in Nat \ {0},
           NEW cl \in Seq(Policy!Items), NEW y \in Policy!Items, NEW old,
           HashesRight(old, cl, y.app), old.hashes \in Hashes,
           \A k \in DOMAIN old.hashes : old.hashes[k] # y.text,
           NoRepeats(cl)
    PROVE  NoRepeats(Append(cl, y))
  <1> DEFINE n == Len(cl) + 1
             new == Append(cl, y)
  <1>1. /\ n \in Nat \ {0} /\ DOMAIN cl = 1..(n - 1) /\ DOMAIN new = 1..n /\ n \notin DOMAIN cl
        /\ \A i \in DOMAIN cl : new[i] = cl[i]
        /\ new[n] = y
        /\ \A a : Of(new, a) = IF y.app = a THEN Of(cl, a) \cup {n} ELSE Of(cl, a)
    BY OneMore
  <1>2. \A a : Of(cl, a) \subseteq DOMAIN cl
    BY DEF Of
  <1>3. Len(old.hashes) \in Nat /\ DOMAIN old.hashes = 1..Len(old.hashes)
    <2>1. PICK m \in 0..HashLimit : old.hashes \in [1..m -> Texts]
      BY DEF Hashes
    <2>2. QED
      BY <2>1, LenProperties
  <1> HIDE DEF new, n
  <1>4. SUFFICES ASSUME NEW i \in DOMAIN new, NEW j \in DOMAIN new,
                        i < j, new[i].app = new[j].app, new[i].text = new[j].text
                 PROVE  Cardinality(Of(new, new[i].app) \cap (i..j)) >= HashLimit + 2
    BY DEF NoRepeats, new
  <1>5. i \in DOMAIN cl /\ new[i] = cl[i]
    BY <1>1, <1>4
  <1>6. CASE j = n
    <2> DEFINE a == y.app
    <2>1. cl[i].app = a /\ cl[i].text = y.text /\ i \in Of(cl, a)
      BY <1>1, <1>4, <1>5, <1>6 DEF Of
    <2>2. Of(new, new[i].app) \cap (i..j) = Since(cl, a, i) \cup {n}
      BY <1>1, <1>2, <1>5, <1>6, <2>1 DEF Since
    <2>3. Since(cl, a, i) \subseteq DOMAIN cl /\ n \notin Since(cl, a, i)
      BY <1>1, <1>2 DEF Since
    <2>4. IsFiniteSet(Since(cl, a, i)) /\ Cardinality(Since(cl, a, i)) \in Nat
      BY <2>3, Positions
    <2>5. Cardinality(Since(cl, a, i)) # 0
      <3>1. i \in Since(cl, a, i)
        BY <1>1, <1>5, <2>1 DEF Since
      <3>2. QED
        BY <2>4, <3>1, FS_EmptySet
    <2>6. ~(Cardinality(Since(cl, a, i)) <= HashLimit)
      <3>1. SUFFICES ASSUME Cardinality(Since(cl, a, i)) <= HashLimit PROVE FALSE
        OBVIOUS
      <3> DEFINE age == Cardinality(Since(cl, a, i))
      <3>2. age <= Len(old.hashes) /\ old.hashes[Len(old.hashes) + 1 - age] = y.text
        BY <2>1, <3>1 DEF HashesRight
      <3> HIDE DEF age
      <3>3. age \in Nat \ {0}
        BY <2>4, <2>5 DEF age
      <3>4. Len(old.hashes) + 1 - age \in DOMAIN old.hashes
        BY <1>3, <3>2, <3>3
      <3>5. QED
        BY <3>2, <3>4
    <2>7. Cardinality(Since(cl, a, i) \cup {n}) = Cardinality(Since(cl, a, i)) + 1
      BY <2>3, <2>4, FS_AddElement
    <2>8. Cardinality(Since(cl, a, i)) + 1 >= HashLimit + 2
      <3> DEFINE age == Cardinality(Since(cl, a, i))
      <3>1. age \in Nat /\ ~(age <= HashLimit)
        BY <2>4, <2>6
      <3> HIDE DEF age
      <3>2. age + 1 >= HashLimit + 2
        BY <3>1
      <3>3. QED
        BY <3>2 DEF age
    <2>9. QED
      BY <2>2, <2>7, <2>8
  <1>7. CASE j # n
    <2>1. j \in DOMAIN cl /\ new[j] = cl[j]
      BY <1>1, <1>7
    <2>2. Cardinality(Of(cl, cl[i].app) \cap (i..j)) >= HashLimit + 2
      BY <1>4, <1>5, <2>1 DEF NoRepeats
    <2>3. Of(new, new[i].app) \cap (i..j) = Of(cl, cl[i].app) \cap (i..j)
      BY <1>1, <1>2, <1>5, <2>1
    <2>4. QED
      BY <2>2, <2>3
  <1>8. QED
    BY <1>6, <1>7

\* What claimCapture decides to write: the state with the claim agrees with the
\* claims and this one.
LEMMA DecidedGood ==
    ASSUME Policy!PolicyAssumption, Policy!TypeOK, NEW p \in Processes, file \in Policy!States,
           Good(file, claims), Policy!Eligible(Policy!AppState(file, p), p)
    PROVE  Good([file EXCEPT ![AppOf[p]] = Policy!Counted(Policy!AppState(file, p), p)],
                Append(claims, Policy!Item(p)))
  <1> DEFINE a == AppOf[p]
             y == Policy!Item(p)
             old == file[a]
             base == Policy!AppState(file, p)
             app == Policy!Counted(base, p)
             st == [file EXCEPT ![a] = app]
  <1>1. /\ a \in Policy!Apps /\ claims \in Seq(Policy!Items) /\ y \in Policy!Items
        /\ y.app = a /\ y.session = SessionOf[p] /\ y.text = text[p] /\ y.day = now[p]
        /\ SessionOf[p] \in Policy!Sessions
    BY ItemTyped DEF Policy!TypeOK, Policy!Item, Policy!Apps, Policy!Sessions
  <1>2. st \in Policy!States
    BY CountedFits
  <1>3. st[a] = app /\ (\A b \in Policy!Apps \ {a} : st[b] = file[b])
    BY <1>1 DEF Policy!States
  <1>4. app \in Policy!AppStates /\ old \in Policy!AppStates
    BY <1>1, <1>2, <1>3 DEF Policy!States
  <1>5. CountsRight(old, claims, a) /\ HashesRight(old, claims, a)
    BY <1>1 DEF Good, Matches
  <1>6. /\ base.date = now[p] /\ base.hashes = old.hashes
        /\ base.count = IF old.date = now[p] THEN old.count ELSE 0
        /\ \A s \in Policy!Sessions :
              base.sessions[s] = IF old.date = now[p] THEN old.sessions[s] ELSE 0
        /\ DOMAIN base.sessions = Policy!Sessions
    BY <1>4 DEF Policy!AppState, Policy!AppStates
  <1>7. base \in Policy!AppStates
    BY AppStateTyped
  <1> HIDE DEF base, y, st, old
  <1>8. /\ app.date = y.day
        /\ app.count = base.count + 1
        /\ app.hashes = Policy!LastOf(Append(base.hashes, y.text), HashLimit)
        /\ \A s \in Policy!Sessions :
              app.sessions[s] = base.sessions[s] + (IF s = y.session THEN 1 ELSE 0)
    BY <1>1, <1>6, <1>7 DEF Policy!Counted, Policy!AppStates
  <1> HIDE DEF app
  <1>9. CountsRight(app, Append(claims, y), a)
    <2>1. app.count = 1 + (IF old.date = y.day THEN old.count ELSE 0)
      BY <1>1, <1>4, <1>6, <1>7, <1>8 DEF Policy!AppStates
    <2>2. ASSUME NEW s \in Policy!Sessions
          PROVE  app.sessions[s] = (IF old.date = y.day THEN old.sessions[s] ELSE 0)
                                   + (IF s = y.session THEN 1 ELSE 0)
      BY <1>1, <1>6, <1>8
    <2>3. QED
      BY <1>1, <1>5, <1>8, <2>1, <2>2, OwnClaimCounts
  <1>10. old.hashes \in Hashes /\ HashLimit \in Nat \ {0}
    BY <1>4 DEF Policy!AppStates, Hashes, Policy!PolicyAssumption
  <1>11. HashesRight(app, Append(claims, y), a)
    BY <1>1, <1>5, <1>6, <1>8, <1>10, OwnClaimHashes
  <1>12. Matches(st, Append(claims, y))
    <2>1. SUFFICES ASSUME NEW b \in Policy!Apps \ {a}
                   PROVE  CountsRight(st[b], Append(claims, y), b) /\ HashesRight(st[b], Append(claims, y), b)
      BY <1>3, <1>9, <1>11 DEF Matches
    <2>2. st[b] = file[b] /\ CountsRight(file[b], claims, b) /\ HashesRight(file[b], claims, b)
      BY <1>3 DEF Good, Matches
    <2>3. QED
      BY <1>1, <2>2, OtherClaim
  <1>13. WithinLimits(Append(claims, y))
    BY <1>1, <1>4, <1>9, ClaimWithinLimits DEF Good
  <1>14. NoRepeats(Append(claims, y))
    <2>1. \A k \in DOMAIN old.hashes : old.hashes[k] # y.text
      BY <1>1, <1>6 DEF Policy!Eligible, base
    <2>2. QED
      BY <1>1, <1>5, <1>10, <2>1, ClaimNoRepeat DEF Good
  <1>15. QED
    BY <1>12, <1>13, <1>14 DEF Good, st, app, base, y
\* The claims on disk keep the limits and repeat nothing remembered; the file, unless
\* it was damaged, agrees with them; and so will what a process is about to write,
\* which nobody outdates while it holds the lock.
QuotaInv ==
    /\ WithinLimits(claims) /\ NoRepeats(claims)
    /\ file # Corrupt => Matches(file, claims)
    /\ \A p \in Processes : policyPc[p] = "persisting" => Good(state[p], Append(claims, Policy!Item(p)))

SharedInv == Policy!TypeOK /\ LockOwned /\ QuotaInv

LEMMA InitQuotaInv == ASSUME Policy!PolicyAssumption, Policy!Init PROVE QuotaInv
  <1>1. claims = <<>> /\ file = Policy!EmptyState /\ \A p \in Processes : policyPc[p] # "persisting"
    BY DEF Policy!Init
  <1>2. DOMAIN claims = {}
    BY <1>1
  <1>3. \A a : Of(claims, a) = {} /\ Latest(claims, a) = {} /\ \A d : OnDate(claims, a, d) = {}
    BY <1>2 DEF Of, Latest, OnDate
  <1>4. Cardinality({}) = 0
    BY FS_EmptySet
  <1>5. WithinLimits(claims) /\ NoRepeats(claims)
    BY <1>2 DEF WithinLimits, NoRepeats
  <1>6. \A a \in Policy!Apps : file[a] = Policy!NewApp
    BY <1>1 DEF Policy!EmptyState
  <1>7. ASSUME NEW a \in Policy!Apps
        PROVE  CountsRight(file[a], claims, a) /\ HashesRight(file[a], claims, a)
    <2>1. \A s : {i \in Latest(claims, a) : claims[i].session = s} = {}
      BY <1>3
    <2>2. Policy!NewApp.count = 0 /\ \A s \in Policy!Sessions : Policy!NewApp.sessions[s] = 0
      BY DEF Policy!NewApp
    <2>3. CountsRight(file[a], claims, a)
      BY <1>3, <1>4, <1>6, <2>1, <2>2 DEF CountsRight
    <2>4. HashesRight(file[a], claims, a)
      BY <1>3 DEF HashesRight
    <2>5. QED
      BY <2>3, <2>4
  <1>8. QED
    BY <1>1, <1>5, <1>7 DEF QuotaInv, Matches

\* Steps that leave the claims and the file, and let nobody persist something new.
LEMMA QuotasKeptBy ==
    ASSUME QuotaInv, UNCHANGED <<claims, file>>,
           \A p \in Processes : policyPc'[p] = "persisting" =>
               policyPc[p] = "persisting" /\ UNCHANGED <<state[p], text[p], now[p]>>
    PROVE  QuotaInv'
  <1>1. \A p \in Processes : policyPc'[p] = "persisting" => Policy!Item(p)' = Policy!Item(p)
    BY DEF Policy!Item
  <1>2. QED
    BY <1>1 DEF QuotaInv

LEMMA NextQuotaInv ==
    ASSUME Policy!PolicyAssumption, SharedInv, [Policy!Next]_(Policy!vars)
    PROVE  QuotaInv'
  <1> USE DEF SharedInv
  <1>0. /\ policyPc \in [Processes -> PolicyPlaces] /\ state \in [Processes -> Policy!States]
        /\ text \in [Processes -> Texts] /\ now \in [Processes -> 1..LastDay]
    BY DEF Policy!TypeOK, LockOwned
  <1>1. ASSUME NEW p \in Processes, Policy!Start(p) PROVE QuotaInv'
    BY <1>0, <1>1, QuotasKeptBy DEF Policy!Start
  <1>2. ASSUME NEW p \in Processes, NEW t \in Texts, Policy!Offer(p, t) PROVE QuotaInv'
    BY <1>0, <1>2, QuotasKeptBy DEF Policy!Offer
  <1>3. ASSUME NEW p \in Processes, Policy!OpenLock(p) PROVE QuotaInv'
    BY <1>0, <1>3, QuotasKeptBy DEF Policy!OpenLock
  <1>4. ASSUME NEW p \in Processes, Policy!LockUnavailable(p) PROVE QuotaInv'
    BY <1>0, <1>4, QuotasKeptBy DEF Policy!LockUnavailable
  <1>5. ASSUME NEW p \in Processes, Policy!Decide(p) PROVE QuotaInv'
    <2>1. CASE Policy!Valid(file) /\ Policy!Eligible(Policy!AppState(file, p), p)
      <3>1. file \in Policy!States /\ Good(file, claims)
        BY <2>1 DEF Policy!Valid, Policy!TypeOK, QuotaInv, Good
      <3>2. Good([file EXCEPT ![AppOf[p]] = Policy!Counted(Policy!AppState(file, p), p)], Append(claims, Policy!Item(p)))
        BY <2>1, <3>1, DecidedGood
      <3>3. /\ state' = [state EXCEPT ![p] =
                           [file EXCEPT ![AppOf[p]] = Policy!Counted(Policy!AppState(file, p), p)]]
            /\ policyPc' = [policyPc EXCEPT ![p] = "persisting"]
            /\ UNCHANGED <<text, now, file, claims>>
        BY <1>5, <2>1 DEF Policy!Decide
      <3>4. \A q \in Processes : Policy!Item(q)' = Policy!Item(q)
        BY <3>3 DEF Policy!Item
      <3>5. \A q \in Processes : policyPc'[q] = "persisting" => Good(state'[q], Append(claims, Policy!Item(q)))
        BY <1>0, <3>2, <3>3 DEF QuotaInv
      <3>6. QED
        BY <3>3, <3>4, <3>5 DEF QuotaInv
    <2>2. CASE ~(Policy!Valid(file) /\ Policy!Eligible(Policy!AppState(file, p), p))
      BY <1>0, <1>5, <2>2, QuotasKeptBy DEF Policy!Decide
    <2>3. QED
      BY <2>1, <2>2
  <1>p. ASSUME NEW p \in Processes, policyPc[p] = "persisting",
               policyPc' = [policyPc EXCEPT ![p] = "leaving"],
               file' = state[p], claims' = Append(claims, Policy!Item(p))
        PROVE  QuotaInv'
    <2>1. \A q \in Processes : policyPc'[q] # "persisting"
      BY <1>0, <1>p DEF LockOwned, Policy!Inside
    <2>2. Good(state[p], claims')
      BY <1>p DEF QuotaInv
    <2>3. QED
      BY <1>p, <2>1, <2>2 DEF QuotaInv, Good
  <1>6. ASSUME NEW p \in Processes, Policy!Persist(p) PROVE QuotaInv'
    BY <1>6, <1>p DEF Policy!Persist
  <1>7. ASSUME NEW p \in Processes, Policy!PersistFails(p) PROVE QuotaInv'
    <2>1. CASE UNCHANGED <<file, claims>>
      BY <1>0, <1>7, <2>1, QuotasKeptBy DEF Policy!PersistFails
    <2>2. CASE file' = state[p] /\ claims' = Append(claims, Policy!Item(p))
      BY <1>7, <1>p, <2>2 DEF Policy!PersistFails
    <2>3. QED
      BY <1>7, <2>1, <2>2 DEF Policy!PersistFails
  <1>8. ASSUME NEW p \in Processes, Policy!Unlock(p) PROVE QuotaInv'
    BY <1>0, <1>8, QuotasKeptBy DEF Policy!Unlock
  <1>9. ASSUME NEW p \in Processes, Policy!UnlockFails(p) PROVE QuotaInv'
    BY <1>0, <1>9, QuotasKeptBy DEF Policy!UnlockFails
  <1>10. ASSUME NEW p \in Processes, Policy!Die(p) PROVE QuotaInv'
    BY <1>0, <1>10, QuotasKeptBy DEF Policy!Die
  <1>11. CASE Policy!Damage
    BY <1>11 DEF Policy!Damage, Policy!local, QuotaInv, Policy!Item
  <1>12. CASE Policy!Midnight
    BY <1>12, QuotasKeptBy DEF Policy!Midnight, Policy!local
  <1>13. CASE UNCHANGED Policy!vars
    BY <1>13, QuotasKeptBy DEF Policy!vars, Policy!local
  <1>14. QED
    BY <1>1, <1>2, <1>3, <1>4, <1>5, <1>6, <1>7, <1>8, <1>9, <1>10, <1>11, <1>12, <1>13
       DEF Policy!Next, Policy!Call

LEMMA SharedInvTheorem == ASSUME Policy!PolicyAssumption PROVE Policy!Spec => []SharedInv
  <1>1. Policy!Init => SharedInv
    BY InitTypeOK, InitLockOwned, InitQuotaInv DEF SharedInv
  <1>2. SharedInv /\ [Policy!Next]_(Policy!vars) => SharedInv'
    BY NextTypeOK, NextLockOwned, NextQuotaInv DEF SharedInv
  <1>3. QED
    BY <1>1, <1>2, PTL DEF Policy!Spec

\* The state file counts every claim: none is lost to another process, to a failure
\* or to a death, and the counters start again exactly when the date changes.
THEOREM ClaimsCountedTheorem ==
    ASSUME Policy!PolicyAssumption
    PROVE  Policy!Spec => []Policy!ClaimsCounted
  <1>1. \A a : Policy!ClaimsOf(a) = Of(claims, a)
    BY DEF Policy!ClaimsOf, Of
  <1>2. \A a : Policy!SinceReset(a) = Latest(claims, a)
    BY <1>1 DEF Policy!SinceReset, Latest
  <1>3. SharedInv => Policy!ClaimsCounted
    BY <1>2, SameCardinality DEF SharedInv, QuotaInv, Matches, CountsRight, Policy!ClaimsCounted
  <1>4. QED
    BY <1>3, SharedInvTheorem, PTL

\* Among the claims of an app that follow one another with the same date, none lies
\* beyond its session's limit or the day's, with any number of processes, whichever of
\* them die and whichever writes fail.
THEOREM LimitsKeptTheorem ==
    ASSUME Policy!PolicyAssumption
    PROVE  Policy!Spec => []Policy!LimitsKept
  <1>1. \A a : Policy!ClaimsOf(a) = Of(claims, a)
    BY DEF Policy!ClaimsOf, Of
  <1>2. SharedInv => Policy!LimitsKept
    BY <1>1, SameCardinality DEF SharedInv, QuotaInv, WithinLimits, Policy!LimitsKept
  <1>3. QED
    BY <1>2, SharedInvTheorem, PTL

\* No claim and no call is dated in the future.  A process that has made a claim dated
\* before an earlier claim has no second such call on its way: it began its next one when
\* the later date had come.
Claiming == {"opening", "deciding", "persisting"}

LateInv ==
    /\ \A p \in Processes : now[p] <= today
    /\ \A i \in DOMAIN claims : claims[i].day <= today
    /\ \A i, j \in DOMAIN claims :
          i < j /\ claims[j].day < claims[i].day /\ policyPc[claims[j].process] \in Claiming
              => claims[i].day <= now[claims[j].process]
    /\ Policy!LateOnce

\* Dates and claims have their types.
LEMMA DatesTyped ==
    ASSUME Policy!TypeOK
    PROVE  /\ today \in Nat /\ \A p \in Processes : now[p] \in Nat
           /\ \A i \in DOMAIN claims : claims[i].process \in Processes /\ claims[i].day \in Nat
  <1>1. today \in Nat /\ \A p \in Processes : now[p] \in Nat
    BY DEF Policy!TypeOK
  <1>2. \A i \in DOMAIN claims : claims[i] \in Policy!Items
    BY LenProperties DEF Policy!TypeOK
  <1>3. \A x \in Policy!Items : x.process \in Processes /\ x.day \in Nat
    BY DEF Policy!Items
  <1>4. QED
    BY <1>1, <1>2, <1>3

\* Steps that make no claim and begin no call.
LEMMA LateKeptBy ==
    ASSUME Policy!TypeOK, LateInv, UNCHANGED <<claims, now>>, today' \in {today, today + 1},
           \A p \in Processes : policyPc'[p] \in Claiming => policyPc[p] \in Claiming
    PROVE  LateInv'
  <1>1. /\ today \in Nat /\ \A p \in Processes : now[p] \in Nat
        /\ \A i \in DOMAIN claims : claims[i].process \in Processes /\ claims[i].day \in Nat
    BY DatesTyped
  <1>2. Policy!LateOnce'
    BY DEF LateInv, Policy!LateOnce
  <1>3. /\ \A p \in Processes : now'[p] <= today'
        /\ \A i \in DOMAIN claims' : claims'[i].day <= today'
    BY <1>1 DEF LateInv
  <1>4. ASSUME NEW i \in DOMAIN claims, NEW j \in DOMAIN claims, i < j,
               claims[j].day < claims[i].day, policyPc'[claims[j].process] \in Claiming
        PROVE  claims[i].day <= now[claims[j].process]
    BY <1>1, <1>4 DEF LateInv
  <1>5. QED
    BY <1>2, <1>3, <1>4 DEF LateInv

\* A process writes its claim.
LEMMA LateKeptByClaim ==
    ASSUME Policy!TypeOK, LateInv, UNCHANGED <<now, today>>, NEW p \in Processes,
           policyPc[p] = "persisting", policyPc' = [policyPc EXCEPT ![p] = "leaving"],
           claims' = Append(claims, Policy!Item(p))
    PROVE  LateInv'
  <1> DEFINE n == Len(claims) + 1
  <1>1. /\ n \in Nat \ {0} /\ DOMAIN claims = 1..(n - 1) /\ DOMAIN claims' = 1..n
        /\ \A i \in DOMAIN claims : claims'[i] = claims[i]
        /\ claims'[n].process = p /\ claims'[n].day = now[p]
    BY OneMore, ItemTyped DEF Policy!TypeOK, Policy!Item
  <1> HIDE DEF n
  <1>2. /\ today \in Nat /\ \A q \in Processes : now[q] \in Nat
        /\ \A i \in DOMAIN claims : claims[i].process \in Processes /\ claims[i].day \in Nat
    BY DatesTyped
  <1>3. \A i \in DOMAIN claims' : i \in DOMAIN claims \/ i = n
    BY <1>1
  <1>4. \A i, j \in DOMAIN claims' : i < j => i \in DOMAIN claims
    BY <1>1
  <1>5. \A i \in DOMAIN claims' : claims'[i].day <= today'
    BY <1>1, <1>3 DEF LateInv
  <1>6. \A q \in Processes : policyPc'[q] \in Claiming => q # p /\ policyPc[q] \in Claiming
    BY DEF Policy!TypeOK, Claiming
  <1>7. ASSUME NEW i \in DOMAIN claims', NEW j \in DOMAIN claims', i < j,
               claims'[j].day < claims'[i].day, policyPc'[claims'[j].process] \in Claiming
        PROVE  claims'[i].day <= now'[claims'[j].process]
    <2>1. j # n
      BY <1>1, <1>6, <1>7
    <2>2. i \in DOMAIN claims /\ j \in DOMAIN claims
      BY <1>3, <1>4, <1>7, <2>1
    <2>3. QED
      BY <1>1, <1>2, <1>6, <1>7, <2>2 DEF LateInv
  <1>8. ASSUME NEW i \in DOMAIN claims', NEW j \in DOMAIN claims', NEW k \in DOMAIN claims',
               i < j, j < k, claims'[j].process = claims'[k].process,
               claims'[j].day < claims'[i].day
        PROVE  claims'[k].day >= claims'[i].day
    <2>1. i \in DOMAIN claims /\ j \in DOMAIN claims
      BY <1>4, <1>8
    <2>2. CASE k = n
      <3>1. claims[j].process = p /\ claims[j].day < claims[i].day /\ policyPc[p] \in Claiming
        BY <1>1, <1>8, <2>1, <2>2 DEF Claiming
      <3>2. claims[i].day <= now[p]
        BY <1>8, <2>1, <3>1 DEF LateInv
      <3>3. QED
        BY <1>1, <1>2, <2>1, <2>2, <3>2
    <2>3. CASE k \in DOMAIN claims
      BY <1>1, <1>8, <2>1, <2>3 DEF LateInv, Policy!LateOnce
    <2>4. QED
      BY <1>3, <2>2, <2>3
  <1>9. QED
    BY <1>5, <1>7, <1>8 DEF LateInv, Policy!LateOnce

LEMMA NextLateInv ==
    ASSUME Policy!TypeOK, LateInv, [Policy!Next]_(Policy!vars)
    PROVE  LateInv'
  <1> USE DEF Claiming
  <1>0. /\ policyPc \in [Processes -> PolicyPlaces] /\ now \in [Processes -> 1..LastDay]
        /\ today \in Nat
        /\ \A i \in DOMAIN claims : claims[i].process \in Processes
    BY DatesTyped DEF Policy!TypeOK, PolicyPlaces
  <1>1. ASSUME NEW p \in Processes, Policy!Start(p) PROVE LateInv'
    BY <1>0, <1>1, LateKeptBy DEF Policy!Start
  <1>2. ASSUME NEW p \in Processes, NEW t \in Texts, Policy!Offer(p, t) PROVE LateInv'
    <2>1. /\ UNCHANGED <<claims, today>> /\ policyPc' = [policyPc EXCEPT ![p] = "opening"]
          /\ now' = [now EXCEPT ![p] = today]
      BY <1>2 DEF Policy!Offer
    <2>2. \A q \in Processes : now'[q] <= today'
      BY <1>0, <2>1 DEF LateInv
    <2>3. ASSUME NEW i \in DOMAIN claims, NEW j \in DOMAIN claims, i < j,
                 claims[j].day < claims[i].day, policyPc'[claims[j].process] \in Claiming
          PROVE  claims[i].day <= now'[claims[j].process]
      <3>1. CASE claims[j].process = p
        BY <1>0, <2>1, <3>1 DEF LateInv
      <3>2. CASE claims[j].process # p
        BY <1>0, <2>1, <2>3, <3>2 DEF LateInv
      <3>3. QED
        BY <3>1, <3>2
    <2>4. Policy!LateOnce'
      BY <2>1 DEF LateInv, Policy!LateOnce
    <2>5. QED
      BY <2>1, <2>2, <2>3, <2>4 DEF LateInv
  <1>3. ASSUME NEW p \in Processes, Policy!OpenLock(p) PROVE LateInv'
    BY <1>0, <1>3, LateKeptBy DEF Policy!OpenLock
  <1>4. ASSUME NEW p \in Processes, Policy!LockUnavailable(p) PROVE LateInv'
    BY <1>0, <1>4, LateKeptBy DEF Policy!LockUnavailable
  <1>5. ASSUME NEW p \in Processes, Policy!Decide(p) PROVE LateInv'
    <2>1. /\ policyPc[p] = "deciding" /\ UNCHANGED <<claims, now, today>>
          /\ \/ policyPc' = [policyPc EXCEPT ![p] = "persisting"]
             \/ policyPc' = [policyPc EXCEPT ![p] = "leaving"]
      BY <1>5 DEF Policy!Decide
    <2>2. QED
      BY <1>0, <2>1, LateKeptBy
  <1>6. ASSUME NEW p \in Processes, Policy!Persist(p) PROVE LateInv'
    BY <1>6, LateKeptByClaim DEF Policy!Persist
  <1>7. ASSUME NEW p \in Processes, Policy!PersistFails(p) PROVE LateInv'
    <2>1. CASE UNCHANGED claims
      BY <1>0, <1>7, <2>1, LateKeptBy DEF Policy!PersistFails
    <2>2. CASE claims' = Append(claims, Policy!Item(p))
      BY <1>7, <2>2, LateKeptByClaim DEF Policy!PersistFails
    <2>3. QED
      BY <1>7, <2>1, <2>2 DEF Policy!PersistFails
  <1>8. ASSUME NEW p \in Processes, Policy!Unlock(p) PROVE LateInv'
    BY <1>0, <1>8, LateKeptBy DEF Policy!Unlock
  <1>9. ASSUME NEW p \in Processes, Policy!UnlockFails(p) PROVE LateInv'
    BY <1>0, <1>9, LateKeptBy DEF Policy!UnlockFails
  <1>10. ASSUME NEW p \in Processes, Policy!Die(p) PROVE LateInv'
    BY <1>0, <1>10, LateKeptBy DEF Policy!Die
  <1>11. CASE Policy!Damage
    BY <1>11, LateKeptBy DEF Policy!Damage, Policy!local
  <1>12. CASE Policy!Midnight
    BY <1>12, LateKeptBy DEF Policy!Midnight, Policy!local
  <1>13. CASE UNCHANGED Policy!vars
    BY <1>13, LateKeptBy DEF Policy!vars, Policy!local
  <1>14. QED
    BY <1>1, <1>2, <1>3, <1>4, <1>5, <1>6, <1>7, <1>8, <1>9, <1>10, <1>11, <1>12, <1>13
       DEF Policy!Next, Policy!Call

\* After a claim of some day each process makes at most one more that is dated before
\* it, with any number of processes, whichever of them die, start again or fail: so often
\* at most does appState set the counters of an app back to an earlier date.
THEOREM LateOnceTheorem ==
    ASSUME Policy!PolicyAssumption
    PROVE  Policy!Spec => []Policy!LateOnce
  <1>1. Policy!Init => LateInv
    BY DEF Policy!Init, LateInv, Policy!LateOnce
  <1>2. SharedInv => Policy!TypeOK
    BY DEF SharedInv
  <1>3. LateInv => Policy!LateOnce
    BY DEF LateInv
  <1>4. QED
    BY <1>1, <1>2, <1>3, NextLateInv, SharedInvTheorem, PTL DEF Policy!Spec

\* A text is claimed again for an app only after HashLimit other claims of it.
THEOREM NoTextTwiceTheorem ==
    ASSUME Policy!PolicyAssumption
    PROVE  Policy!Spec => []Policy!NoDuplicates
  <1>1. \A a : Policy!ClaimsOf(a) = Of(claims, a)
    BY DEF Policy!ClaimsOf, Of
  <1>2. SharedInv => Policy!NoDuplicates
    BY <1>1, SameCardinality DEF SharedInv, QuotaInv, NoRepeats, Policy!NoDuplicates
  <1>3. QED
    BY <1>2, SharedInvTheorem, PTL

-----------------------------------------------------------------------------
\* PiClient, for any number of callers, memories and faults.
PiPlaces == {"idle", "listing", "checking", "mutating", "done", "stopped"}

\* What a running operation has in its scope now has been in its scope, and so has
\* what it has sent and what was carried out for it.
ScopeInv ==
    /\ piPc \in [PiCallers -> PiPlaces]
    /\ touched \in [PiCallers -> SUBSET Pi!Ids]
    /\ DOMAIN memory = Pi!Ids /\ call = [c \in PiCallers |-> call[c]]
    /\ executed \in Seq([caller : PiCallers, id : Pi!Ids])
    /\ \A c \in PiCallers : Pi!Running(c) => Pi!Scoped(call[c].scope, memory) \subseteq touched[c]
    /\ \A w \in sent :
          w.caller \in PiCallers /\ piPc[w.caller] # "idle" /\ w.id \in touched[w.caller]
    /\ \A i \in DOMAIN executed :
          /\ piPc[executed[i].caller] # "idle"
          /\ executed[i].id \in touched[executed[i].caller]

LEMMA InitScopeInv == Pi!Init => ScopeInv
  BY DEF Pi!Init, ScopeInv, PiPlaces, Pi!Running, Pi!Scoped, Pi!Ids

\* A step that changes no memory and no history.
LEMMA ScopeKept ==
    ASSUME ScopeInv, UNCHANGED <<memory, call, sent, executed, touched>>,
           NEW c \in PiCallers, Pi!Running(c), NEW place \in PiPlaces \ {"idle"},
           piPc' = [piPc EXCEPT ![c] = place]
    PROVE  ScopeInv'
  BY DEF ScopeInv, PiPlaces, Pi!Running, Pi!Scoped

\* The memories change: what is in scope now is noted for every running operation.
LEMMA WatchKept ==
    ASSUME ScopeInv, Pi!Watch, DOMAIN memory' = Pi!Ids, UNCHANGED <<call, piPc>>
    PROVE  /\ touched' \in [PiCallers -> SUBSET Pi!Ids]
           /\ \A c \in PiCallers : touched[c] \subseteq touched'[c]
           /\ \A c \in PiCallers : Pi!Running(c)' => Pi!Scoped(call[c].scope, memory)' \subseteq touched'[c]
  BY DEF ScopeInv, Pi!Watch, Pi!Running, Pi!Scoped

LEMMA NextScopeInv == ASSUME ScopeInv, [Pi!Next]_(Pi!vars) PROVE ScopeInv'
  <1>1. ASSUME NEW c \in PiCallers, NEW op \in PiCalls[c], Pi!Start(c, op) PROVE ScopeInv'
    <2>1. /\ piPc[c] = "idle"
          /\ \E place \in {"listing", "checking"} : piPc' = [piPc EXCEPT ![c] = place]
          /\ call' = [call EXCEPT ![c] = op]
          /\ touched' = [touched EXCEPT ![c] = Pi!Scoped(op.scope, memory)]
          /\ UNCHANGED <<memory, sent, executed>>
      BY <1>1 DEF Pi!Start
    <2>2. Pi!Scoped(op.scope, memory) \subseteq Pi!Ids
      BY DEF Pi!Scoped
    <2>3. /\ piPc' \in [PiCallers -> PiPlaces] /\ touched' \in [PiCallers -> SUBSET Pi!Ids]
          /\ \A d \in PiCallers \ {c} :
                piPc'[d] = piPc[d] /\ touched'[d] = touched[d] /\ call'[d].scope = call[d].scope
          /\ touched'[c] = Pi!Scoped(op.scope, memory) /\ piPc'[c] # "idle"
      BY <2>1, <2>2 DEF ScopeInv, PiPlaces
    <2>4. \A w \in sent : w.caller \in PiCallers \ {c}
      BY <2>1 DEF ScopeInv
    <2>5. \A i \in DOMAIN executed : executed[i].caller \in PiCallers \ {c}
      <3>1. executed \in [DOMAIN executed -> [caller : PiCallers, id : Pi!Ids]]
        BY LenProperties DEF ScopeInv
      <3>2. QED
        BY <2>1, <3>1 DEF ScopeInv
    <2>6. call' = [d \in PiCallers |-> call'[d]] /\ call'[c] = op
      BY <2>1 DEF ScopeInv
    <2>7. \A d \in PiCallers : Pi!Running(d)' => Pi!Scoped(call[d].scope, memory)' \subseteq touched'[d]
      BY <2>1, <2>3, <2>6 DEF ScopeInv, Pi!Running, Pi!Scoped
    <2>8. DOMAIN memory' = Pi!Ids /\ executed' \in Seq([caller : PiCallers, id : Pi!Ids])
      BY <2>1 DEF ScopeInv
    <2>9. \A w \in sent' :
             w.caller \in PiCallers /\ piPc'[w.caller] # "idle" /\ w.id \in touched'[w.caller]
      <3>1. SUFFICES ASSUME NEW w \in sent
                     PROVE  /\ w.caller \in PiCallers /\ piPc'[w.caller] # "idle"
                            /\ w.id \in touched'[w.caller]
        BY <2>1
      <3>2. w.caller \in PiCallers \ {c} /\ piPc[w.caller] # "idle" /\ w.id \in touched[w.caller]
        BY <2>4 DEF ScopeInv
      <3>3. piPc'[w.caller] = piPc[w.caller] /\ touched'[w.caller] = touched[w.caller]
        BY <2>3, <3>2
      <3>4. QED
        BY <3>2, <3>3
    <2>10. \A i \in DOMAIN executed' :
              piPc'[executed'[i].caller] # "idle" /\ executed'[i].id \in touched'[executed'[i].caller]
      <3>1. SUFFICES ASSUME NEW i \in DOMAIN executed
                     PROVE  /\ piPc'[executed[i].caller] # "idle"
                            /\ executed[i].id \in touched'[executed[i].caller]
        BY <2>1
      <3>2. /\ executed[i].caller \in PiCallers \ {c} /\ piPc[executed[i].caller] # "idle"
            /\ executed[i].id \in touched[executed[i].caller]
        BY <2>5 DEF ScopeInv
      <3>3. /\ piPc'[executed[i].caller] = piPc[executed[i].caller]
            /\ touched'[executed[i].caller] = touched[executed[i].caller]
        BY <2>3, <3>2
      <3>4. QED
        BY <3>2, <3>3
    <2>11. QED
      BY <2>3, <2>6, <2>7, <2>8, <2>9, <2>10 DEF ScopeInv
  <1>2. ASSUME NEW c \in PiCallers, Pi!List(c) PROVE ScopeInv'
    <2>1. /\ Pi!Running(c) /\ UNCHANGED <<memory, call, sent, executed, touched>>
          /\ \E place \in PiPlaces \ {"idle"} : piPc' = [piPc EXCEPT ![c] = place]
      BY <1>2 DEF Pi!List, Pi!Running, PiPlaces
    <2>2. QED
      BY <2>1, ScopeKept
  <1>3. ASSUME NEW c \in PiCallers, Pi!Check(c) PROVE ScopeInv'
    <2>1. CASE Pi!Checked(c) /\ ~Pi!Moves(c)
      <3>1. Pi!Target(c) \in touched[c]
        <4>1. Pi!Target(c) \in Pi!Scoped(call[c].scope, memory)
          BY <2>1 DEF Pi!Checked, Pi!InScope, Pi!Scoped, ScopeInv
        <4>2. Pi!Running(c)
          BY <1>3 DEF Pi!Check, Pi!Running
        <4>3. QED
          BY <4>1, <4>2 DEF ScopeInv
      <3>2. PICK w : w.caller = c /\ w.id = Pi!Target(c) /\ sent' = sent \cup {w}
        BY <1>3, <2>1 DEF Pi!Check
      <3>3. /\ piPc[c] = "checking" /\ piPc' = [piPc EXCEPT ![c] = "mutating"]
            /\ UNCHANGED <<memory, call, executed, touched>>
        BY <1>3, <2>1 DEF Pi!Check
      <3>4. QED
        BY <3>1, <3>2, <3>3 DEF ScopeInv, PiPlaces, Pi!Running, Pi!Scoped
    <2>2. CASE ~(Pi!Checked(c) /\ ~Pi!Moves(c))
      <3>1. /\ Pi!Running(c) /\ UNCHANGED <<memory, call, sent, executed, touched>>
            /\ piPc' = [piPc EXCEPT ![c] = "stopped"]
        BY <1>3, <2>2 DEF Pi!Check, Pi!Running
      <3>2. QED
        BY <3>1, ScopeKept DEF PiPlaces
    <2>3. QED
      BY <2>1, <2>2
  <1>4. ASSUME NEW w \in sent, Pi!Execute(w) PROVE ScopeInv'
    <2>1. /\ sent' = sent \ {w} /\ UNCHANGED <<call, piPc>> /\ Pi!Watch
          /\ w.caller \in PiCallers /\ piPc[w.caller] # "idle" /\ w.id \in touched[w.caller]
      BY <1>4 DEF Pi!Execute, ScopeInv
    <2>2. DOMAIN memory' = Pi!Ids
      BY <1>4 DEF Pi!Execute, ScopeInv
    <2>3. /\ touched' \in [PiCallers -> SUBSET Pi!Ids]
          /\ \A c \in PiCallers : touched[c] \subseteq touched'[c]
          /\ \A c \in PiCallers : Pi!Running(c)' => Pi!Scoped(call[c].scope, memory)' \subseteq touched'[c]
      BY <2>1, <2>2, WatchKept
    <2>4. [caller |-> w.caller, id |-> w.id] \in [caller : PiCallers, id : Pi!Ids]
      BY <2>1 DEF ScopeInv
    <2>5. /\ executed' \in Seq([caller : PiCallers, id : Pi!Ids])
          /\ \A i \in DOMAIN executed' :
                /\ piPc[executed'[i].caller] # "idle"
                /\ executed'[i].id \in touched'[executed'[i].caller]
      <3>1. executed \in [DOMAIN executed -> [caller : PiCallers, id : Pi!Ids]]
        BY LenProperties DEF ScopeInv
      <3>2. \A i \in DOMAIN executed :
               piPc[executed[i].caller] # "idle" /\ executed[i].id \in touched'[executed[i].caller]
        BY <2>3, <3>1 DEF ScopeInv
      <3>3. CASE executed' = executed
        BY <3>2, <3>3 DEF ScopeInv
      <3>4. CASE executed' = Append(executed, [caller |-> w.caller, id |-> w.id])
        <4>1. /\ executed' \in Seq([caller : PiCallers, id : Pi!Ids])
              /\ Len(executed') = Len(executed) + 1
              /\ \A i \in 1..Len(executed) : executed'[i] = executed[i]
              /\ executed'[Len(executed) + 1] = [caller |-> w.caller, id |-> w.id]
          BY <2>4, <3>4, AppendProperties DEF ScopeInv
        <4>2. /\ DOMAIN executed = 1..Len(executed) /\ Len(executed) \in Nat
              /\ DOMAIN executed' = 1..Len(executed')
          BY <4>1, LenProperties DEF ScopeInv
        <4>3. w.id \in touched'[w.caller]
          BY <2>1, <2>3
        <4>4. QED
          BY <2>1, <3>2, <4>1, <4>2, <4>3
      <3>5. QED
        BY <1>4, <3>3, <3>4 DEF Pi!Execute
    <2>6. \A v \in sent' :
             v.caller \in PiCallers /\ piPc[v.caller] # "idle" /\ v.id \in touched'[v.caller]
      BY <2>1, <2>3 DEF ScopeInv
    <2>7. QED
      BY <2>1, <2>2, <2>3, <2>5, <2>6 DEF ScopeInv
  <1>5. ASSUME NEW c \in PiCallers, Pi!Answered(c) PROVE ScopeInv'
    <2>1. /\ Pi!Running(c) /\ UNCHANGED <<memory, call, sent, executed, touched>>
          /\ \E place \in PiPlaces \ {"idle"} : piPc' = [piPc EXCEPT ![c] = place]
      BY <1>5 DEF Pi!Answered, Pi!Running, PiPlaces
    <2>2. QED
      BY <2>1, ScopeKept
  <1>6. ASSUME NEW c \in PiCallers, Pi!GiveUp(c) PROVE ScopeInv'
    BY <1>6, ScopeKept DEF Pi!GiveUp, PiPlaces
  <1>7. ASSUME NEW app \in AppIds, Pi!Add(app) PROVE ScopeInv'
    <2>1. /\ DOMAIN memory' = Pi!Ids /\ Pi!Watch /\ UNCHANGED <<call, piPc, sent, executed>>
      BY <1>7 DEF Pi!Add, ScopeInv
    <2>2. /\ touched' \in [PiCallers -> SUBSET Pi!Ids]
          /\ \A c \in PiCallers : touched[c] \subseteq touched'[c]
          /\ \A c \in PiCallers : Pi!Running(c)' => Pi!Scoped(call[c].scope, memory)' \subseteq touched'[c]
      BY <2>1, WatchKept
    <2>3. executed \in [DOMAIN executed -> [caller : PiCallers, id : Pi!Ids]]
      BY LenProperties DEF ScopeInv
    <2>4. QED
      BY <2>1, <2>2, <2>3 DEF ScopeInv
  <1>8. CASE UNCHANGED Pi!vars
    BY <1>8 DEF Pi!vars, ScopeInv, Pi!Running, Pi!Scoped, Pi!InScope
  <1>9. QED
    BY <1>1, <1>2, <1>3, <1>4, <1>5, <1>6, <1>7, <1>8 DEF Pi!Next

\* An operation of the Pi client changes only memories that were in its scope at
\* some time of the call, also with a write that is carried out after it has ended.
THEOREM OnlyInScopeTheorem == Pi!Spec => []Pi!MutatesInScope
  <1>1. ScopeInv => Pi!MutatesInScope
    BY DEF ScopeInv, Pi!MutatesInScope
  <1>2. QED
    BY <1>1, InitScopeInv, NextScopeInv, PTL DEF Pi!Spec
-----------------------------------------------------------------------------
\* The least element of a bounded set of naturals (the one with the fewest below it),
\* and the greatest.
LEMMA LeastOf ==
    ASSUME NEW n \in Nat, NEW S \in SUBSET (0..n), S # {}
    PROVE  Pi!Min(S) \in S /\ \A x \in S : Pi!Min(S) <= x
  <1> DEFINE below(x) == {k \in S : k < x}
             T == {below(x) : x \in S}
             R == StrictSubsetOrdering(S)
  <1>1. IsFiniteSet(S)
    <2>1. IsFiniteSet(0..n)
      BY FS_Interval
    <2>2. QED
      BY <2>1, FS_Subset
  <1>2. IsWellFoundedOn(R, FiniteSubsetsOf(S))
    BY FS_StrictSubsetOrderingWellFounded
  <1>3. T \subseteq FiniteSubsetsOf(S) /\ T # {}
    <2>1. FiniteSubsetsOf(S) = SUBSET S
      BY <1>1, FS_FiniteSubsetsOfFinite
    <2>3. \A B \in T : B \in SUBSET S
      OBVIOUS
    <2>4. PICK x \in S : TRUE
      OBVIOUS
    <2>5. below(x) \in T
      OBVIOUS
    <2>6. QED
      BY <2>1, <2>3, <2>5
  <1>4. \E B \in T : \A A \in T : ~(<<A, B>> \in R)
    <2> HIDE DEF R, T
    <2>1. QED
      BY <1>2, <1>3, WFMin
  <1>5. PICK m \in S : \A A \in T : ~(<<A, below(m)>> \in R)
    BY <1>4
  <1>6. ASSUME NEW x \in S, x < m PROVE FALSE
    <2>0. x \in 0..n /\ m \in 0..n /\ \A k \in S : k \in 0..n
      OBVIOUS
    <2>1. below(x) \subseteq below(m) /\ x \in below(m) /\ x \notin below(x)
      <3>1. \A k \in S : k < x => k < m
        BY <1>6, <2>0
      <3>2. x \in below(m) /\ x \notin below(x)
        BY <1>6, <2>0
      <3>3. QED
        BY <3>1, <3>2
    <2>2. <<below(x), below(m)>> \in R
      BY <2>1 DEF StrictSubsetOrdering
    <2>3. QED
      BY <1>5, <2>2
  <1>7. \A x \in S : m <= x
    BY <1>6
  <1>8. QED
    BY <1>7 DEF Pi!Min

LEMMA GreatestOf ==
    ASSUME NEW n \in Nat, NEW S \in SUBSET (0..n), S # {}
    PROVE  Pi!Max(S) \in S /\ \A x \in S : Pi!Max(S) >= x
  <1> DEFINE T == {k \in 0..n : n - k \in S}
  <1>1. T \in SUBSET (0..n)
    OBVIOUS
  <1>2. T # {}
    <2>1. PICK x : x \in S
      OBVIOUS
    <2>2. n - x \in T
      BY <2>1
    <2>3. QED
      BY <2>2
  <1>3. Pi!Min(T) \in T /\ \A k \in T : Pi!Min(T) <= k
    BY <1>1, <1>2, LeastOf
  <1>4. ASSUME NEW x \in S PROVE n - Pi!Min(T) >= x
    <2>1. n - x \in T
      OBVIOUS
    <2>2. QED
      BY <1>3, <2>1
  <1>5. n - Pi!Min(T) \in S
    BY <1>3
  <1>6. \E m \in S : \A x \in S : m >= x
    BY <1>4, <1>5
  <1>7. QED
    BY <1>6 DEF Pi!Max

\* A scan leaves nothing out: what it does not list is older than its next cursor.
LEMMA ScanCovers ==
    ASSUME Pi!PiAssumption, NEW scope, NEW from \in 0..Pi!Top
    PROVE  LET left == {id \in Pi!Scoped(scope, memory) : id < from}
               got == Pi!Scan(scope, from)
           IN  /\ got.ids \in SUBSET Pi!Ids /\ got.next \in 0..Pi!Top
               /\ \A id \in left : id \in got.ids \/ id < got.next
               /\ got.ids = {} => left = {}
  <1> DEFINE left == {id \in Pi!Scoped(scope, memory) : id < from}
             newer(id) == {x \in left : x > id}
             listed == {id \in left : Cardinality(newer(id)) < PageSize}
             got == Pi!Scan(scope, from)
  <1>1. PiMemories \in Nat /\ PageSize \in Nat \ {0} /\ Pi!Top = PiMemories + 1
    BY DEF Pi!PiAssumption, Pi!Top
  <1>2. left \subseteq Pi!Ids /\ left \subseteq 0..PiMemories /\ left \subseteq Nat
    BY <1>1 DEF Pi!Scoped, Pi!Ids
  <1>3. \A T \in SUBSET left : IsFiniteSet(T) /\ Cardinality(T) \in Nat
    <2>1. IsFiniteSet(0..PiMemories)
      BY <1>1, FS_Interval
    <2>2. \A T \in SUBSET left : IsFiniteSet(T)
      BY <1>2, <2>1, FS_Subset
    <2>3. QED
      BY <2>2, FS_CardinalityType
  <1>4. /\ got.ids = listed
        /\ got.next = IF Cardinality(left) > PageSize THEN Pi!Min(listed) ELSE Pi!End
    BY SameCardinality DEF Pi!Scan
  <1>5. ASSUME left # {} PROVE Pi!Max(left) \in listed
    <2>1. Pi!Max(left) \in left /\ \A x \in left : Pi!Max(left) >= x
      BY <1>1, <1>2, <1>5, GreatestOf
    <2>2. newer(Pi!Max(left)) = {}
      BY <1>2, <2>1
    <2>3. Cardinality(newer(Pi!Max(left))) = 0
      BY <2>2, FS_EmptySet
    <2>4. QED
      BY <1>1, <2>1, <2>3
  <1>6. listed \subseteq left
    OBVIOUS
  <1>7. ASSUME NEW id \in left, id \notin listed PROVE id < got.next
    <2>1. Cardinality(newer(id)) >= PageSize /\ Cardinality(newer(id)) \in Nat
      <3>1. newer(id) \in SUBSET left
        OBVIOUS
      <3>2. ~(Cardinality(newer(id)) < PageSize) /\ Cardinality(newer(id)) \in Nat
        BY <1>3, <1>7, <3>1
      <3> HIDE DEF newer
      <3>3. QED
        BY <1>1, <3>2
    <2>2. Cardinality(left) > PageSize
      <3>1. newer(id) \subseteq left \ {id} /\ left \ {id} \in SUBSET left
        BY <1>2
      <3>2. Cardinality(newer(id)) <= Cardinality(left \ {id})
        BY <1>3, <3>1, FS_Subset
      <3>3. Cardinality(left \ {id}) = Cardinality(left) - 1
        BY <1>3, FS_RemoveElement
      <3>4. Cardinality(left) \in Nat
        BY <1>3
      <3> HIDE DEF newer, left
      <3>5. QED
        BY <1>1, <2>1, <3>2, <3>3, <3>4
    <2>3. listed # {} /\ listed \in SUBSET (0..PiMemories)
      BY <1>2, <1>5, <1>6
    <2>4. Pi!Min(listed) \in listed
      BY <1>1, <2>3, LeastOf
    <2>5. ASSUME id >= Pi!Min(listed) PROVE FALSE
      <3>1. Pi!Min(listed) \in left /\ id # Pi!Min(listed)
        BY <1>7, <2>4
      <3>2. newer(id) \subseteq newer(Pi!Min(listed)) /\ newer(Pi!Min(listed)) \in SUBSET left
        <4>1. \A x \in left : x > id => x > Pi!Min(listed)
          BY <1>2, <2>5, <3>1
        <4>2. QED
          BY <4>1
      <3>3. Cardinality(newer(id)) <= Cardinality(newer(Pi!Min(listed)))
        BY <1>3, <3>2, FS_Subset
      <3>4. Cardinality(newer(Pi!Min(listed))) < PageSize
        BY <2>4
      <3>5. Cardinality(newer(Pi!Min(listed))) \in Nat
        BY <1>3, <3>2
      <3> HIDE DEF newer, listed
      <3>6. QED
        BY <1>1, <2>1, <3>3, <3>4, <3>5
    <2>6. QED
      BY <1>2, <1>4, <1>6, <2>2, <2>4, <2>5
  <1>8. got.next \in 0..Pi!Top
    <2>1. CASE Cardinality(left) > PageSize
      <3>1. left # {}
        BY <1>1, <2>1, FS_EmptySet
      <3>2. listed # {} /\ listed \in SUBSET (0..PiMemories)
        BY <1>2, <1>5, <1>6, <3>1
      <3>3. Pi!Min(listed) \in left
        BY <1>1, <1>6, <3>2, LeastOf
      <3>4. QED
        BY <1>1, <1>2, <1>4, <2>1, <3>3
    <2>2. CASE ~(Cardinality(left) > PageSize)
      BY <1>1, <1>4, <2>2 DEF Pi!End
    <2>3. QED
      BY <2>1, <2>2
  <1>9. QED
    BY <1>2, <1>4, <1>5, <1>6, <1>7, <1>8
-----------------------------------------------------------------------------
\* What was carried out for c, counted: an operation has at most one write that it has
\* not heard of, on its way or made, and confirms all others.
Out(c) == \E w \in sent : w.caller = c
Count(c) == Cardinality(Pi!Mine(c))

ReportInv ==
    /\ reply \in [PiCallers -> {"none", "ok", "error"}] /\ confirmed \in [PiCallers -> Nat]
    /\ \A v, w \in sent : v.caller = w.caller => v = w
    /\ \A c \in PiCallers :
          /\ piPc[c] \in {"idle", "listing", "checking", "done"} =>
                Count(c) = confirmed[c] /\ ~Out(c) /\ reply[c] = "none"
          /\ piPc[c] = "mutating" =>
                /\ Count(c) = confirmed[c] + (IF reply[c] = "ok" THEN 1 ELSE 0)
                /\ Out(c) <=> reply[c] = "none"
          /\ piPc[c] = "stopped" =>
                /\ Count(c) \in confirmed[c]..(confirmed[c] + 1)
                /\ Out(c) => Count(c) = confirmed[c]

LEMMA InitReportInv == Pi!Init => ReportInv
  <1> SUFFICES ASSUME Pi!Init PROVE ReportInv
    OBVIOUS
  <1>1. \A c \in PiCallers : Count(c) = 0 /\ ~Out(c)
    <2>1. \A c \in PiCallers : Pi!Mine(c) = {}
      BY DEF Pi!Init, Pi!Mine
    <2>2. QED
      BY <2>1, FS_EmptySet DEF Pi!Init, Count, Out
  <1>2. QED
    BY <1>1 DEF Pi!Init, ReportInv

LEMMA CountType ==
    ASSUME ScopeInv, NEW c \in PiCallers
    PROVE  IsFiniteSet(Pi!Mine(c)) /\ Count(c) \in Nat
  <1>1. DOMAIN executed = 1..Len(executed) /\ Len(executed) \in Nat
    BY LenProperties DEF ScopeInv
  <1>2. IsFiniteSet(1..Len(executed))
    BY <1>1, FS_Interval
  <1>3. IsFiniteSet(Pi!Mine(c))
    <2>1. Pi!Mine(c) \subseteq 1..Len(executed)
      BY <1>1 DEF Pi!Mine
    <2>2. QED
      BY <1>2, <2>1, FS_Subset
  <1>4. QED
    BY <1>3, FS_CardinalityType DEF Count

\* A step of c that neither sends nor carries out anything.
LEMMA ReportKeptBy ==
    ASSUME ScopeInv, ReportInv, UNCHANGED <<sent, executed>>, NEW c \in PiCallers,
           reply' \in [PiCallers -> {"none", "ok", "error"}], confirmed' \in [PiCallers -> Nat],
           \A d \in PiCallers \ {c} : piPc'[d] = piPc[d] /\ reply'[d] = reply[d] /\ confirmed'[d] = confirmed[d],
           piPc'[c] \in {"listing", "checking", "done"} =>
               Count(c) = confirmed'[c] /\ ~Out(c) /\ reply'[c] = "none",
           piPc'[c] = "stopped" =>
               Count(c) \in confirmed'[c]..(confirmed'[c] + 1) /\ (Out(c) => Count(c) = confirmed'[c]),
           piPc'[c] \in {"listing", "checking", "done", "stopped"}
    PROVE  ReportInv'
  <1>1. \A d \in PiCallers : Out(d)' = Out(d) /\ Count(d)' = Count(d)
    BY DEF Out, Count, Pi!Mine
  <1>2. QED
    BY <1>1 DEF ReportInv

\* A step of somebody else.
LEMMA ReportSame ==
    ASSUME ReportInv, UNCHANGED <<sent, executed, piPc, reply, confirmed>>
    PROVE  ReportInv'
  <1>1. \A d \in PiCallers : Out(d)' = Out(d) /\ Count(d)' = Count(d)
    BY DEF Out, Count, Pi!Mine
  <1>2. QED
    BY <1>1 DEF ReportInv

LEMMA NextReportInv ==
    ASSUME Pi!PiAssumption, ScopeInv, ReportInv, [Pi!Next]_(Pi!vars)
    PROVE  ReportInv'
  <1>0. /\ piPc \in [PiCallers -> PiPlaces] /\ reply \in [PiCallers -> {"none", "ok", "error"}]
        /\ confirmed \in [PiCallers -> Nat]
        /\ \A c \in PiCallers : Count(c) \in Nat
    BY CountType DEF ScopeInv, ReportInv
  <1>1. ASSUME NEW c \in PiCallers, NEW op \in PiCalls[c], Pi!Start(c, op) PROVE ReportInv'
    <2>1. /\ piPc[c] = "idle"
          /\ \E place \in {"listing", "checking"} : piPc' = [piPc EXCEPT ![c] = place]
          /\ UNCHANGED <<sent, executed, reply, confirmed>>
      BY <1>1 DEF Pi!Start
    <2>2. Count(c) = confirmed[c] /\ ~Out(c) /\ reply[c] = "none"
      BY <2>1 DEF ReportInv
    <2>3. QED
      BY <1>0, <2>1, <2>2, ReportKeptBy
  <1>2. ASSUME NEW c \in PiCallers, Pi!List(c) PROVE ReportInv'
    <2>1. /\ piPc[c] = "listing"
          /\ \E place \in {"checking", "done", "stopped"} : piPc' = [piPc EXCEPT ![c] = place]
          /\ UNCHANGED <<sent, executed, reply, confirmed>>
      BY <1>2 DEF Pi!List
    <2>2. Count(c) = confirmed[c] /\ ~Out(c) /\ reply[c] = "none"
      BY <2>1 DEF ReportInv
    <2>3. QED
      BY <1>0, <2>1, <2>2, ReportKeptBy
  <1>3. ASSUME NEW c \in PiCallers, Pi!Check(c) PROVE ReportInv'
    <2>0. /\ piPc[c] = "checking" /\ UNCHANGED <<executed, reply, confirmed>>
          /\ Count(c) = confirmed[c] /\ ~Out(c) /\ reply[c] = "none"
      BY <1>3 DEF Pi!Check, ReportInv
    <2>1. CASE Pi!Checked(c) /\ ~Pi!Moves(c)
      <3>1. PICK w : w.caller = c /\ sent' = sent \cup {w}
        BY <1>3, <2>1 DEF Pi!Check
      <3>2. piPc' = [piPc EXCEPT ![c] = "mutating"]
        BY <1>3, <2>1 DEF Pi!Check
      <3>3. \A v \in sent : v.caller # c
        BY <2>0 DEF Out
      <3>4. /\ \A d \in PiCallers \ {c} : Out(d)' = Out(d)
            /\ Out(c)'
            /\ \A d \in PiCallers : Count(d)' = Count(d)
        BY <2>0, <3>1 DEF Out, Count, Pi!Mine
      <3>5. \A u, v \in sent' : u.caller = v.caller => u = v
        BY <3>1, <3>3 DEF ReportInv
      <3>6. \A d \in PiCallers \ {c} : piPc'[d] = piPc[d]
        BY <1>0, <3>2
      <3>7. piPc'[c] = "mutating"
        BY <1>0, <3>2
      <3>8. Count(c)' = confirmed'[c] + (IF reply'[c] = "ok" THEN 1 ELSE 0)
        BY <1>0, <2>0, <3>4
      <3>9. QED
        BY <1>0, <2>0, <3>4, <3>5, <3>6, <3>7, <3>8 DEF ReportInv
    <2>2. CASE ~(Pi!Checked(c) /\ ~Pi!Moves(c))
      <3>1. piPc' = [piPc EXCEPT ![c] = "stopped"] /\ UNCHANGED sent
        BY <1>3, <2>2 DEF Pi!Check
      <3>2. QED
        BY <1>0, <2>0, <3>1, ReportKeptBy
    <2>3. QED
      BY <2>1, <2>2
  <1>4. ASSUME NEW w \in sent, Pi!Execute(w) PROVE ReportInv'
    <2> DEFINE c == w.caller
    <2>1. /\ sent' = sent \ {w} /\ UNCHANGED <<piPc, confirmed>> /\ c \in PiCallers
          /\ piPc[c] # "idle"
      BY <1>4 DEF Pi!Execute, ScopeInv
    <2>2. /\ Out(c) /\ ~Out(c)'
          /\ \A d \in PiCallers \ {c} : Out(d)' = Out(d)
      BY <2>1 DEF Out, ReportInv
    <2>3. piPc[c] \in {"mutating", "stopped"} /\ Count(c) = confirmed[c]
          /\ (piPc[c] = "mutating" => reply[c] = "none")
      BY <1>0, <2>1, <2>2 DEF ReportInv, PiPlaces
    <2>4. \A u, v \in sent' : u.caller = v.caller => u = v
      BY <2>1 DEF ReportInv
    <2>5. CASE memory[w.id] = "gone"
      <3>1. reply' = [reply EXCEPT ![c] = "error"] /\ UNCHANGED executed
        BY <1>4, <2>5 DEF Pi!Execute
      <3>2. \A d \in PiCallers : Count(d)' = Count(d)
        BY <3>1 DEF Count, Pi!Mine
      <3>3. reply' \in [PiCallers -> {"none", "ok", "error"}] /\ reply'[c] = "error"
            /\ \A d \in PiCallers \ {c} : reply'[d] = reply[d]
        BY <1>0, <2>1, <3>1
      <3>4. ASSUME NEW d \in PiCallers \ {c}
            PROVE piPc'[d] = piPc[d] /\ reply'[d] = reply[d] /\ confirmed'[d] = confirmed[d]
                  /\ Count(d)' = Count(d) /\ Out(d)' = Out(d)
        BY <2>1, <2>2, <3>2, <3>3
      <3>5. Count(c)' = confirmed'[c] /\ piPc'[c] = piPc[c]
        BY <2>1, <2>3, <3>2
      <3>6. QED
        BY <1>0, <2>1, <2>2, <2>3, <2>4, <3>3, <3>4, <3>5 DEF ReportInv
    <2>6. CASE memory[w.id] # "gone"
      <3> DEFINE e == [caller |-> c, id |-> w.id]
                 n == Len(executed) + 1
      <3>1. reply' = [reply EXCEPT ![c] = "ok"] /\ executed' = Append(executed, e)
        BY <1>4, <2>6 DEF Pi!Execute
      <3>2. e \in [caller : PiCallers, id : Pi!Ids]
        BY DEF ScopeInv
      <3>3. /\ DOMAIN executed = 1..Len(executed) /\ Len(executed) \in Nat
            /\ DOMAIN executed' = 1..n
            /\ \A i \in 1..Len(executed) : executed'[i] = executed[i]
            /\ executed'[n] = e
        <4>1. executed \in Seq([caller : PiCallers, id : Pi!Ids])
          BY DEF ScopeInv
        <4>2. /\ executed' \in Seq([caller : PiCallers, id : Pi!Ids]) /\ Len(executed') = n
              /\ \A i \in 1..Len(executed) : executed'[i] = executed[i]
              /\ executed'[n] = e
          BY <3>1, <3>2, <4>1, AppendProperties
        <4>3. QED
          BY <4>1, <4>2, LenProperties
      <3>4. Pi!Mine(c)' = Pi!Mine(c) \cup {n} /\ n \notin Pi!Mine(c)
        BY <3>3 DEF Pi!Mine
      <3>5. \A d \in PiCallers \ {c} : Count(d)' = Count(d)
        <4>1. \A d \in PiCallers \ {c} : Pi!Mine(d)' = Pi!Mine(d)
          BY <3>3 DEF Pi!Mine
        <4>2. QED
          BY <4>1 DEF Count
      <3>6. Count(c)' = Count(c) + 1
        <4>1. IsFiniteSet(Pi!Mine(c))
          BY <2>1, CountType
        <4> HIDE DEF n, c
        <4>2. Cardinality(Pi!Mine(c) \cup {n}) = Cardinality(Pi!Mine(c)) + 1
          BY <3>4, <4>1, FS_AddElement
        <4>3. Cardinality(Pi!Mine(c)') = Cardinality(Pi!Mine(c)) + 1
          BY <3>4, <4>2
        <4>4. QED
          BY <4>3 DEF Count, c
      <3>7. reply' \in [PiCallers -> {"none", "ok", "error"}] /\ reply'[c] = "ok"
            /\ \A d \in PiCallers \ {c} : reply'[d] = reply[d]
        BY <1>0, <2>1, <3>1
      <3>8. ASSUME NEW d \in PiCallers \ {c}
            PROVE piPc'[d] = piPc[d] /\ reply'[d] = reply[d] /\ confirmed'[d] = confirmed[d]
                  /\ Count(d)' = Count(d) /\ Out(d)' = Out(d)
        BY <2>1, <2>2, <3>5, <3>7
      <3>9. Count(c)' = confirmed'[c] + 1 /\ piPc'[c] = piPc[c]
        BY <2>1, <2>3, <3>6
      <3>10. confirmed'[c] \in Nat /\ Count(c)' \in confirmed'[c]..(confirmed'[c] + 1)
        BY <1>0, <2>1, <3>9
      <3>11. QED
        BY <1>0, <2>1, <2>2, <2>3, <2>4, <3>7, <3>8, <3>9, <3>10 DEF ReportInv
    <2>7. QED
      BY <2>5, <2>6
  <1>5. ASSUME NEW c \in PiCallers, Pi!Answered(c) PROVE ReportInv'
    <2>1. /\ piPc[c] = "mutating" /\ reply[c] # "none" /\ UNCHANGED <<sent, executed>>
          /\ reply' = [reply EXCEPT ![c] = "none"]
      BY <1>5 DEF Pi!Answered
    <2>2. Count(c) = confirmed[c] + (IF reply[c] = "ok" THEN 1 ELSE 0) /\ ~Out(c)
      BY <2>1 DEF ReportInv
    <2>3. CASE reply[c] = "error"
      <3>1. piPc' = [piPc EXCEPT ![c] = "stopped"] /\ UNCHANGED confirmed
        BY <1>5, <2>3 DEF Pi!Answered
      <3>2. Count(c) \in confirmed'[c]..(confirmed'[c] + 1)
        BY <1>0, <2>2, <2>3, <3>1
      <3>3. QED
        BY <1>0, <2>1, <2>2, <3>1, <3>2, ReportKeptBy
    <2>4. CASE reply[c] = "ok"
      <3>1. /\ confirmed' = [confirmed EXCEPT ![c] = @ + 1]
            /\ \E place \in {"checking", "listing", "done"} : piPc' = [piPc EXCEPT ![c] = place]
        BY <1>5, <2>4 DEF Pi!Answered
      <3>2. Count(c) = confirmed'[c] /\ confirmed' \in [PiCallers -> Nat]
        BY <1>0, <2>2, <2>4, <3>1
      <3>3. QED
        BY <1>0, <2>1, <2>2, <3>1, <3>2, ReportKeptBy
    <2>5. QED
      BY <1>0, <2>1, <2>3, <2>4
  <1>6. ASSUME NEW c \in PiCallers, Pi!GiveUp(c) PROVE ReportInv'
    <2>1. /\ piPc[c] \in {"listing", "checking", "mutating"}
          /\ piPc' = [piPc EXCEPT ![c] = "stopped"]
          /\ UNCHANGED <<sent, executed, reply, confirmed>>
      BY <1>6 DEF Pi!GiveUp, Pi!Running
    <2>2. Count(c) = confirmed[c] + (IF reply[c] = "ok" THEN 1 ELSE 0)
          /\ (Out(c) => reply[c] = "none")
      BY <1>0, <2>1 DEF ReportInv
    <2>3. Count(c) \in confirmed[c]..(confirmed[c] + 1) /\ (Out(c) => Count(c) = confirmed[c])
      BY <1>0, <2>2
    <2>4. QED
      BY <1>0, <2>1, <2>3, ReportKeptBy
  <1>7. ASSUME NEW app \in AppIds, Pi!Add(app) PROVE ReportInv'
    BY <1>7, ReportSame DEF Pi!Add
  <1>8. CASE UNCHANGED Pi!vars
    BY <1>8, ReportSame DEF Pi!vars
  <1>9. QED
    BY <1>1, <1>2, <1>3, <1>4, <1>5, <1>6, <1>7, <1>8 DEF Pi!Next
\* What c still has to look at, of what was in its scope all the time, is on its page
\* or older than its cursor; a deletion that was carried out is not.
Swept(c) ==
    /\ lasting[c] \subseteq Pi!Scoped(call[c].scope, memory)
    /\ piPc[c] = "idle" => cursor[c] = Pi!Top /\ page[c] = {}
    /\ call[c].kind = "all" =>
          /\ piPc[c] = "listing" => \A id \in lasting[c] : id < cursor[c]
          /\ piPc[c] \in {"checking", "mutating"} =>
                page[c] # {} /\ \A id \in lasting[c] : id \in page[c] \/ id < cursor[c]
          /\ piPc[c] = "mutating" =>
                /\ \A w \in sent : w.caller = c => w.delete /\ w.id = Pi!Target(c)
                /\ reply[c] = "ok" => Pi!Target(c) \notin lasting[c]
          /\ piPc[c] = "done" => lasting[c] = {}

SweepInv ==
    /\ cursor \in [PiCallers -> 0..Pi!Top] /\ page \in [PiCallers -> SUBSET Pi!Ids]
    /\ lasting \in [PiCallers -> SUBSET Pi!Ids]
    /\ \A c \in PiCallers : Swept(c)

LEMMA InitSweepInv == ASSUME Pi!PiAssumption, Pi!Init PROVE SweepInv
  BY DEF Pi!PiAssumption, Pi!Init, SweepInv, Swept, Pi!Top, Pi!End

\* The memories change: what lasts only shrinks, to what is in scope now.
LEMMA SweepWatched ==
    ASSUME ScopeInv, SweepInv, Pi!Watch, UNCHANGED <<call, piPc, cursor, page, sent, reply>>
    PROVE  SweepInv'
  <1>1. /\ lasting' = [c \in PiCallers |-> lasting[c] \cap Pi!Scoped(call[c].scope, memory')]
    BY DEF Pi!Watch
  <1>2. \A c \in PiCallers :
           /\ lasting'[c] \subseteq lasting[c]
           /\ lasting'[c] \subseteq Pi!Scoped(call[c].scope, memory)'
    BY <1>1 DEF Pi!Scoped
  <1>3. lasting' \in [PiCallers -> SUBSET Pi!Ids]
    BY <1>1 DEF SweepInv
  <1>4. \A c \in PiCallers : Pi!Target(c)' = Pi!Target(c)
    BY DEF Pi!Target
  <1>5. QED
    BY <1>2, <1>3, <1>4 DEF SweepInv, Swept
\* A step of another caller.
LEMMA SweptSame ==
    ASSUME NEW d \in PiCallers, Swept(d), UNCHANGED <<memory, piPc[d], call[d], cursor[d],
           page[d]>>,
           UNCHANGED <<lasting[d], reply[d]>>,
           \A w \in sent' : w.caller = d => w \in sent
    PROVE  Swept(d)'
  <1>1. Pi!Target(d)' = Pi!Target(d)
    BY DEF Pi!Target
  <1>2. Pi!Scoped(call[d].scope, memory)' = Pi!Scoped(call[d].scope, memory)
    BY DEF Pi!Scoped
  <1>3. QED
    BY <1>1, <1>2 DEF Swept

LEMMA NextSweepInv ==
    ASSUME Pi!PiAssumption, ScopeInv, ReportInv, SweepInv, [Pi!Next]_(Pi!vars)
    PROVE  SweepInv'
  <1>0. /\ piPc \in [PiCallers -> PiPlaces] /\ cursor \in [PiCallers -> 0..Pi!Top]
        /\ page \in [PiCallers -> SUBSET Pi!Ids] /\ lasting \in [PiCallers -> SUBSET Pi!Ids]
        /\ reply \in [PiCallers -> {"none", "ok", "error"}]
        /\ \A d \in PiCallers : Swept(d)
        /\ PiMemories \in Nat /\ Pi!Top \in Nat /\ Pi!Ids = 1..PiMemories
    BY DEF ScopeInv, ReportInv, SweepInv, Pi!PiAssumption, Pi!Top, Pi!Ids
  <1>1. ASSUME NEW c \in PiCallers, NEW op \in PiCalls[c], Pi!Start(c, op) PROVE SweepInv'
    <2>1. /\ piPc[c] = "idle"
          /\ piPc' = [piPc EXCEPT ![c] = IF op.kind = "all" THEN "listing" ELSE "checking"]
          /\ call' = [call EXCEPT ![c] = op]
          /\ lasting' = [lasting EXCEPT ![c] = Pi!Scoped(op.scope, memory)]
          /\ UNCHANGED <<memory, cursor, page, sent, reply>>
      BY <1>1 DEF Pi!Start, Pi!traversal
    <2>2. Pi!Scoped(op.scope, memory) \subseteq Pi!Ids
      BY DEF Pi!Scoped
    <2>3. ASSUME NEW d \in PiCallers \ {c} PROVE Swept(d)'
      <3>1. UNCHANGED <<piPc[d], call[d], lasting[d]>>
        BY <1>0, <2>1 DEF ScopeInv
      <3>2. QED
        BY <1>0, <2>1, <3>1, SweptSame
    <2>4. Swept(c)'
      <3>1. /\ call'[c] = op /\ lasting'[c] = Pi!Scoped(op.scope, memory)
            /\ piPc'[c] = IF op.kind = "all" THEN "listing" ELSE "checking"
        BY <1>0, <2>1 DEF ScopeInv
      <3>2. cursor'[c] = Pi!Top
        BY <1>0, <2>1 DEF Swept
      <3>3. \A id \in lasting'[c] : id < cursor'[c]
        BY <1>0, <2>2, <3>1, <3>2 DEF Pi!Top
      <3>4. Pi!Scoped(call[c].scope, memory)' = lasting'[c]
        BY <2>1, <3>1 DEF Pi!Scoped
      <3>5. QED
        BY <3>1, <3>3, <3>4 DEF Swept
    <2>5. QED
      BY <1>0, <2>1, <2>2, <2>3, <2>4 DEF SweepInv
  <1>2. ASSUME NEW c \in PiCallers, Pi!List(c) PROVE SweepInv'
    <2>0. /\ piPc[c] = "listing"
          /\ UNCHANGED <<memory, call, sent, reply, lasting>>
      BY <1>2 DEF Pi!List
    <2>1. PICK from \in {cursor[c], Pi!Top} :
            LET got == Pi!Scan(call[c].scope, from) IN
            IF got.ids \cap previous[c] # {} \/ got.next \in seenCursors[c]
            THEN piPc' = [piPc EXCEPT ![c] = "stopped"] /\ UNCHANGED Pi!traversal
            ELSE /\ cursor' = [cursor EXCEPT ![c] = got.next]
                 /\ page' = [page EXCEPT ![c] = got.ids]
                 /\ piPc' = [piPc EXCEPT ![c] = IF got.ids = {} THEN "done" ELSE "checking"]
      BY <1>2 DEF Pi!List
    <2> DEFINE got == Pi!Scan(call[c].scope, from)
    <2>2. CASE piPc' = [piPc EXCEPT ![c] = "stopped"] /\ UNCHANGED Pi!traversal
      <3>1. \A d \in PiCallers \ {c} : Swept(d)'
        <4>1. \A d \in PiCallers \ {c} : piPc'[d] = piPc[d]
          BY <1>0, <2>2
        <4>2. QED
          BY <1>0, <2>0, <2>2, <4>1, SweptSame DEF Pi!traversal
      <3>2. piPc'[c] = "stopped"
        BY <1>0, <2>2
      <3>3. Pi!Scoped(call[c].scope, memory)' = Pi!Scoped(call[c].scope, memory)
        BY <2>0 DEF Pi!Scoped
      <3>4. Swept(c)'
        BY <1>0, <2>0, <3>2, <3>3 DEF Swept
      <3>5. QED
        BY <1>0, <2>0, <2>2, <3>1, <3>4 DEF SweepInv, Pi!traversal
    <2>3. CASE /\ cursor' = [cursor EXCEPT ![c] = got.next]
               /\ page' = [page EXCEPT ![c] = got.ids]
               /\ piPc' = [piPc EXCEPT ![c] = IF got.ids = {} THEN "done" ELSE "checking"]
      <3>1. from \in 0..Pi!Top
        BY <1>0, <2>1
      <3> DEFINE left == {id \in Pi!Scoped(call[c].scope, memory) : id < from}
      <3>2. /\ got.ids \in SUBSET Pi!Ids /\ got.next \in 0..Pi!Top
            /\ \A id \in left : id \in got.ids \/ id < got.next
            /\ got.ids = {} => left = {}
        BY <3>1, ScanCovers
      <3> HIDE DEF got
      <3>3. /\ cursor' \in [PiCallers -> 0..Pi!Top] /\ page' \in [PiCallers -> SUBSET Pi!Ids]
            /\ cursor'[c] = got.next /\ page'[c] = got.ids
            /\ piPc'[c] = IF got.ids = {} THEN "done" ELSE "checking"
            /\ \A d \in PiCallers \ {c} : UNCHANGED <<piPc[d], cursor[d], page[d]>>
        BY <1>0, <2>3, <3>2
      <3>4. \A d \in PiCallers \ {c} : Swept(d)'
        BY <1>0, <2>0, <3>3, SweptSame
      <3>5. call[c].kind = "all" => lasting[c] \subseteq left
        <4>1. SUFFICES ASSUME call[c].kind = "all", NEW id \in lasting[c] PROVE id \in left
          OBVIOUS
        <4>2. id \in Pi!Scoped(call[c].scope, memory) /\ id < cursor[c] /\ id \in Pi!Ids
          BY <1>0, <2>0, <4>1 DEF Swept
        <4>3. cursor[c] <= from
          BY <1>0, <2>1
        <4>4. QED
          BY <1>0, <3>1, <4>2, <4>3
      <3>6. Pi!Scoped(call[c].scope, memory)' = Pi!Scoped(call[c].scope, memory)
        BY <2>0 DEF Pi!Scoped
      <3> HIDE DEF left
      <3>7. Swept(c)'
        BY <1>0, <2>0, <3>2, <3>3, <3>5, <3>6 DEF Swept
      <3>8. QED
        BY <1>0, <2>0, <3>3, <3>4, <3>7 DEF SweepInv
    <2>4. QED
      BY <2>1, <2>2, <2>3
  <1>3. ASSUME NEW c \in PiCallers, Pi!Check(c) PROVE SweepInv'
    <2>0. /\ piPc[c] = "checking"
          /\ UNCHANGED <<memory, call, reply, lasting, cursor, page>>
      BY <1>3 DEF Pi!Check, Pi!traversal
    <2>1. ~Out(c) /\ reply[c] = "none"
      BY <2>0 DEF ReportInv
    <2>2. \E place \in {"mutating", "stopped"} : piPc' = [piPc EXCEPT ![c] = place]
      BY <1>3 DEF Pi!Check
    <2>3. \A w \in sent' : w \in sent \/
             (w.caller = c /\ w.id = Pi!Target(c) /\ (call[c].kind = "all" => w.delete))
      <3>1. CASE Pi!Checked(c) /\ ~Pi!Moves(c)
        <4> DEFINE app == IF call[c].app = "any" THEN memory[Pi!Target(c)] ELSE call[c].app
                   write == [caller |-> c, id |-> Pi!Target(c), delete |-> call[c].kind # "update",
                             app |-> app]
        <4>1. sent' = sent \cup {write}
          BY <1>3, <3>1 DEF Pi!Check
        <4>2. /\ write.caller = c /\ write.id = Pi!Target(c)
              /\ write.delete <=> call[c].kind # "update"
          OBVIOUS
        <4> HIDE DEF write
        <4>3. QED
          BY <4>1, <4>2
      <3>2. CASE ~(Pi!Checked(c) /\ ~Pi!Moves(c))
        BY <1>3, <3>2 DEF Pi!Check
      <3>3. QED
        BY <3>1, <3>2
    <2>4. \A d \in PiCallers \ {c} : Swept(d)'
      <3>1. \A d \in PiCallers \ {c} : piPc'[d] = piPc[d]
        BY <1>0, <2>2
      <3>2. QED
        BY <1>0, <2>0, <2>3, <3>1, SweptSame
    <2>5. \A w \in sent' : w.caller = c => w.id = Pi!Target(c) /\ (call[c].kind = "all" => w.delete)
      BY <2>1, <2>3 DEF Out
    <2>6. Pi!Scoped(call[c].scope, memory)' = Pi!Scoped(call[c].scope, memory) /\ Pi!Target(c)' = Pi!Target(c)
      BY <2>0 DEF Pi!Scoped, Pi!Target
    <2>7. piPc'[c] \in {"mutating", "stopped"}
      BY <1>0, <2>2
    <2>8. Swept(c)'
      BY <1>0, <2>0, <2>1, <2>5, <2>6, <2>7 DEF Swept
    <2>9. QED
      BY <1>0, <2>0, <2>4, <2>8 DEF SweepInv
  <1>4. ASSUME NEW w \in sent, Pi!Execute(w) PROVE SweepInv'
    <2>1. /\ sent' = sent \ {w} /\ UNCHANGED <<call, piPc, cursor, page>> /\ Pi!Watch
          /\ w.caller \in PiCallers
      BY <1>4 DEF Pi!Execute, ScopeInv, Pi!traversal
    <2>2. lasting' = [c \in PiCallers |-> lasting[c] \cap Pi!Scoped(call[c].scope, memory')]
      BY <2>1 DEF Pi!Watch
    <2>3. \A c \in PiCallers :
             /\ lasting'[c] \subseteq lasting[c]
             /\ lasting'[c] \subseteq Pi!Scoped(call[c].scope, memory)'
      BY <2>1, <2>2 DEF Pi!Scoped
    <2>4. lasting' \in [PiCallers -> SUBSET Pi!Ids]
      BY <1>0, <2>2
    <2>5. \A c \in PiCallers : Pi!Target(c)' = Pi!Target(c)
      BY <2>1 DEF Pi!Target
    <2>6. \A c \in PiCallers \ {w.caller} : reply'[c] = reply[c]
      BY <1>0, <1>4, <2>1 DEF Pi!Execute
    <2>7. \A c \in PiCallers \ {w.caller} : Swept(c)'
      BY <1>0, <2>1, <2>3, <2>5, <2>6 DEF Swept
    <2>8. Swept(w.caller)'
      <3> DEFINE c == w.caller
      <3>1. CASE call[c].kind = "all" /\ piPc[c] = "mutating" /\ reply'[c] = "ok"
        <4>1. w.delete /\ w.id = Pi!Target(c)
          BY <1>0, <2>1, <3>1 DEF Swept
        <4>2. memory[w.id] # "gone"
          BY <1>0, <1>4, <2>1, <3>1 DEF Pi!Execute
        <4>3. memory' = [memory EXCEPT ![w.id] = "gone"]
          BY <1>4, <4>1, <4>2 DEF Pi!Execute
        <4>4. ~(w.id \in Pi!Ids) \/ memory'[w.id] = "gone"
          BY <4>3 DEF ScopeInv
        <4>5. w.id \notin Pi!Scoped(call[c].scope, memory')
          BY <4>4 DEF Pi!Scoped, Pi!InScope
        <4>6. Pi!Target(c)' \notin lasting'[c]
          BY <2>1, <2>2, <2>5, <4>1, <4>5
        <4>7. QED
          BY <1>0, <2>1, <2>3, <2>5, <3>1, <4>6 DEF Swept
      <3>2. CASE ~(call[c].kind = "all" /\ piPc[c] = "mutating" /\ reply'[c] = "ok")
        BY <1>0, <2>1, <2>3, <2>5, <3>2 DEF Swept
      <3>3. QED
        BY <3>1, <3>2
    <2>9. QED
      BY <1>0, <2>1, <2>4, <2>7, <2>8 DEF SweepInv
  <1>5. ASSUME NEW c \in PiCallers, Pi!Answered(c) PROVE SweepInv'
    <2>0. /\ piPc[c] = "mutating" /\ reply[c] # "none" /\ reply' = [reply EXCEPT ![c] = "none"]
          /\ UNCHANGED <<memory, call, sent, lasting, cursor>>
      BY <1>5 DEF Pi!Answered
    <2>1. Pi!Scoped(call[c].scope, memory)' = Pi!Scoped(call[c].scope, memory)
      BY <2>0 DEF Pi!Scoped
    <2>2. CASE reply[c] = "error"
      <3>1. piPc' = [piPc EXCEPT ![c] = "stopped"] /\ UNCHANGED page
        BY <1>5, <2>2 DEF Pi!Answered
      <3>2. \A d \in PiCallers \ {c} : UNCHANGED <<piPc[d], reply[d]>>
        BY <1>0, <2>0, <3>1
      <3>3. \A d \in PiCallers \ {c} : Swept(d)'
        BY <1>0, <2>0, <3>1, <3>2, SweptSame
      <3>4. piPc'[c] = "stopped"
        BY <1>0, <3>1
      <3>5. Swept(c)'
        BY <1>0, <2>0, <2>1, <3>1, <3>4 DEF Swept
      <3>6. QED
        BY <1>0, <2>0, <3>1, <3>3, <3>5 DEF SweepInv
    <2>3. CASE reply[c] = "ok"
      <3>1. /\ page' = [page EXCEPT ![c] = @ \ {Pi!Target(c)}]
            /\ piPc' = [piPc EXCEPT ![c] =
                        IF page'[c] # {} THEN "checking"
                        ELSE IF call[c].kind = "all" /\ cursor[c] # Pi!End THEN "listing" ELSE "done"]
        BY <1>5, <2>3 DEF Pi!Answered
      <3>2. /\ page' \in [PiCallers -> SUBSET Pi!Ids] /\ page'[c] = page[c] \ {Pi!Target(c)}
            /\ piPc'[c] = IF page'[c] # {} THEN "checking"
                        ELSE IF call[c].kind = "all" /\ cursor[c] # Pi!End THEN "listing" ELSE "done"
        BY <1>0, <3>1
      <3>3. \A d \in PiCallers \ {c} : UNCHANGED <<piPc[d], reply[d], page[d]>>
        BY <1>0, <2>0, <3>1
      <3>4. \A d \in PiCallers \ {c} : Swept(d)'
        BY <1>0, <2>0, <3>3, SweptSame
      <3>5. ASSUME call[c].kind = "all"
            PROVE  /\ \A id \in lasting[c] : id \in page'[c] \/ id < cursor[c]
                   /\ page'[c] = {} /\ cursor[c] = Pi!End => lasting[c] = {}
        <4>1. /\ \A id \in lasting[c] : id \in page[c] \/ id < cursor[c]
              /\ Pi!Target(c) \notin lasting[c]
          BY <1>0, <2>0, <2>3, <3>5 DEF Swept
        <4>2. \A id \in lasting[c] : id \in page'[c] \/ id < cursor[c]
          BY <3>2, <4>1
        <4>3. \A id \in lasting[c] : ~(id < Pi!End)
          BY <1>0 DEF Pi!End
        <4>4. QED
          BY <4>2, <4>3
      <3>6. Swept(c)'
        BY <1>0, <2>0, <2>1, <3>2, <3>5 DEF Swept
      <3>7. QED
        BY <1>0, <2>0, <3>2, <3>4, <3>6 DEF SweepInv
    <2>4. QED
      BY <1>0, <2>0, <2>2, <2>3
  <1>6. ASSUME NEW c \in PiCallers, Pi!GiveUp(c) PROVE SweepInv'
    <2>1. /\ piPc' = [piPc EXCEPT ![c] = "stopped"]
          /\ UNCHANGED <<memory, call, sent, reply, lasting, cursor, page>>
      BY <1>6 DEF Pi!GiveUp, Pi!traversal
    <2>2. \A d \in PiCallers \ {c} : Swept(d)'
      <3>1. \A d \in PiCallers \ {c} : piPc'[d] = piPc[d]
        BY <1>0, <2>1
      <3>2. QED
        BY <1>0, <2>1, <3>1, SweptSame
    <2>3. piPc'[c] = "stopped" /\ Pi!Scoped(call[c].scope, memory)' = Pi!Scoped(call[c].scope, memory)
      BY <1>0, <2>1 DEF Pi!Scoped
    <2>4. Swept(c)'
      BY <1>0, <2>1, <2>3 DEF Swept
    <2>5. QED
      BY <1>0, <2>1, <2>2, <2>4 DEF SweepInv
  <1>7. ASSUME NEW app \in AppIds, Pi!Add(app) PROVE SweepInv'
    BY <1>7, SweepWatched DEF Pi!Add, Pi!traversal
  <1>8. CASE UNCHANGED Pi!vars
    <2>1. UNCHANGED <<memory, call, piPc, cursor, page, sent, reply, lasting>>
      BY <1>8 DEF Pi!vars, Pi!traversal
    <2>2. \A d \in PiCallers : Swept(d)'
      BY <1>0, <2>1, SweptSame
    <2>3. QED
      BY <1>0, <2>1, <2>2 DEF SweepInv
  <1>9. QED
    BY <1>1, <1>2, <1>3, <1>4, <1>5, <1>6, <1>7, <1>8 DEF Pi!Next

\* All together.
PiInv == ScopeInv /\ ReportInv /\ SweepInv

LEMMA PiInvTheorem == ASSUME Pi!PiAssumption PROVE Pi!Spec => []PiInv
  <1>1. Pi!Init => PiInv
    BY InitScopeInv, InitReportInv, InitSweepInv DEF PiInv
  <1>2. PiInv /\ [Pi!Next]_(Pi!vars) => PiInv'
    BY NextScopeInv, NextReportInv, NextSweepInv DEF PiInv
  <1>3. QED
    BY <1>1, <1>2, PTL DEF Pi!Spec

\* What an operation confirms has been done, once each, and at most one more: nothing
\* is sent twice, whenever an answer is lost and whenever the operation gives up.
THEOREM ConfirmedDoneTheorem == ASSUME Pi!PiAssumption PROVE Pi!Spec => []Pi!ConfirmedDone
  <1>1. ASSUME PiInv PROVE Pi!ConfirmedDone
    <2>1. SUFFICES ASSUME NEW c \in PiCallers
                   PROVE  /\ Count(c) \in confirmed[c]..(confirmed[c] + 1)
                          /\ piPc[c] = "done" => Count(c) = confirmed[c]
      BY SameCardinality DEF Pi!ConfirmedDone, Count
    <2>2. Count(c) \in Nat /\ confirmed[c] \in Nat /\ piPc[c] \in PiPlaces
      BY <1>1, CountType DEF PiInv, ScopeInv, ReportInv
    <2>3. CASE piPc[c] = "mutating"
      BY <1>1, <2>2, <2>3 DEF PiInv, ReportInv
    <2>4. CASE piPc[c] # "mutating"
      BY <1>1, <2>2, <2>4 DEF PiInv, ReportInv, PiPlaces
    <2>5. QED
      BY <2>3, <2>4
  <1>2. QED
    BY <1>1, PiInvTheorem, PTL

\* A deleteAll that succeeds has left nothing that was in its scope all the time, for
\* any page size and whatever others add, move and delete between its pages.
THEOREM ScopeEmptiedTheorem == ASSUME Pi!PiAssumption PROVE Pi!Spec => []Pi!ScopeEmptied
  <1>1. PiInv => Pi!ScopeEmptied
    BY DEF PiInv, SweepInv, Swept, Pi!ScopeEmptied
  <1>2. QED
    BY <1>1, PiInvTheorem, PTL

-----------------------------------------------------------------------------
\* The components side by side.

\* What happens on the machine is, for each of the models, a behaviour of that model.
LEMMA ComponentsSideBySide ==
    PluginsSpec => Source!Spec /\ Promotion!Spec /\ Policy!Spec /\ Pi!Spec
<1>1. PluginsInit => Source!Init /\ Promotion!Init /\ Policy!Init /\ Pi!Init
  BY DEF PluginsInit
<1>2. [PluginsNext]_allVars => [Source!Next]_(Source!vars)
  BY DEF PluginsNext, SourceStep, PromotionStep, PolicyStep, PiStep, allVars, sourceVars,
      Source!vars
<1>3. [PluginsNext]_allVars => [Promotion!Next]_(Promotion!vars)
  BY DEF PluginsNext, SourceStep, PromotionStep, PolicyStep, PiStep, allVars, promotionVars,
         Promotion!vars, Promotion!own, Promotion!files
<1>4. [PluginsNext]_allVars => [Policy!Next]_(Policy!vars)
  BY DEF PluginsNext, SourceStep, PromotionStep, PolicyStep, PiStep, allVars, policyVars,
         Policy!vars, Policy!local
<1>5. [PluginsNext]_allVars => [Pi!Next]_(Pi!vars)
  BY DEF PluginsNext, SourceStep, PromotionStep, PolicyStep, PiStep, allVars, piVars,
         Pi!vars, Pi!traversal
<1> QED
  BY <1>1, <1>2, <1>3, <1>4, <1>5, PTL
  DEF PluginsSpec, Source!Spec, Promotion!Spec, Policy!Spec, Pi!Spec

\* A plugin that Codex or OpenCode loads is whole unless a run of its name has not
\* ended well or has left out the build; the package of Devin or Pi is never lost,
\* except by overlapping runs of the Pi installer that fail.
THEOREM PluginsUsableTheorem == PluginsSpec => []PluginsUsable
<1>1. PluginsUsable <=> Source!BrokenMeansUnfinished /\ Promotion!PackageKept
  BY DEF PluginsUsable
<1> QED
  BY <1>1, ComponentsSideBySide, BrokenMeansUnfinishedTheorem, PackageKeptTheorem,
     InstallAssumption, PromoteAssumption, PTL

\* A repeated run of a source installer leaves all that belongs to its plugin its own
\* and is not refused for what earlier runs left, unless a marketplace.json or hooks.json
\* does not load.
THEOREM RerunRefreshesTheorem == PluginsSpec => RerunRefreshes
  BY ComponentsSideBySide, SuccessRefreshesTheorem, RerunNotRefusedTheorem, InstallAssumption
  DEF RerunRefreshes

\* What is out of a run's reach in a shared file, the user's or another instance's, stays
\* as it is (update_marketplace, strip_owned_hooks, enable_codex_hooks_feature,
\* write_token_env_file).
THEOREM OthersKeptTheorem == PluginsSpec => OthersKept
  BY ComponentsSideBySide, OthersUntouchedTheorem, InstallAssumption DEF OthersKept

\* A failed promotion restores what was there, one that succeeds undisturbed leaves
\* its own package and credential (install_devin_plugin.py, install_pi_plugin.py).
THEOREM PromotionAtomicTheorem == PluginsSpec => PromotionAtomic
  BY ComponentsSideBySide, FailureRestoresTheorem, SuccessIsCompleteTheorem, PromoteAssumption
  DEF PromotionAtomic

\* One process at a time has the lock of the capture policy.
THEOREM OneInsideTheorem == PluginsSpec => []OneInside
<1>1. OneInside <=> Policy!OneInside
  BY DEF OneInside
<1> QED
  BY <1>1, ComponentsSideBySide, LockExcludesTheorem, CaptureAssumption, PTL

\* Every granted capture is in the file, whose counts are those of the claims made.
THEOREM CapturesCountedTheorem == PluginsSpec => []CapturesCounted
<1>1. CapturesCounted <=> Policy!CapturesClaimed /\ Policy!ClaimsCounted
  BY DEF CapturesCounted
<1> QED
  BY <1>1, ComponentsSideBySide, CapturesClaimedTheorem, ClaimsCountedTheorem, CaptureAssumption,
     PTL

\* Between two changes of an app's date no session and no app has more claims than its
\* limit, and the date turns back at most once per process and day.
THEOREM QuotasKeptTheorem == PluginsSpec => []QuotasKept
<1>1. QuotasKept <=> Policy!LimitsKept /\ Policy!LateOnce /\ Policy!TypeOK
  BY DEF QuotasKept
<1> QED
  BY <1>1, ComponentsSideBySide, LimitsKeptTheorem, LateOnceTheorem, TypeOKTheorem,
     CaptureAssumption, PTL

\* No text is captured twice while its hash is remembered.
THEOREM NoDuplicatesTheorem == PluginsSpec => []NoDuplicates
<1>1. NoDuplicates <=> Policy!NoDuplicates
  BY DEF NoDuplicates
<1> QED
  BY <1>1, ComponentsSideBySide, NoTextTwiceTheorem, CaptureAssumption, PTL

\* The Pi client changes only memories that were in the scope of its call.
THEOREM MutatesInScopeTheorem == PluginsSpec => []MutatesInScope
<1>1. MutatesInScope <=> Pi!MutatesInScope
  BY DEF MutatesInScope
<1> QED
  BY <1>1, ComponentsSideBySide, OnlyInScopeTheorem, PTL

\* What the Pi client confirms has been done, and a deleteAll that succeeds has left
\* nothing that was there all the time.
THEOREM ReportKeptTheorem == PluginsSpec => []ReportKept
<1>1. ReportKept <=> Pi!ConfirmedDone /\ Pi!ScopeEmptied
  BY DEF ReportKept
<1> QED
  BY <1>1, ComponentsSideBySide, ConfirmedDoneTheorem, ScopeEmptiedTheorem, ClientAssumption, PTL
==============================================================================
