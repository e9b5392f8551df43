-------------------------- MODULE RequestSlotsProofs --------------------------
(***************************************************************************)
(* Proofs about RequestSlots, for any number of slots and connections.     *)
(***************************************************************************)
EXTENDS RequestSlots, FiniteSetTheorems, TLAPS

\* The backlog holds waiting connections, each once, and the connection whose
\* thread is being started is the admitted one.
Positions ==
    /\ starting # Nobody => conn[starting] = "admitted"
    /\ \A i \in 1..Len(backlog) : conn[backlog[i]] = "waiting"
    /\ \A i, j \in 1..Len(backlog) : backlog[i] = backlog[j] => i = j

IInv == TypeOK /\ Positions /\ SlotsConserved

\* A connection that takes a slot raises the number of holders by one, one that
\* leaves lowers it, and the number is finite.
LEMMA HoldingFinite ==
    ASSUME TypeOK
    PROVE  IsFiniteSet(Holding) /\ Cardinality(Holding) \in Nat
  <1>1. Holding \subseteq Conns
    BY DEF Holding
  <1>2. IsFiniteSet(Holding)
    BY <1>1, ConnsAssumption, FS_Subset
  <1>3. QED
    BY <1>2, FS_CardinalityType

LEMMA HoldingGrows ==
    ASSUME TypeOK, NEW c \in Conns, c \notin Holding, Holding' = Holding \cup {c}
    PROVE  Cardinality(Holding') = Cardinality(Holding) + 1
  BY HoldingFinite, FS_AddElement

LEMMA HoldingShrinks ==
    ASSUME TypeOK, NEW c \in Holding, Holding' = Holding \ {c}
    PROVE  Cardinality(Holding') = Cardinality(Holding) - 1
  BY HoldingFinite, FS_RemoveElement

LEMMA InitIInv == Init => IInv
  <1> SUFFICES ASSUME Init PROVE IInv
    OBVIOUS
  <1>1. TypeOK
    <2>1. backlog \in Seq(Conns)
      BY DEF Init
    <2>2. slots \in 0..MaxSlots
      BY SlotsAssumption DEF Init
    <2>5. overflow \in BOOLEAN /\ starting \in Conns \cup {Nobody}
      BY DEF Init
    <2>3. conn \in [Conns -> Closed \cup {"waiting", "admitted", "running", "ending"}]
      BY DEF Init, Closed
    <2>4. QED
      BY <2>1, <2>2, <2>3, <2>5 DEF TypeOK
  <1>2. Positions
    BY DEF Init, Positions
  <1>3. Holding = {}
    BY DEF Init, Holding
  <1>4. SlotsConserved
    BY <1>3, FS_EmptySet, SlotsAssumption DEF Init, SlotsConserved
  <1>5. QED
    BY <1>1, <1>2, <1>4 DEF IInv

LEMMA NextIInv == IInv /\ [Next]_vars => IInv'
  <1> SUFFICES ASSUME IInv, [Next]_vars PROVE IInv'
    OBVIOUS
  <1> USE DEF IInv
  <1> USE ConnsAssumption, SlotsAssumption
  <1>1. ASSUME NEW c \in Conns, Connect(c) PROVE IInv'
    <2>1. TypeOK'
      BY <1>1 DEF Connect, TypeOK, Closed
    <2>2. c # starting /\ \A i \in 1..Len(backlog) : backlog[i] # c
      BY <1>1 DEF Connect, Positions, Closed, TypeOK
    <2>3. Positions'
      BY <1>1, <2>2 DEF Connect, Positions, TypeOK, Closed
    <2>4. Holding' = Holding
      BY <1>1 DEF Connect, Holding, TypeOK, Closed
    <2>5. SlotsConserved'
      BY <1>1, <2>4 DEF Connect, SlotsConserved
    <2>6. QED
      BY <2>1, <2>3, <2>5
  <1>2. ASSUME NEW c \in Conns, Handled(c) PROVE IInv'
    <2>1. TypeOK'
      BY <1>2 DEF Handled, TypeOK
    <2>2. Positions'
      BY <1>2 DEF Handled, Positions, TypeOK
    <2>3. Holding' = Holding
      BY <1>2 DEF Handled, Holding, TypeOK
    <2>4. SlotsConserved'
      BY <1>2, <2>3 DEF Handled, SlotsConserved
    <2>5. QED
      BY <2>1, <2>2, <2>4
  <1>3. ASSUME NEW c \in Conns, Leave(c) PROVE IInv'
    <2>1. c \in Holding
      BY <1>3 DEF Leave, Holding
    <2>2. Holding' = Holding \ {c}
      BY <1>3 DEF Leave, Holding, TypeOK
    <2>3. Cardinality(Holding') = Cardinality(Holding) - 1 /\ Cardinality(Holding) \in Nat
      BY <2>1, <2>2, HoldingShrinks, HoldingFinite
    <2>4. Cardinality(Holding) # 0
      BY <2>1, HoldingFinite, FS_EmptySet
    <2>5. slots < MaxSlots
      BY <2>3, <2>4 DEF SlotsConserved, TypeOK
    <2>6. TypeOK'
      BY <1>3, <2>5 DEF Leave, Release, TypeOK, Closed
    <2>7. Positions'
      BY <1>3 DEF Leave, Positions, TypeOK
    <2>8. SlotsConserved'
      BY <1>3, <2>3, <2>5 DEF Leave, Release, SlotsConserved, TypeOK
    <2>9. QED
      BY <2>6, <2>7, <2>8
  <1>4. CASE Admit
    <2> DEFINE c == Head(backlog)
    <2>1. c \in Conns /\ c = backlog[1] /\ 1 \in 1..Len(backlog)
      BY <1>4 DEF Admit, TypeOK
    <2>2. conn[c] = "waiting" /\ c \notin Holding
      BY <2>1 DEF Positions, Holding
    <2>3. Tail(backlog) \in Seq(Conns) /\ Len(Tail(backlog)) = Len(backlog) - 1
          /\ \A i \in 1..Len(Tail(backlog)) : Tail(backlog)[i] = backlog[i+1]
      BY <1>4 DEF Admit, TypeOK
    <2>4. \A i \in 1..Len(Tail(backlog)) : Tail(backlog)[i] # c
      BY <2>1, <2>3 DEF Positions, TypeOK
    <2>5. TypeOK'
      BY <1>4, <2>1, <2>3 DEF Admit, TypeOK
    <2>6. Positions'
      BY <1>4, <2>1, <2>3, <2>4 DEF Admit, Positions, TypeOK
    <2>7. Holding' = Holding \cup {c}
      BY <1>4, <2>1 DEF Admit, Holding, TypeOK
    <2>8. Cardinality(Holding') = Cardinality(Holding) + 1 /\ Cardinality(Holding) \in Nat
      BY <2>1, <2>2, <2>7, HoldingGrows, HoldingFinite
    <2>9. SlotsConserved'
      BY <1>4, <2>8 DEF Admit, SlotsConserved, TypeOK
    <2>10. QED
      BY <2>5, <2>6, <2>9
  <1>5. CASE Refuse
    <2> DEFINE c == Head(backlog)
    <2>1. c \in Conns /\ c = backlog[1] /\ 1 \in 1..Len(backlog)
      BY <1>5 DEF Refuse, TypeOK
    <2>2. conn[c] = "waiting" /\ c \notin Holding
      BY <2>1 DEF Positions, Holding
    <2>3. Tail(backlog) \in Seq(Conns) /\ Len(Tail(backlog)) = Len(backlog) - 1
          /\ \A i \in 1..Len(Tail(backlog)) : Tail(backlog)[i] = backlog[i+1]
      BY <1>5 DEF Refuse, TypeOK
    <2>4. \A i \in 1..Len(Tail(backlog)) : Tail(backlog)[i] # c
      BY <2>1, <2>3 DEF Positions, TypeOK
    <2>5. TypeOK'
      BY <1>5, <2>1, <2>3 DEF Refuse, TypeOK, Closed
    <2>6. Positions'
      BY <1>5, <2>1, <2>3, <2>4 DEF Refuse, Positions, TypeOK
    <2>7. Holding' = Holding
      BY <1>5, <2>1, <2>2 DEF Refuse, Holding, TypeOK
    <2>8. SlotsConserved'
      BY <1>5, <2>7 DEF Refuse, SlotsConserved
    <2>9. QED
      BY <2>5, <2>6, <2>8
  <1>6. CASE StartThread
    <2>1. starting \in Conns /\ conn[starting] = "admitted"
      BY <1>6 DEF StartThread, TypeOK, Positions
    <2>2. TypeOK'
      BY <1>6, <2>1 DEF StartThread, TypeOK
    <2>3. Positions'
      BY <1>6, <2>1 DEF StartThread, Positions, TypeOK
    <2>4. Holding' = Holding
      BY <1>6, <2>1 DEF StartThread, Holding, TypeOK
    <2>5. SlotsConserved'
      BY <1>6, <2>4 DEF StartThread, SlotsConserved
    <2>6. QED
      BY <2>2, <2>3, <2>5
  <1>7. CASE StartFails
    <2>1. starting \in Conns /\ conn[starting] = "admitted" /\ starting \in Holding
      BY <1>7 DEF StartFails, TypeOK, Positions, Holding
    <2>2. Holding' = Holding \ {starting}
      BY <1>7, <2>1 DEF StartFails, Holding, TypeOK
    <2>3. Cardinality(Holding') = Cardinality(Holding) - 1 /\ Cardinality(Holding) \in Nat
      BY <2>1, <2>2, HoldingShrinks, HoldingFinite
    <2>4. Cardinality(Holding) # 0
      BY <2>1, HoldingFinite, FS_EmptySet
    <2>5. slots < MaxSlots
      BY <2>3, <2>4 DEF SlotsConserved, TypeOK
    <2>6. TypeOK'
      BY <1>7, <2>1, <2>5 DEF StartFails, Release, TypeOK, Closed
    <2>7. Positions'
      BY <1>7, <2>1 DEF StartFails, Positions, TypeOK
    <2>8. SlotsConserved'
      BY <1>7, <2>3, <2>5 DEF StartFails, Release, SlotsConserved, TypeOK
    <2>9. QED
      BY <2>6, <2>7, <2>8
  <1>8. CASE UNCHANGED vars
    <2>1. Holding' = Holding
      BY <1>8 DEF vars, Holding
    <2>2. QED
      BY <1>8, <2>1 DEF vars, TypeOK, Positions, SlotsConserved
  <1>9. QED
    BY <1>1, <1>2, <1>3, <1>4, <1>5, <1>6, <1>7, <1>8 DEF Next

LEMMA SpecIInv == Spec => []IInv
  BY InitIInv, NextIInv, PTL DEF Spec

\* No slot is lost and none is given back twice, for any number of slots.
THEOREM SlotsConservedTheorem == Spec => []SlotsConserved
  <1>1. IInv => SlotsConserved
    BY DEF IInv
  <1>2. QED
    BY <1>1, SpecIInv, PTL

\* The types hold throughout.
THEOREM TypeOKTheorem == Spec => []TypeOK
  <1>1. IInv => TypeOK
    BY DEF IInv
  <1>2. QED
    BY <1>1, SpecIInv, PTL

\* A waiting connection is refused only while MaxSlots connections hold a slot.
THEOREM RefusedOnlyWhenFullTheorem == Spec => RefusedOnlyWhenFull
  <1> DEFINE Turned(c) ==
        conn[c] = "waiting" /\ conn'[c] = "refused" => Cardinality(Holding) = MaxSlots
  <1>1. ASSUME IInv, [Next]_vars, NEW c \in Conns PROVE Turned(c)
    <2> SUFFICES ASSUME conn[c] = "waiting", conn'[c] = "refused"
                 PROVE  Cardinality(Holding) = MaxSlots
      OBVIOUS
    <2>1. CASE Refuse
      BY <1>1, <2>1, HoldingFinite DEF Refuse, IInv, SlotsConserved
    <2>2. CASE StartFails
      BY <1>1, <2>2 DEF StartFails, IInv, Positions, TypeOK
    <2>3. ASSUME NEW d \in Conns, Connect(d) \/ Handled(d) \/ Leave(d) PROVE FALSE
      BY <1>1, <2>3 DEF Connect, Handled, Leave, IInv, TypeOK
    <2>4. CASE Admit \/ StartThread
      BY <1>1, <2>4 DEF Admit, StartThread, IInv, TypeOK
    <2>5. CASE UNCHANGED vars
      BY <2>5 DEF vars
    <2>6. QED
      BY <1>1, <2>1, <2>2, <2>3, <2>4, <2>5 DEF Next
  <1>2. IInv /\ [Next]_vars => [\A c \in Conns : Turned(c)]_vars
    BY <1>1
  <1>3. QED
    BY <1>2, SpecIInv, PTL DEF Spec, RefusedOnlyWhenFull
===============================================================================
