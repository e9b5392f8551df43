----------------------------- MODULE ReadsProofs ------------------------------
(***************************************************************************)
(* Proofs about Reads: the direct listing (DirectListing), bulk deletion   *)
(* (BulkDelete), the entities (Entities), and from them what holds of all  *)
(* of them side by side.                                                   *)
(***************************************************************************)
EXTENDS Reads, FiniteSetTheorems, SequenceTheorems, WellFoundedInduction, TLAPS

\* The cardinality that the components count with is that of the library's theorems.
LEMMA SameCardinality ==
    /\ \A S : Listing!Cardinality(S) = Cardinality(S)
    /\ \A S : Bulk!Cardinality(S) = Cardinality(S)
    /\ \A S : Entity!Cardinality(S) = Cardinality(S)
<1>1. \A S : Listing!Cardinality(S) = Cardinality(S)
  BY Zenon DEF Cardinality, Listing!Cardinality
<1>2. \A S : Bulk!Cardinality(S) = Cardinality(S)
  BY Zenon DEF Cardinality, Bulk!Cardinality
<1>3. \A S : Entity!Cardinality(S) = Cardinality(S)
  BY Zenon DEF Cardinality, Entity!Cardinality
<1> QED
  BY <1>1, <1>2, <1>3

\* A family of subsets of a finite set has a smallest member.
LEMMA SmallestOf ==
    ASSUME NEW S, IsFiniteSet(S), NEW F, F # {}, \A A \in F : A \subseteq S
    PROVE  \E B \in F : \A A \in F : A \subseteq B => A = B
<1> DEFINE R == StrictSubsetOrdering(S)
<1>1. IsWellFoundedOn(R, FiniteSubsetsOf(S))
  BY FS_StrictSubsetOrderingWellFounded
<1>2. F \subseteq FiniteSubsetsOf(S)
  BY FS_FiniteSubsetsOfFinite
<1>3. \E B \in F : \A A \in F : ~(<<A, B>> \in R)
  <2> HIDE DEF R
  <2> QED
    BY <1>1, <1>2, WFMin
<1>4. ASSUME NEW B \in F, NEW A \in F, A \subseteq B, A # B PROVE <<A, B>> \in R
  BY <1>4 DEF StrictSubsetOrdering
<1> QED
  BY <1>3, <1>4

\* A finite set of numbers has a least and a greatest element.
LEMMA LeastOf ==
    ASSUME NEW S \in SUBSET Nat, IsFiniteSet(S), S # {}
    PROVE  \E m \in S : \A x \in S : m <= x
<1> DEFINE below(x) == {k \in S : k < x}
           F == {below(x) : x \in S}
<1>1. F # {} /\ \A A \in F : A \subseteq S
  OBVIOUS
<1>2. PICK B \in F : \A A \in F : A \subseteq B => A = B
  <2> HIDE DEF F
  <2> QED
    BY <1>1, SmallestOf
<1>3. PICK m \in S : B = below(m)
  OBVIOUS
<1>4. ASSUME NEW x \in S, x < m PROVE FALSE
  <2>0. \A k \in S : k \in Nat
    OBVIOUS
  <2>1. \A k \in S : k < x => k < m
    BY <1>4, <2>0
  <2>2. x \in below(m) /\ x \notin below(x)
    BY <1>4, <2>0
  <2>3. below(x) \in F /\ below(x) \subseteq below(m)
    BY <2>1
  <2>4. below(x) = below(m)
    BY <1>2, <1>3, <2>3
  <2> QED
    BY <2>2, <2>4
<1>5. \A k \in S : k \in Nat
  OBVIOUS
<1> QED
  BY <1>4, <1>5

LEMMA GreatestOf ==
    ASSUME NEW S \in SUBSET Nat, IsFiniteSet(S), S # {}
    PROVE  \E m \in S : \A x \in S : m >= x
<1> DEFINE above(x) == {k \in S : k > x}
           F == {above(x) : x \in S}
<1>1. F # {} /\ \A A \in F : A \subseteq S
  OBVIOUS
<1>2. PICK B \in F : \A A \in F : A \subseteq B => A = B
  <2> HIDE DEF F
  <2> QED
    BY <1>1, SmallestOf
<1>3. PICK m \in S : B = above(m)
  OBVIOUS
<1>4. ASSUME NEW x \in S, x > m PROVE FALSE
  <2>0. \A k \in S : k \in Nat
    OBVIOUS
  <2>1. \A k \in S : k > x => k > m
    BY <1>4, <2>0
  <2>2. x \in above(m) /\ x \notin above(x)
    BY <1>4, <2>0
  <2>3. above(x) \in F /\ above(x) \subseteq above(m)
    BY <2>1
  <2>4. above(x) = above(m)
    BY <1>2, <1>3, <2>3
  <2> QED
    BY <2>2, <2>4
<1>5. \A k \in S : k \in Nat
  OBVIOUS
<1> QED
  BY <1>4, <1>5

-----------------------------------------------------------------------------
\* The n newest of a set of rows, as the listing and the deletion page them.
NewestOf(n, S) == {r \in S : Cardinality({q \in S : q > r}) < n}

\* Such a page has at most n rows, and all of them or n.
LEMMA NewestFits ==
    ASSUME NEW n \in Nat, NEW S \in SUBSET Nat, IsFiniteSet(S)
    PROVE  /\ NewestOf(n, S) \subseteq S
           /\ IsFiniteSet(NewestOf(n, S))
           /\ Cardinality(NewestOf(n, S)) \in Nat
           /\ Cardinality(NewestOf(n, S)) <= n
           /\ NewestOf(n, S) # S => Cardinality(NewestOf(n, S)) = n
<1> DEFINE got == NewestOf(n, S)
           above(r) == {q \in S : q > r}
<1>1. got \subseteq S /\ \A r \in S : above(r) \subseteq S
  BY DEF NewestOf
<1>2. IsFiniteSet(got) /\ Cardinality(got) \in Nat
  BY <1>1, FS_Subset, FS_CardinalityType
<1>3. \A r \in S : IsFiniteSet(above(r)) /\ Cardinality(above(r)) \in Nat
  BY <1>1, FS_Subset, FS_CardinalityType
<1>4. \A r \in S : r \in got <=> Cardinality(above(r)) < n
  BY DEF NewestOf
<1> HIDE DEF got
<1>5. Cardinality(got) <= n
  <2>1. CASE got = {}
    BY <2>1, FS_EmptySet
  <2>2. CASE got # {}
    <3>0. got \in SUBSET Nat
      BY <1>1
    <3>1. PICK r \in got : \A x \in got : r <= x
      BY <2>2, <1>2, <3>0, LeastOf
    <3>2. got \subseteq above(r) \cup {r}
      BY <3>0, <3>1, <1>1
    <3>3. r \notin above(r)
      BY <3>0
    <3>4. IsFiniteSet(above(r) \cup {r}) /\ Cardinality(above(r) \cup {r}) = Cardinality(above(r)) + 1
      BY <1>1, <1>3, <3>3, FS_AddElement
    <3>5. Cardinality(got) <= Cardinality(above(r)) + 1
      <4> DEFINE U == above(r) \cup {r}
      <4>1. got \in SUBSET U /\ IsFiniteSet(U) /\ Cardinality(U) = Cardinality(above(r)) + 1
        BY <3>2, <3>4
      <4> HIDE DEF U
      <4> QED
        BY <4>1, FS_Subset
    <3> QED
      BY <1>1, <1>2, <1>3, <1>4, <3>5
  <2> QED
    BY <2>1, <2>2
<1>6. ASSUME got # S PROVE Cardinality(got) >= n
  <2>1. S \ got # {} /\ S \ got \in SUBSET Nat
    BY <1>1, <1>6
  <2>2. IsFiniteSet(S \ got)
    BY FS_Subset
  <2>3. PICK r \in S \ got : \A x \in S \ got : r >= x
    BY <2>1, <2>2, GreatestOf
  <2>4. above(r) \subseteq got
    <3>1. \A q \in S : q \in Nat
      OBVIOUS
    <3>2. ASSUME NEW q \in S, q > r PROVE q \in got
      <4>1. ~(r >= q)
        BY <3>1, <3>2
      <4> QED
        BY <2>3, <4>1
    <3> QED
      BY <3>2
  <2>5. Cardinality(above(r)) <= Cardinality(got)
    BY <1>2, <2>4, FS_Subset
  <2> QED
    BY <1>2, <1>3, <1>4, <2>3, <2>5
<1>7. got = NewestOf(n, S)
  BY DEF got
<1> QED
  BY <1>1, <1>2, <1>5, <1>6, <1>7

-----------------------------------------------------------------------------
\* DirectListing, for any number of callers, rows and failures.

\* The smaller of two limits.
LEMMA ListingMin ==
    ASSUME NEW a \in Int, NEW b \in Int
    PROVE  Listing!Min({a, b}) = IF a <= b THEN a ELSE b
<1>1. \E x \in {a, b} : \A y \in {a, b} : x <= y
  OBVIOUS
<1>2. Listing!Min({a, b}) \in {a, b} /\ \A y \in {a, b} : Listing!Min({a, b}) <= y
  BY <1>1 DEF Listing!Min
<1> QED
  BY <1>2

\* No window is negative (_list_fetch_limit).
LEMMA FetchLimitTyped ==
    ASSUME Listing!ListingAssumption, Listing!TypeOK
    PROVE  Listing!FetchLimit \in Nat
<1>1. core.list \in Int /\ core.backend \in Int
  BY DEF Listing!ListingAssumption, Listing!TypeOK
<1> QED
  BY <1>1, ListingMin DEF Listing!FetchLimit

\* What the Core returns are rows; how many of them depends on what it does with top_k.
LEMMA ReturnedFits ==
    ASSUME Listing!ListingAssumption, Listing!TypeOK, NEW topk \in Nat
    PROVE  LET got == Listing!Returned(topk) IN
           /\ got \subseteq rows /\ IsFiniteSet(got) /\ Cardinality(got) \in Nat
           /\ IsFiniteSet(rows) /\ Cardinality(rows) \in Nat
           /\ core.kind = "ignores" =>
                Cardinality(got) <= Default /\ (got # rows => Cardinality(got) = Default)
           /\ core.kind # "ignores" /\ topk > 0 => Cardinality(got) <= topk
           /\ core.kind = "caps" /\ topk > 0 /\ got # rows =>
                Cardinality(got) = IF topk <= Window THEN topk ELSE Window
           /\ core.kind \in {"honors", "rejects"} /\ topk > 0 /\ got # rows =>
                Cardinality(got) = topk
<1>1. rows \in SUBSET Nat /\ Window \in Nat /\ Default \in Nat
  BY DEF Listing!ListingAssumption, Listing!TypeOK
<1>2. IsFiniteSet(rows) /\ Cardinality(rows) \in Nat
  <2>1. added \in Nat /\ rows \in SUBSET (1..added)
    BY DEF Listing!ListingAssumption, Listing!TypeOK
  <2>2. IsFiniteSet(1..added)
    BY <2>1, FS_Interval
  <2> QED
    BY <2>1, <2>2, FS_Subset, FS_CardinalityType
<1>3. \A n : Listing!Newest(n) = NewestOf(n, rows)
  BY SameCardinality DEF Listing!Newest, NewestOf
<1>4. \A n \in Nat :
         /\ NewestOf(n, rows) \subseteq rows /\ IsFiniteSet(NewestOf(n, rows))
         /\ Cardinality(NewestOf(n, rows)) \in Nat /\ Cardinality(NewestOf(n, rows)) <= n
         /\ NewestOf(n, rows) # rows => Cardinality(NewestOf(n, rows)) = n
  BY <1>1, <1>2, NewestFits
<1>5. Listing!Min({topk, Window}) = IF topk <= Window THEN topk ELSE Window
  BY <1>1, ListingMin
<1>6. core.kind \in {"honors", "rejects", "caps", "ignores"}
  BY DEF Listing!TypeOK, Listing!Kinds
<1>7. CASE core.kind = "ignores"
  <2>1. Listing!Returned(topk) = NewestOf(Default, rows)
    <3>1. Listing!Returned(topk) = Listing!Newest(Default)
      BY <1>7 DEF Listing!Returned
    <3> QED
      BY <1>3, <3>1
  <2> QED
    BY <1>1, <1>2, <1>4, <1>7, <2>1
<1>8. CASE core.kind = "caps" /\ topk > 0
  <2>1. Listing!Returned(topk) = NewestOf(IF topk <= Window THEN topk ELSE Window, rows)
    <3>1. Listing!Returned(topk) = Listing!Newest(Listing!Min({topk, Window}))
      BY <1>8 DEF Listing!Returned
    <3> QED
      BY <1>3, <1>5, <3>1
  <2>2. (IF topk <= Window THEN topk ELSE Window) \in Nat
    BY <1>1
  <2> QED
    BY <1>1, <1>2, <1>4, <1>8, <2>1, <2>2
<1>9. CASE core.kind = "caps" /\ ~(topk > 0)
  <2>1. Listing!Returned(topk) = NewestOf(Window, rows)
    BY <1>3, <1>9 DEF Listing!Returned
  <2> QED
    BY <1>1, <1>2, <1>4, <1>9, <2>1
<1>10. CASE core.kind \in {"honors", "rejects"} /\ topk > 0
  <2>1. Listing!Returned(topk) = NewestOf(topk, rows)
    BY <1>3, <1>10 DEF Listing!Returned
  <2> QED
    BY <1>2, <1>4, <1>10, <2>1
<1>11. CASE core.kind \in {"honors", "rejects"} /\ ~(topk > 0)
  <2>1. Listing!Returned(topk) = rows
    BY <1>11 DEF Listing!Returned
  <2> QED
    BY <1>2, <1>11, <2>1
<1> QED
  BY <1>6, <1>7, <1>8, <1>9, <1>10, <1>11

\* What a listing has received: every lasting row, unless the number of rows says so,
\* or the Core ignores top_k and the call has not been told the contrary.
Received(c) ==
    limit[c] > 0 /\ Listing!Telling =>
        /\ pc[c] \in {"probe", "verified", "unverified"} =>
             \/ lasting[c] \subseteq items[c]
             \/ Cardinality(items[c]) >= limit[c]
             \/ Listing!Suspected(c)
             \/ core.kind = "ignores" /\ pc[c] # "verified"
        /\ pc[c] = "answered" /\ answer[c].complete => lasting[c] \subseteq answer[c].listed

\* Only a Core that ignores top_k is found not to honour it, and it is unless a
\* deletion leaves the probe a single row.
Verdict ==
    /\ core.kind # "ignores" => honored # "no"
    /\ core.kind = "ignores" /\ ~undermined =>
         /\ honored # "yes"
         /\ \A c \in Callers : pc[c] = "probe" => Cardinality(rows) >= 2 /\ Default >= 2

ListingInv ==
    /\ Listing!TypeOK
    /\ \A c \in Callers : lasting[c] \subseteq rows \cap Matching
    /\ Verdict
    /\ \A c \in Callers : Received(c)

LEMMA InitListingInv == ASSUME Listing!ListingAssumption, Listing!Init PROVE ListingInv
<1>1. Listing!TypeOK
  <2>1. Listing!Pending \in [listed : SUBSET Listing!Rows, complete : BOOLEAN]
    BY DEF Listing!Pending
  <2>2. 0 \in 0..MaxFailures
    BY DEF Listing!ListingAssumption
  <2> QED
    BY <2>1, <2>2 DEF Listing!Init, Listing!TypeOK
<1>2. Verdict
  BY DEF Verdict, Listing!Init
<1>3. \A c \in Callers : Received(c) /\ lasting[c] \subseteq rows \cap Matching
  BY DEF Received, Listing!Init
<1> QED
  BY <1>1, <1>2, <1>3 DEF ListingInv

\* Every step keeps the types.
LEMMA NextListingTyped ==
    ASSUME Listing!ListingAssumption, Listing!TypeOK, [Listing!Next]_(Listing!vars)
    PROVE  Listing!TypeOK'
<1> USE DEF Listing!TypeOK
<1>0. rows \subseteq Listing!Rows /\ MaxRows \in Nat /\ added \in Nat
  BY DEF Listing!Rows, Listing!ListingAssumption
<1>1. ASSUME NEW c \in Callers, Listing!Call(c) PROVE Listing!TypeOK'
  <2>1. Listing!FetchLimit \in Nat
    BY FetchLimitTyped
  <2> QED
    BY <1>0, <1>1, <2>1 DEF Listing!Call, Listing!Pending
<1>2. ASSUME NEW c \in Callers, Listing!Reject(c) PROVE Listing!TypeOK'
  <2>1. CASE pc[c] = "fetch" /\ limit[c] > RetryLimit /\ RetryLimit > 0
    <3>1. RetryLimit \in Nat
      BY <2>1 DEF Listing!ListingAssumption
    <3> QED
      BY <1>2, <2>1, <3>1 DEF Listing!Reject
  <2>2. CASE ~(pc[c] = "fetch" /\ limit[c] > RetryLimit /\ RetryLimit > 0)
    BY <1>2, <2>2 DEF Listing!Reject
  <2> QED
    BY <2>1, <2>2
<1>3. ASSUME NEW c \in Callers, Listing!Fetch(c) PROVE Listing!TypeOK'
  <2>1. Listing!Returned(limit[c]) \subseteq Listing!Rows
    BY <1>0, ReturnedFits
  <2> QED
    BY <1>3, <2>1 DEF Listing!Fetch
<1>4. ASSUME NEW c \in Callers, Listing!FetchFails(c) PROVE Listing!TypeOK'
  BY <1>4 DEF Listing!FetchFails, Listing!Fail, Listing!ListingAssumption
<1>5. ASSUME NEW c \in Callers, Listing!Probe(c) PROVE Listing!TypeOK'
  BY <1>5 DEF Listing!Probe
<1>6. ASSUME NEW c \in Callers, Listing!ProbeFails(c) PROVE Listing!TypeOK'
  BY <1>6 DEF Listing!ProbeFails, Listing!Fail, Listing!ListingAssumption
<1>7. ASSUME NEW c \in Callers, Listing!Answer(c) PROVE Listing!TypeOK'
  <2>1. (~Listing!Truncated(c)) \in BOOLEAN
    BY DEF Listing!Truncated, Listing!Suspected
  <2>2. [listed |-> items[c] \cap Matching, complete |-> ~Listing!Truncated(c)]
          \in [listed : SUBSET Listing!Rows, complete : BOOLEAN]
    BY <2>1
  <2> QED
    BY <1>7, <2>2 DEF Listing!Answer
<1>8. ASSUME Listing!Add PROVE Listing!TypeOK'
  BY <1>0, <1>8 DEF Listing!Add, Listing!call
<1>9. ASSUME NEW r \in Listing!Rows, Listing!Delete(r) PROVE Listing!TypeOK'
  BY <1>9 DEF Listing!Delete, Listing!call
<1>10. CASE UNCHANGED Listing!vars
  BY <1>10 DEF Listing!vars, Listing!call
<1> QED
  BY <1>1, <1>2, <1>3, <1>4, <1>5, <1>6, <1>7, <1>8, <1>9, <1>10 DEF Listing!Next

\* A listing whose call has not come back tells nothing yet.
LEMMA ReceivedKept ==
    ASSUME Listing!ListingAssumption, Listing!TypeOK, NEW c \in Callers, Received(c),
           pc'[c] = pc[c], limit'[c] = limit[c], items'[c] = items[c], answer'[c] = answer[c],
           lasting'[c] \subseteq lasting[c], core' = core, undermined => undermined'
    PROVE  Received(c)'
<1>1. Listing!Telling' => Listing!Telling
  BY DEF Listing!Telling
<1>2. Listing!Suspected(c)' <=> Listing!Suspected(c)
  BY SameCardinality DEF Listing!Suspected
<1> QED
  BY <1>1, <1>2 DEF Received

\* What others do to the rows, and what another call does, leave a verdict in force.
LEMMA NextVerdict ==
    ASSUME Listing!ListingAssumption, ListingInv, [Listing!Next]_(Listing!vars)
    PROVE  Verdict'
<1> USE DEF ListingInv, Verdict
<1>0. \A n \in Nat : LET got == Listing!Returned(n) IN
         /\ got \subseteq rows /\ IsFiniteSet(got) /\ Cardinality(got) \in Nat
         /\ IsFiniteSet(rows) /\ Cardinality(rows) \in Nat
         /\ core.kind = "ignores" =>
              Cardinality(got) <= Default /\ (got # rows => Cardinality(got) = Default)
         /\ core.kind # "ignores" /\ n > 0 => Cardinality(got) <= n
  BY ReturnedFits
<1>1. ASSUME NEW c \in Callers, Listing!Call(c) PROVE Verdict'
  BY <1>1 DEF Listing!Call, Listing!TypeOK
<1>2. ASSUME NEW c \in Callers, Listing!Reject(c) PROVE Verdict'
  BY <1>2 DEF Listing!Reject, Listing!TypeOK
<1>3. ASSUME NEW c \in Callers, Listing!Fetch(c) PROVE Verdict'
  <2> DEFINE got == Listing!Returned(limit[c])
  <2>1. limit[c] \in Nat /\ Default \in Nat
    BY DEF Listing!TypeOK, Listing!ListingAssumption
  <2>2. pc'[c] = "probe" => Cardinality(got) >= 2
    BY <1>0, <1>3, <2>1, SameCardinality DEF Listing!Fetch, Listing!TypeOK, Listing!Doubtful
  <2>3. got \subseteq rows => Cardinality(got) <= Cardinality(rows)
    BY <1>0, <2>1, FS_Subset
  <2>4. core.kind = "ignores" /\ pc'[c] = "probe" => Cardinality(rows) >= 2 /\ Default >= 2
    BY <1>0, <2>1, <2>2, <2>3
  <2>5. \A d \in Callers : pc'[d] = IF d = c THEN pc'[c] ELSE pc[d]
    BY <1>3 DEF Listing!Fetch, Listing!TypeOK
  <2> QED
    BY <1>3, <2>4, <2>5 DEF Listing!Fetch
<1>4. ASSUME NEW c \in Callers, Listing!FetchFails(c) PROVE Verdict'
  BY <1>4 DEF Listing!FetchFails, Listing!TypeOK
<1>5. ASSUME NEW c \in Callers, Listing!Probe(c) PROVE Verdict'
  <2> DEFINE got == Listing!Returned(1)
  <2>1. 1 \in Nat /\ Default \in Nat
    BY DEF Listing!ListingAssumption
  <2>2. Listing!Probed(got) <=> Cardinality(got) <= 1
    BY SameCardinality DEF Listing!Probed
  <2>3. core.kind # "ignores" => Listing!Probed(got)
    BY <1>0, <2>1, <2>2
  <2>4. core.kind = "ignores" /\ ~undermined => ~Listing!Probed(got)
    BY <1>0, <1>5, <2>1, <2>2 DEF Listing!Probe
  <2> QED
    BY <1>5, <2>3, <2>4 DEF Listing!Probe, Listing!TypeOK
<1>6. ASSUME NEW c \in Callers, Listing!ProbeFails(c) PROVE Verdict'
  BY <1>6 DEF Listing!ProbeFails, Listing!TypeOK
<1>7. ASSUME NEW c \in Callers, Listing!Answer(c) PROVE Verdict'
  BY <1>7 DEF Listing!Answer, Listing!TypeOK
<1>8. ASSUME Listing!Add PROVE Verdict'
  <2>1. IsFiniteSet(rows') /\ Cardinality(rows) <= Cardinality(rows')
    <3>1. IsFiniteSet(rows) /\ rows' = rows \cup {added + 1}
      BY <1>0, <1>8 DEF Listing!Add
    <3>2. IsFiniteSet(rows \cup {added + 1})
      BY <3>1, FS_AddElement
    <3> QED
      BY <3>1, <3>2, FS_Subset
  <2>2. Cardinality(rows) \in Nat /\ Cardinality(rows') \in Nat
    BY <1>0, <2>1, FS_CardinalityType
  <2> QED
    BY <1>8, <2>1, <2>2 DEF Listing!Add, Listing!call
<1>9. ASSUME NEW r \in Listing!Rows, Listing!Delete(r) PROVE Verdict'
  BY <1>9 DEF Listing!Delete, Listing!call
<1>10. CASE UNCHANGED Listing!vars
  BY <1>10 DEF Listing!vars, Listing!call
<1> QED
  BY <1>1, <1>2, <1>3, <1>4, <1>5, <1>6, <1>7, <1>8, <1>9, <1>10 DEF Listing!Next

LEMMA NextListingInv ==
    ASSUME Listing!ListingAssumption, ListingInv, [Listing!Next]_(Listing!vars)
    PROVE  ListingInv'
<1>1. Listing!TypeOK' /\ Verdict'
  BY NextListingTyped, NextVerdict DEF ListingInv
<1> SUFFICES (\A c \in Callers : lasting[c] \subseteq rows \cap Matching)'
             /\ \A c \in Callers : Received(c)'
  BY <1>1 DEF ListingInv
<1>2. Listing!TypeOK /\ Verdict /\ \A c \in Callers : Received(c) /\ lasting[c] \subseteq rows \cap Matching
  BY DEF ListingInv
<1> USE <1>2
<1> DEFINE Lasting == \A c \in Callers : lasting[c] \subseteq rows \cap Matching
<1>3. ASSUME NEW c \in Callers,
             UNCHANGED <<core, rows, undermined>>,
             \A d \in Callers \ {c} :
                /\ pc'[d] = pc[d] /\ limit'[d] = limit[d] /\ items'[d] = items[d]
                /\ answer'[d] = answer[d] /\ lasting'[d] = lasting[d],
             lasting'[c] \subseteq rows \cap Matching,
             Received(c)'
      PROVE  Lasting' /\ \A d \in Callers : Received(d)'
  <2>1. Lasting'
    BY <1>3
  <2>2. ASSUME NEW d \in Callers \ {c} PROVE Received(d)'
    BY <1>3, ReceivedKept
  <2> QED
    BY <1>3, <2>1, <2>2
<1> HIDE DEF Lasting
<1>4. ASSUME NEW c \in Callers, Listing!Call(c) PROVE Lasting' /\ \A d \in Callers : Received(d)'
  <2>1. Received(c)'
    BY <1>4 DEF Listing!Call, Listing!TypeOK, Received
  <2> QED
    BY <1>3, <1>4, <2>1 DEF Listing!Call, Listing!TypeOK
<1>5. ASSUME NEW c \in Callers, Listing!Reject(c) PROVE Lasting' /\ \A d \in Callers : Received(d)'
  <2>1. Received(c)'
    BY <1>5 DEF Listing!Reject, Listing!TypeOK, Received
  <2> QED
    BY <1>3, <1>5, <2>1 DEF Listing!Reject, Listing!TypeOK
<1>6. ASSUME NEW c \in Callers, Listing!Fetch(c) PROVE Lasting' /\ \A d \in Callers : Received(d)'
  <2> DEFINE got == Listing!Returned(limit[c])
  <2>1. limit[c] \in Nat /\ RetryLimit \in Int /\ Window \in Nat /\ Default \in Nat
    BY DEF Listing!TypeOK, Listing!ListingAssumption
  <2>2. /\ got \subseteq rows /\ Cardinality(got) \in Nat
        /\ core.kind = "ignores" /\ got # rows => Cardinality(got) = Default
        /\ core.kind = "caps" /\ limit[c] > 0 /\ got # rows =>
             Cardinality(got) = IF limit[c] <= Window THEN limit[c] ELSE Window
        /\ core.kind \in {"honors", "rejects"} /\ limit[c] > 0 /\ got # rows =>
             Cardinality(got) = limit[c]
    BY <2>1, ReturnedFits
  <2>3. /\ items'[c] = got /\ limit' = limit /\ lasting' = lasting /\ core' = core
        /\ undermined' = undermined
        /\ pc'[c] = IF ~Listing!Doubtful(limit[c], got) \/ honored = "yes" THEN "verified"
                    ELSE IF honored = "no" THEN "unverified" ELSE "probe"
    BY <1>6 DEF Listing!Fetch, Listing!TypeOK
  <2>4. Listing!Doubtful(limit[c], got) <=> limit[c] > 0 /\ Cardinality(got) \in 2..(limit[c] - 1)
    BY SameCardinality DEF Listing!Doubtful
  <2>5. Listing!Suspected(c)' <=>
          limit[c] > RetryLimit /\ RetryLimit > 0 /\ Cardinality(got) = RetryLimit
    BY <2>3, SameCardinality DEF Listing!Suspected
  <2>6. core.kind \in {"honors", "rejects", "caps", "ignores"}
    BY DEF Listing!TypeOK, Listing!Kinds
  <2> HIDE DEF got
  <2>7. ASSUME limit[c] > 0, Listing!Telling, got # rows, Cardinality(got) < limit[c],
               core.kind = "ignores"
        PROVE  pc'[c] # "verified"
    <3>1. ~undermined /\ Cardinality(got) >= 2
      BY <2>1, <2>2, <2>7 DEF Listing!Telling
    <3>2. honored # "yes"
      BY <3>1, <2>7 DEF Verdict
    <3>3. Listing!Doubtful(limit[c], got)
      BY <3>1, <2>1, <2>2, <2>4, <2>7
    <3> QED
      BY <2>3, <3>2, <3>3
  <2>8. ASSUME limit[c] > 0, Listing!Telling, got # rows, Cardinality(got) < limit[c],
               core.kind # "ignores"
        PROVE  Listing!Suspected(c)'
    <3>1. core.kind = "caps"
      BY <2>1, <2>2, <2>6, <2>8
    <3>2. Window = RetryLimit /\ RetryLimit > 0
      BY <2>8, <3>1 DEF Listing!Telling
    <3> QED
      BY <2>1, <2>2, <2>5, <2>8, <3>1, <3>2
  <2>9. got = rows => lasting[c] \subseteq got
    OBVIOUS
  <2>10. Listing!Telling' <=> Listing!Telling
    BY <2>3 DEF Listing!Telling
  <2>11. pc'[c] # "answered"
    BY <2>3
  <2>12. Received(c)'
    BY <2>1, <2>2, <2>3, <2>7, <2>8, <2>9, <2>10, <2>11 DEF Received
  <2> QED
    BY <1>3, <1>6, <2>12 DEF Listing!Fetch, Listing!TypeOK
<1>7. ASSUME NEW c \in Callers, Listing!FetchFails(c)
      PROVE  Lasting' /\ \A d \in Callers : Received(d)'
  <2>1. Received(c)'
    BY <1>7 DEF Listing!FetchFails, Listing!TypeOK, Received
  <2> QED
    BY <1>3, <1>7, <2>1 DEF Listing!FetchFails, Listing!TypeOK
<1>8. ASSUME NEW c \in Callers, Listing!Probe(c) PROVE Lasting' /\ \A d \in Callers : Received(d)'
  <2>1. honored' # "unknown" /\ (pc'[c] = "verified" <=> honored' = "yes")
          /\ pc'[c] \in {"verified", "unverified"}
    BY <1>8 DEF Listing!Probe, Listing!TypeOK
  <2>2. core.kind = "ignores" /\ Listing!Telling => pc'[c] = "unverified"
    BY <1>1, <1>8, <2>1 DEF Verdict, Listing!Telling, Listing!Probe
  <2>3. Listing!Suspected(c)' <=> Listing!Suspected(c)
    BY <1>8, SameCardinality DEF Listing!Suspected, Listing!Probe
  <2>4. Received(c)'
    BY <1>8, <2>1, <2>2, <2>3 DEF Listing!Probe, Listing!Telling, Received
  <2> QED
    BY <1>3, <1>8, <2>4 DEF Listing!Probe, Listing!TypeOK
<1>9. ASSUME NEW c \in Callers, Listing!ProbeFails(c)
      PROVE  Lasting' /\ \A d \in Callers : Received(d)'
  <2>1. Listing!Suspected(c)' <=> Listing!Suspected(c)
    BY <1>9, SameCardinality DEF Listing!Suspected, Listing!ProbeFails
  <2>2. Received(c)'
    BY <1>9, <2>1 DEF Listing!ProbeFails, Listing!TypeOK, Listing!Telling, Received
  <2> QED
    BY <1>3, <1>9, <2>2 DEF Listing!ProbeFails, Listing!TypeOK
<1>10. ASSUME NEW c \in Callers, Listing!Answer(c)
       PROVE  Lasting' /\ \A d \in Callers : Received(d)'
  <2>1. /\ pc'[c] = "answered" /\ answer'[c].listed = items[c] \cap Matching
        /\ answer'[c].complete <=> ~Listing!Truncated(c)
        /\ UNCHANGED <<core, limit, lasting, undermined>>
    BY <1>10 DEF Listing!Answer, Listing!TypeOK
  <2>2. Listing!Truncated(c) <=>
          limit[c] > 0 /\ (Cardinality(items[c]) >= limit[c] \/ pc[c] = "unverified"
                           \/ Listing!Suspected(c))
    BY SameCardinality DEF Listing!Truncated
  <2>3. Received(c)'
    BY <1>10, <2>1, <2>2 DEF Listing!Answer, Listing!Telling, Received
  <2> QED
    BY <1>3, <1>10, <2>3 DEF Listing!Answer, Listing!TypeOK
<1>11. ASSUME Listing!Add PROVE Lasting' /\ \A d \in Callers : Received(d)'
  <2>1. \A d \in Callers : Received(d)'
    BY <1>11, ReceivedKept DEF Listing!Add, Listing!call
  <2>2. Lasting'
    BY <1>11 DEF Listing!Add, Lasting
  <2> QED
    BY <2>1, <2>2
<1>12. ASSUME NEW r \in Listing!Rows, Listing!Delete(r)
       PROVE  Lasting' /\ \A d \in Callers : Received(d)'
  <2>1. \A d \in Callers : lasting'[d] = lasting[d] \ {r}
    BY <1>12 DEF Listing!Delete
  <2>2. \A d \in Callers : Received(d)'
    BY <1>12, <2>1, ReceivedKept DEF Listing!Delete, Listing!call
  <2>3. Lasting'
    BY <1>12, <2>1 DEF Listing!Delete, Lasting
  <2> QED
    BY <2>2, <2>3
<1>13. ASSUME UNCHANGED Listing!vars PROVE Lasting' /\ \A d \in Callers : Received(d)'
  <2>1. \A d \in Callers : Received(d)'
    BY <1>13, ReceivedKept DEF Listing!vars, Listing!call
  <2>2. Lasting'
    BY <1>13 DEF Listing!vars, Lasting
  <2> QED
    BY <2>1, <2>2
<1>14. Lasting' /\ \A d \in Callers : Received(d)'
  BY <1>4, <1>5, <1>6, <1>7, <1>8, <1>9, <1>10, <1>11, <1>12, <1>13 DEF Listing!Next
<1> QED
  BY <1>14 DEF Lasting

LEMMA ListingInvTheorem == ASSUME Listing!ListingAssumption PROVE Listing!Spec => []ListingInv
<1>1. Listing!Init => ListingInv
  BY InitListingInv
<1>2. ListingInv /\ [Listing!Next]_(Listing!vars) => ListingInv'
  BY NextListingInv
<1> QED
  BY <1>1, <1>2, PTL DEF Listing!Spec

\* An answer called complete is complete, and what is remembered of the Core is true,
\* whatever the Core does with top_k and whoever changes the collection meanwhile.
THEOREM ListingHonestTheorem ==
    ASSUME Listing!ListingAssumption
    PROVE  Listing!Spec => [](Listing!CompleteIsComplete /\ Listing!CacheRight)
<1>1. ListingInv => Listing!CompleteIsComplete
  BY DEF ListingInv, Received, Listing!CompleteIsComplete, Listing!Answered
<1>2. ListingInv => Listing!CacheRight
  BY DEF ListingInv, Verdict, Listing!CacheRight, Listing!TypeOK
<1> QED
  BY <1>1, <1>2, ListingInvTheorem, PTL

-----------------------------------------------------------------------------
\* BulkDelete, for any number of calls, rows and failures.

\* Reporting an id that is not in the report yet.
LEMMA Reported ==
    ASSUME NEW S, NEW s \in Seq(S), NEW x \in S, Bulk!IsInjective(s), x \notin Bulk!Range(s)
    PROVE  /\ Append(s, x) \in Seq(S)
           /\ Bulk!IsInjective(Append(s, x))
           /\ Bulk!Range(Append(s, x)) = Bulk!Range(s) \cup {x}
<1>1. /\ Append(s, x) \in Seq(S) /\ Len(s) \in Nat
      /\ DOMAIN Append(s, x) = 1..(Len(s) + 1) /\ DOMAIN s = 1..Len(s)
      /\ \A i \in 1..Len(s) : Append(s, x)[i] = s[i]
      /\ Append(s, x)[Len(s) + 1] = x
  OBVIOUS
<1>2. \A i \in DOMAIN s : s[i] # x
  BY DEF Bulk!Range
<1>3. \A i \in DOMAIN Append(s, x) : i \in DOMAIN s \/ i = Len(s) + 1
  BY <1>1
<1>4. \A i \in DOMAIN s : i \in DOMAIN Append(s, x) /\ Append(s, x)[i] = s[i]
  BY <1>1
<1>5. Len(s) + 1 \in DOMAIN Append(s, x)
  BY <1>1
<1>6. Bulk!IsInjective(Append(s, x))
  <2> SUFFICES ASSUME NEW i \in DOMAIN Append(s, x), NEW j \in DOMAIN Append(s, x),
                      Append(s, x)[i] = Append(s, x)[j]
               PROVE  i = j
    BY DEF Bulk!IsInjective
  <2>1. \A a, b \in DOMAIN s : s[a] = s[b] => a = b
    BY DEF Bulk!IsInjective
  <2> QED
    BY <1>1, <1>2, <1>3, <1>4, <2>1
<1>7. Bulk!Range(Append(s, x)) = Bulk!Range(s) \cup {x}
  BY <1>1, <1>3, <1>4, <1>5 DEF Bulk!Range
<1> QED
  BY <1>1, <1>6, <1>7

\* The rows of the store, and those of a page, are finitely many numbers.
LEMMA BulkFinite ==
    ASSUME Bulk!BulkAssumption, Bulk!TypeOK
    PROVE  /\ Bulk!Rows \in SUBSET Nat /\ IsFiniteSet(Bulk!Rows)
           /\ bulkRows \in SUBSET Nat /\ bulkRows \in SUBSET Bulk!Rows /\ IsFiniteSet(bulkRows)
<1>1. BulkRows \in Nat /\ bulkAdded \in 0..BulkRows /\ bulkRows \subseteq 1..bulkAdded
  BY DEF Bulk!BulkAssumption, Bulk!TypeOK
<1>2. Bulk!Rows \in SUBSET Nat /\ bulkRows \in SUBSET Bulk!Rows
  BY <1>1 DEF Bulk!Rows
<1>3. IsFiniteSet(Bulk!Rows)
  BY <1>1, FS_Interval DEF Bulk!Rows
<1> QED
  BY <1>2, <1>3, FS_Subset

\* The rows that _matches drops do not fill a page.
Narrow == Cardinality(Bulk!Rows \ Shown) < BulkPageSize

\* The first page has rows to delete, no more than its limit; a first page of the
\* Sidecar that shows nothing means that there is nothing to show.
LEMMA FirstPageFits ==
    ASSUME Bulk!BulkAssumption, Bulk!TypeOK
    PROVE  /\ Bulk!FirstPage \subseteq bulkRows \cap Shown
           /\ IsFiniteSet(Bulk!FirstPage)
           /\ Cardinality(Bulk!FirstPage) <= BulkPageSize
           /\ path = "sidecar" /\ Narrow /\ Bulk!FirstPage = {} => bulkRows \cap Shown = {}
<1>1. BulkPageSize \in Nat /\ FetchWindow \in Nat
  BY DEF Bulk!BulkAssumption
<1>2. \A n, S : Bulk!Newest(n, S) = NewestOf(n, S)
  BY SameCardinality DEF Bulk!Newest, NewestOf
<1>3. /\ Bulk!Rows \in SUBSET Nat /\ IsFiniteSet(Bulk!Rows)
      /\ bulkRows \in SUBSET Nat /\ bulkRows \in SUBSET Bulk!Rows /\ IsFiniteSet(bulkRows)
  BY BulkFinite
<1>4. CASE path = "sidecar"
  <2> DEFINE got == NewestOf(BulkPageSize, bulkRows)
  <2>1. Bulk!FirstPage = got \cap Shown
    BY <1>2, <1>4 DEF Bulk!FirstPage
  <2>2. /\ got \subseteq bulkRows /\ IsFiniteSet(got) /\ Cardinality(got) \in Nat
        /\ Cardinality(got) <= BulkPageSize /\ (got # bulkRows => Cardinality(got) = BulkPageSize)
    BY <1>1, <1>3, NewestFits
  <2> HIDE DEF got
  <2>3. IsFiniteSet(got \cap Shown) /\ Cardinality(got \cap Shown) <= Cardinality(got)
    BY <2>2, FS_Subset
  <2>4. Cardinality(got \cap Shown) \in Nat
    BY <2>3, FS_CardinalityType
  <2>5. ASSUME Narrow, got \cap Shown = {} PROVE got = bulkRows
    <3>1. IsFiniteSet(Bulk!Rows \ Shown)
      BY <1>3, FS_Subset
    <3>2. got \in SUBSET (Bulk!Rows \ Shown)
      BY <1>3, <2>2, <2>5
    <3>3. Cardinality(got) <= Cardinality(Bulk!Rows \ Shown)
      BY <3>1, <3>2, FS_Subset
    <3>4. Cardinality(Bulk!Rows \ Shown) \in Nat
      BY <3>1, FS_CardinalityType
    <3> QED
      BY <1>1, <2>2, <2>5, <3>3, <3>4 DEF Narrow
  <2> QED
    BY <1>1, <2>1, <2>2, <2>3, <2>4, <2>5
<1>5. CASE path # "sidecar"
  <2> DEFINE S == NewestOf(FetchWindow, bulkRows) \cap Shown
  <2>1. Bulk!FirstPage = NewestOf(BulkPageSize, S)
    BY <1>2, <1>5 DEF Bulk!FirstPage
  <2>2. NewestOf(FetchWindow, bulkRows) \subseteq bulkRows
    BY <1>1, <1>3, NewestFits
  <2>3. S \in SUBSET (bulkRows \cap Shown) /\ S \in SUBSET bulkRows
    BY <2>2
  <2> HIDE DEF S
  <2>4. IsFiniteSet(S) /\ S \in SUBSET Nat
    BY <1>3, <2>3, FS_Subset
  <2>5. /\ NewestOf(BulkPageSize, S) \subseteq S /\ IsFiniteSet(NewestOf(BulkPageSize, S))
        /\ Cardinality(NewestOf(BulkPageSize, S)) <= BulkPageSize
    BY <1>1, <2>4, NewestFits
  <2> QED
    BY <1>5, <2>1, <2>3, <2>5
<1> QED
  BY <1>4, <1>5

\* What one call has to do with the rows.
Deleting(c) ==
    /\ bulkPage[c] \subseteq 1..bulkAdded
    /\ Bulk!Range(deleted[c]) \subseteq 1..bulkAdded
    /\ initial[c] \subseteq 1..bulkAdded
    /\ bulkPc[c] = "delete" => bulkPage[c] \cap Bulk!Range(deleted[c]) = {}
    /\ path = "scope" => bulkPage[c] = {} /\ bulkPc[c] # "list"
    /\ Bulk!IsInjective(deleted[c])
    /\ Bulk!Range(deleted[c]) \cap bulkRows \subseteq fading
    /\ Narrow /\ bulkPc[c] = "done" /\ path # "listing" => initial[c] \cap bulkRows = {}

BulkInv ==
    /\ Bulk!TypeOK
    /\ path # "sidecar" => fading = {}
    /\ \A c \in Callers : Deleting(c)

LEMMA InitBulkInv == ASSUME Bulk!BulkAssumption, Bulk!Init PROVE BulkInv
<1>1. /\ BulkPageSize \in Nat /\ 0 \in 0..MaxFailures
      /\ Bulk!Cardinality({}) = 0
  BY FS_EmptySet, SameCardinality DEF Bulk!BulkAssumption
<1>2. Bulk!TypeOK
  BY <1>1 DEF Bulk!Init, Bulk!TypeOK
<1>3. Bulk!Range(<<>>) = {} /\ Bulk!IsInjective(<<>>)
  BY DEF Bulk!Range, Bulk!IsInjective
<1>4. \A c \in Callers : Deleting(c)
  BY <1>3 DEF Bulk!Init, Deleting
<1> QED
  BY <1>2, <1>4 DEF BulkInv, Bulk!Init

\* The next id is one of the page.
LEMMA IdOfPage ==
    ASSUME Bulk!BulkAssumption, Bulk!TypeOK, NEW c \in Callers, bulkPage[c] # {}
    PROVE  Bulk!Id(c) \in bulkPage[c] /\ Bulk!Id(c) \in Shown
<1>1. bulkPage[c] \in SUBSET Shown /\ Shown \in SUBSET Bulk!Rows
  BY DEF Bulk!BulkAssumption, Bulk!TypeOK
<1>2. bulkPage[c] \in SUBSET Nat /\ IsFiniteSet(bulkPage[c])
  BY <1>1, BulkFinite, FS_Subset
<1>3. \E m \in bulkPage[c] : \A x \in bulkPage[c] : m >= x
  BY <1>2, GreatestOf
<1> QED
  BY <1>1, <1>3 DEF Bulk!Id, Bulk!Max

\* What a call keeps as long as rows only disappear and new ones are new.
LEMMA OtherDeletions ==
    ASSUME Bulk!TypeOK, NEW c \in Callers, Deleting(c),
           bulkPc'[c] = bulkPc[c], bulkPage'[c] = bulkPage[c], deleted'[c] = deleted[c],
           initial'[c] = initial[c], path' = path,
           bulkAdded' \in Nat, bulkAdded <= bulkAdded',
           bulkRows' \cap 1..bulkAdded \subseteq bulkRows,
           fading \cap bulkRows' \subseteq fading'
    PROVE  Deleting(c)'
<1>1. bulkAdded \in Int /\ 1..bulkAdded \subseteq 1..bulkAdded'
  BY DEF Bulk!TypeOK
<1>2. Narrow' <=> Narrow
  BY DEF Narrow, Bulk!Rows
<1>3. Bulk!Range(deleted[c])' = Bulk!Range(deleted[c]) /\ Bulk!IsInjective(deleted[c])'
  BY DEF Deleting, Bulk!Range, Bulk!IsInjective
<1> QED
  BY <1>1, <1>2, <1>3 DEF Deleting

\* A reported id: the page and the report keep their types, and the call its promise.
LEMMA ReportTyped ==
    ASSUME Bulk!BulkAssumption, Bulk!TypeOK, NEW c \in Callers, Deleting(c),
           bulkPc[c] = "delete", bulkPage[c] # {}, Bulk!Report(c)
    PROVE  /\ bulkPc' \in [Callers -> {"idle", "list", "delete", "done", "stuck", "failed"}]
           /\ bulkPage' \in [Callers -> SUBSET Shown]
           /\ \A d \in Callers : Bulk!Cardinality(bulkPage'[d]) <= BulkPageSize
           /\ deleted' \in [Callers -> Seq(Shown)]
           /\ \A d \in Callers \ {c} : bulkPc'[d] = bulkPc[d] /\ bulkPage'[d] = bulkPage[d]
                                         /\ deleted'[d] = deleted[d]
           /\ bulkPage'[c] = bulkPage[c] \ {Bulk!Id(c)}
           /\ bulkPage'[c] \cap Bulk!Range(deleted'[c]) = {}
           /\ Bulk!IsInjective(deleted'[c])
           /\ Bulk!Range(deleted'[c]) = Bulk!Range(deleted[c]) \cup {Bulk!Id(c)}
           /\ bulkPc'[c] = IF bulkPage[c] = {Bulk!Id(c)} THEN Bulk!AfterPage ELSE "delete"
<1> USE DEF Bulk!TypeOK
<1>1. Bulk!Id(c) \in bulkPage[c] /\ Bulk!Id(c) \in Shown
  BY IdOfPage
<1>2. Bulk!Id(c) \notin Bulk!Range(deleted[c]) /\ Bulk!IsInjective(deleted[c])
      /\ bulkPage[c] \cap Bulk!Range(deleted[c]) = {}
  BY <1>1 DEF Deleting
<1>3. /\ Append(deleted[c], Bulk!Id(c)) \in Seq(Shown)
      /\ Bulk!IsInjective(Append(deleted[c], Bulk!Id(c)))
      /\ Bulk!Range(Append(deleted[c], Bulk!Id(c))) = Bulk!Range(deleted[c]) \cup {Bulk!Id(c)}
  BY <1>1, <1>2, Reported
<1>4. Bulk!AfterPage \in {"list", "done"}
  BY DEF Bulk!AfterPage
<1>5. Bulk!Cardinality(bulkPage[c] \ {Bulk!Id(c)}) <= BulkPageSize
  <2>1. bulkPage[c] \in SUBSET Shown /\ Shown \in SUBSET Bulk!Rows /\ BulkPageSize \in Nat
    BY DEF Bulk!BulkAssumption
  <2>2. IsFiniteSet(bulkPage[c])
    BY <2>1, BulkFinite, FS_Subset
  <2> DEFINE rest == bulkPage[c] \ {Bulk!Id(c)}
  <2>3. rest \in SUBSET bulkPage[c]
    OBVIOUS
  <2> HIDE DEF rest
  <2>4. IsFiniteSet(rest) /\ Cardinality(rest) <= Cardinality(bulkPage[c])
    BY <2>2, <2>3, FS_Subset
  <2>5. Cardinality(rest) \in Nat /\ Cardinality(bulkPage[c]) \in Nat
    BY <2>2, <2>4, FS_CardinalityType
  <2>6. Cardinality(bulkPage[c]) <= BulkPageSize
    BY SameCardinality
  <2>7. Cardinality(rest) <= BulkPageSize
    BY <2>1, <2>4, <2>5, <2>6
  <2> QED
    BY <2>7, SameCardinality DEF rest
<1> QED
  BY <1>1, <1>2, <1>3, <1>4, <1>5 DEF Bulk!Report

LEMMA NextBulkInv ==
    ASSUME Bulk!BulkAssumption, BulkInv, [Bulk!Next]_(Bulk!vars)
    PROVE  BulkInv'
<1>1. Bulk!TypeOK /\ (path # "sidecar" => fading = {}) /\ \A c \in Callers : Deleting(c)
  BY DEF BulkInv
<1> USE <1>1
<1>2. bulkAdded \in Nat /\ BulkRows \in Nat /\ BulkPageSize \in Nat /\ MaxFailures \in Nat
  BY DEF Bulk!BulkAssumption, Bulk!TypeOK
<1>3. ASSUME NEW c \in Callers, Bulk!TypeOK', Deleting(c)', path' = path,
             path # "sidecar" => fading' = {},
             \A d \in Callers \ {c} :
                /\ bulkPc'[d] = bulkPc[d] /\ bulkPage'[d] = bulkPage[d]
                /\ deleted'[d] = deleted[d] /\ initial'[d] = initial[d],
             bulkAdded' = bulkAdded, bulkRows' \subseteq bulkRows,
             fading \cap bulkRows' \subseteq fading'
      PROVE  BulkInv'
  <2>1. ASSUME NEW d \in Callers \ {c} PROVE Deleting(d)'
    <3>1. bulkRows' \cap 1..bulkAdded \subseteq bulkRows
      BY <1>3
    <3> QED
      BY <1>2, <1>3, <3>1, OtherDeletions
  <2> QED
    BY <1>3, <2>1 DEF BulkInv
<1>4. ASSUME NEW c \in Callers, Bulk!Start(c) PROVE BulkInv'
  <2>1. Bulk!TypeOK'
    BY <1>4 DEF Bulk!Start, Bulk!TypeOK
  <2>2. initial'[c] = bulkRows \cap Shown /\ initial'[c] \subseteq 1..bulkAdded
    BY <1>4 DEF Bulk!Start, Bulk!TypeOK
  <2>3. Deleting(c)'
    BY <1>4, <2>2 DEF Bulk!Start, Bulk!TypeOK, Deleting
  <2> QED
    BY <1>3, <1>4, <2>1, <2>3 DEF Bulk!Start, Bulk!TypeOK
<1>5. ASSUME NEW c \in Callers, Bulk!List(c) PROVE BulkInv'
  <2>1. /\ Bulk!FirstPage \subseteq bulkRows \cap Shown
        /\ Cardinality(Bulk!FirstPage) <= BulkPageSize
        /\ path = "sidecar" /\ Narrow /\ Bulk!FirstPage = {} => bulkRows \cap Shown = {}
    BY FirstPageFits
  <2>2. Bulk!TypeOK'
    BY <1>5, <2>1, SameCardinality DEF Bulk!List, Bulk!TypeOK
  <2>3. /\ bulkPage'[c] = Bulk!FirstPage /\ bulkPc[c] = "list"
        /\ bulkPc'[c] = IF Bulk!FirstPage = {} THEN "done"
                        ELSE IF Bulk!Repeated(c) THEN "stuck" ELSE "delete"
        /\ UNCHANGED <<path, bulkRows, fading, bulkAdded, deleted, initial>>
    BY <1>5 DEF Bulk!List, Bulk!TypeOK
  <2>4. Bulk!Repeated(c) <=> Bulk!FirstPage \cap Bulk!Range(deleted[c]) # {}
    BY DEF Bulk!Repeated
  <2>5. path \in {"sidecar", "listing"}
    BY <2>3 DEF Bulk!TypeOK, Bulk!BulkAssumption, Deleting
  <2>6. initial[c] \subseteq Shown /\ bulkRows \subseteq 1..bulkAdded
    BY DEF Bulk!TypeOK
  <2>7. Deleting(c)'
    BY <2>1, <2>3, <2>4, <2>5, <2>6 DEF Deleting, Narrow, Bulk!Rows, Bulk!Range, Bulk!IsInjective
  <2> QED
    BY <1>3, <1>5, <2>2, <2>7 DEF Bulk!List, Bulk!TypeOK
<1>6. ASSUME NEW c \in Callers, bulkPc[c] = "delete", bulkPage[c] # {}, Bulk!Report(c),
             UNCHANGED <<path, bulkAdded, initial>>,
             bulkRows' \subseteq bulkRows,
             fading' \subseteq bulkRows',
             path # "sidecar" => fading' = {},
             fading \cap bulkRows' \subseteq fading',
             Bulk!Id(c) \in bulkRows' => Bulk!Id(c) \in fading',
             bulkFailures' = bulkFailures
      PROVE  BulkInv'
  <2>1. /\ bulkPc' \in [Callers -> {"idle", "list", "delete", "done", "stuck", "failed"}]
        /\ bulkPage' \in [Callers -> SUBSET Shown]
        /\ \A d \in Callers : Bulk!Cardinality(bulkPage'[d]) <= BulkPageSize
        /\ deleted' \in [Callers -> Seq(Shown)]
        /\ \A d \in Callers \ {c} : bulkPc'[d] = bulkPc[d] /\ bulkPage'[d] = bulkPage[d]
                                      /\ deleted'[d] = deleted[d]
        /\ bulkPage'[c] = bulkPage[c] \ {Bulk!Id(c)}
        /\ bulkPage'[c] \cap Bulk!Range(deleted'[c]) = {}
        /\ Bulk!IsInjective(deleted'[c])
        /\ Bulk!Range(deleted'[c]) = Bulk!Range(deleted[c]) \cup {Bulk!Id(c)}
        /\ bulkPc'[c] = IF bulkPage[c] = {Bulk!Id(c)} THEN Bulk!AfterPage ELSE "delete"
    BY <1>6, ReportTyped
  <2>2. Bulk!TypeOK'
    BY <1>6, <2>1 DEF Bulk!TypeOK
  <2>3. Bulk!Id(c) \in bulkPage[c]
    BY <1>6, IdOfPage
  <2>4. path \in {"sidecar", "listing"}
    BY <1>6 DEF Bulk!TypeOK, Bulk!BulkAssumption, Deleting
  <2>5. bulkPc'[c] = "done" => path = "listing"
    BY <2>1, <2>4 DEF Bulk!AfterPage
  <2>6. Bulk!Range(deleted'[c]) \cap bulkRows' \subseteq fading'
    BY <1>6, <2>1 DEF Deleting
  <2>7. Bulk!Range(deleted[c])' = Bulk!Range(deleted'[c])
        /\ (Bulk!IsInjective(deleted[c])' <=> Bulk!IsInjective(deleted'[c]))
    BY DEF Bulk!Range, Bulk!IsInjective
  <2>8. Deleting(c)'
    BY <1>6, <2>1, <2>3, <2>4, <2>5, <2>6, <2>7 DEF Deleting
  <2> QED
    BY <1>3, <1>6, <2>1, <2>2, <2>8
<1>7. ASSUME NEW c \in Callers, Bulk!Delete(c) PROVE BulkInv'
  <2>1. bulkPc[c] = "delete" /\ bulkPage[c] # {} /\ Bulk!Report(c) /\ Bulk!Id(c) \in bulkRows
          /\ UNCHANGED <<path, bulkAdded, initial, bulkFailures>>
    BY <1>7 DEF Bulk!Delete
  <2>2. fading \subseteq bulkRows
    BY DEF Bulk!TypeOK
  <2>3. CASE bulkRows' = bulkRows \ {Bulk!Id(c)} /\ fading' = fading \ {Bulk!Id(c)}
    BY <1>6, <2>1, <2>2, <2>3
  <2>4. CASE path = "sidecar" /\ fading' = fading \cup {Bulk!Id(c)} /\ bulkRows' = bulkRows
    BY <1>6, <2>1, <2>2, <2>4
  <2> QED
    BY <1>7, <2>3, <2>4 DEF Bulk!Delete
<1>8. ASSUME NEW c \in Callers, Bulk!DeleteMissing(c) PROVE BulkInv'
  <2>1. bulkPc[c] = "delete" /\ bulkPage[c] # {} /\ Bulk!Id(c) \notin bulkRows
          /\ UNCHANGED <<path, bulkRows, fading, bulkAdded, initial, bulkFailures>>
    BY <1>8 DEF Bulk!DeleteMissing
  <2>2. fading \subseteq bulkRows
    BY DEF Bulk!TypeOK
  <2>3. CASE Bulk!Report(c)
    BY <1>6, <2>1, <2>2, <2>3
  <2>4. CASE bulkPc' = [bulkPc EXCEPT ![c] = "failed"] /\ UNCHANGED <<bulkPage, deleted>>
    <3>1. Bulk!TypeOK'
      BY <2>1, <2>4 DEF Bulk!TypeOK
    <3>2. bulkPc'[c] = "failed" /\ \A d \in Callers \ {c} : bulkPc'[d] = bulkPc[d]
      BY <2>4 DEF Bulk!TypeOK
    <3>3. Deleting(c)'
      BY <2>1, <2>4, <3>2 DEF Deleting, Bulk!Range, Bulk!IsInjective
    <3> QED
      BY <1>3, <2>1, <2>4, <3>1, <3>2, <3>3
  <2> QED
    BY <1>8, <2>3, <2>4 DEF Bulk!DeleteMissing
<1>9. ASSUME NEW c \in Callers, Bulk!DeleteScope(c) PROVE BulkInv'
  <2>1. path = "scope" /\ bulkPc[c] = "delete" /\ bulkRows' = {}
          /\ bulkPc' = [bulkPc EXCEPT ![c] = "done"]
          /\ UNCHANGED <<path, fading, bulkAdded, bulkPage, deleted, initial, bulkFailures>>
    BY <1>9 DEF Bulk!DeleteScope
  <2>2. fading = {}
    BY <2>1
  <2>3. Bulk!TypeOK'
    BY <2>1, <2>2 DEF Bulk!TypeOK
  <2>4. bulkPc'[c] = "done" /\ \A d \in Callers \ {c} : bulkPc'[d] = bulkPc[d]
    BY <2>1 DEF Bulk!TypeOK
  <2>5. Deleting(c)'
    BY <2>1, <2>2, <2>4 DEF Deleting, Bulk!Range, Bulk!IsInjective
  <2> QED
    BY <1>3, <2>1, <2>2, <2>3, <2>4, <2>5
<1>10. ASSUME NEW c \in Callers, Bulk!RequestFails(c) PROVE BulkInv'
  <2>1. bulkRows' \subseteq bulkRows /\ fading' = fading \cap bulkRows'
          /\ bulkPc' = [bulkPc EXCEPT ![c] = "failed"]
          /\ bulkFailures < MaxFailures /\ bulkFailures' = bulkFailures + 1
          /\ UNCHANGED <<path, bulkAdded, bulkPage, deleted, initial>>
    BY <1>10 DEF Bulk!RequestFails, Bulk!Fail
  <2>2. Bulk!TypeOK'
    BY <1>2, <2>1 DEF Bulk!TypeOK
  <2>3. bulkPc'[c] = "failed" /\ \A d \in Callers \ {c} : bulkPc'[d] = bulkPc[d]
    BY <2>1 DEF Bulk!TypeOK
  <2>4. Deleting(c)'
    BY <2>1, <2>3 DEF Deleting, Bulk!Range, Bulk!IsInjective
  <2> QED
    BY <1>3, <2>1, <2>2, <2>3, <2>4
<1>11. ASSUME Bulk!Add PROVE BulkInv'
  <2>1. bulkAdded < BulkRows /\ bulkAdded' = bulkAdded + 1
          /\ bulkRows' = bulkRows \cup {bulkAdded + 1}
          /\ UNCHANGED <<path, fading, bulkPc, bulkPage, deleted, initial, bulkFailures>>
    BY <1>11 DEF Bulk!Add, Bulk!call
  <2>2. Bulk!TypeOK'
    BY <1>2, <2>1 DEF Bulk!TypeOK
  <2>3. ASSUME NEW c \in Callers PROVE Deleting(c)'
    BY <1>2, <2>1, OtherDeletions
  <2> QED
    BY <2>1, <2>2, <2>3 DEF BulkInv
<1>12. ASSUME NEW r \in Bulk!Rows, Bulk!OtherDelete(r) PROVE BulkInv'
  <2>1. bulkRows' = bulkRows \ {r} /\ fading' = fading \ {r}
          /\ UNCHANGED <<path, bulkAdded, bulkPc, bulkPage, deleted, initial, bulkFailures>>
    BY <1>12 DEF Bulk!OtherDelete, Bulk!call
  <2>2. Bulk!TypeOK'
    BY <2>1 DEF Bulk!TypeOK
  <2>3. ASSUME NEW c \in Callers PROVE Deleting(c)'
    BY <1>2, <2>1, OtherDeletions
  <2> QED
    BY <2>1, <2>2, <2>3 DEF BulkInv
<1>13. ASSUME UNCHANGED Bulk!vars PROVE BulkInv'
  <2>1. UNCHANGED <<path, bulkRows, fading, bulkAdded, bulkPc, bulkPage, deleted, initial,
                    bulkFailures>>
    BY <1>13 DEF Bulk!vars, Bulk!call
  <2>2. Bulk!TypeOK'
    BY <2>1 DEF Bulk!TypeOK
  <2>3. ASSUME NEW c \in Callers PROVE Deleting(c)'
    BY <1>2, <2>1, OtherDeletions
  <2> QED
    BY <2>1, <2>2, <2>3 DEF BulkInv
<1> QED
  BY <1>4, <1>5, <1>7, <1>8, <1>9, <1>10, <1>11, <1>12, <1>13 DEF Bulk!Next, Bulk!Step

LEMMA BulkInvTheorem == ASSUME Bulk!BulkAssumption PROVE Bulk!Spec => []BulkInv
<1>1. Bulk!Init => BulkInv
  BY InitBulkInv
<1>2. BulkInv /\ [Bulk!Next]_(Bulk!vars) => BulkInv'
  BY NextBulkInv
<1> QED
  BY <1>1, <1>2, PTL DEF Bulk!Spec

\* A deletion that succeeds, other than through one direct listing, has left nothing that
\* was listed for it when it was called, and no report lies, whoever adds and deletes and
\* whatever fails.
THEOREM DeletionHonestTheorem ==
    ASSUME Bulk!BulkAssumption
    PROVE  Bulk!Spec => [](Bulk!DoneMeansGone /\ Bulk!ReportExact)
<1>1. BulkInv => Bulk!DoneMeansGone
  BY SameCardinality DEF BulkInv, Deleting, Narrow, Bulk!DoneMeansGone
<1>2. BulkInv => Bulk!ReportExact
  BY DEF BulkInv, Deleting, Bulk!ReportExact
<1> QED
  BY <1>1, <1>2, BulkInvTheorem, PTL

\* A call gives up only on a row that the store still returns although it has
\* acknowledged its deletion to this call.
THEOREM StuckOnlyByStoreTheorem ==
    ASSUME Bulk!BulkAssumption
    PROVE  Bulk!Spec => Bulk!StuckOnlyByStore
<1>1. ASSUME BulkInv, [Bulk!Next]_(Bulk!vars), NEW c \in Callers,
             bulkPc[c] # "stuck", bulkPc'[c] = "stuck"
      PROVE  Bulk!Range(deleted[c]) \cap fading # {}
  <2>1. Bulk!List(c) /\ Bulk!Repeated(c)
    <3>1. DOMAIN bulkPc = Callers
      BY <1>1 DEF BulkInv, Bulk!TypeOK
    <3>2. ~UNCHANGED bulkPc /\ ~UNCHANGED Bulk!vars
      BY <1>1 DEF Bulk!vars, Bulk!call
    <3>3. ~Bulk!Add /\ \A r \in Bulk!Rows : ~Bulk!OtherDelete(r)
      BY <3>2 DEF Bulk!Add, Bulk!OtherDelete, Bulk!call
    <3>4. ASSUME NEW d \in Callers
          PROVE  ~Bulk!Start(d) /\ ~Bulk!RequestFails(d) /\ ~Bulk!DeleteScope(d)
      BY <1>1, <3>1 DEF Bulk!Start, Bulk!RequestFails, Bulk!DeleteScope
    <3>5. ASSUME NEW d \in Callers
          PROVE  ~Bulk!Delete(d) /\ ~Bulk!DeleteMissing(d)
      BY <1>1, <3>1 DEF Bulk!Delete, Bulk!DeleteMissing, Bulk!Report, Bulk!AfterPage
    <3>6. PICK d \in Callers : Bulk!List(d)
      BY <1>1, <3>2, <3>3, <3>4, <3>5 DEF Bulk!Next, Bulk!Step
    <3> QED
      BY <1>1, <3>1, <3>6 DEF Bulk!List
  <2>2. PICK r \in Bulk!FirstPage : r \in Bulk!Range(deleted[c])
    BY <2>1 DEF Bulk!Repeated
  <2>3. r \in bulkRows
    BY <2>2 DEF Bulk!FirstPage, Bulk!Newest
  <2> QED
    BY <1>1, <2>2, <2>3 DEF BulkInv, Deleting, Bulk!ReportExact
<1>2. BulkInv /\ [Bulk!Next]_(Bulk!vars) =>
        [\A c \in Callers :
            bulkPc[c] # "stuck" /\ bulkPc'[c] = "stuck" => Bulk!Range(deleted[c]) \cap fading # {}]_(Bulk!vars)
  BY <1>1
<1> QED
  BY <1>2, BulkInvTheorem, PTL DEF Bulk!Spec, Bulk!StuckOnlyByStore

-----------------------------------------------------------------------------
\* Entities, for any number of entities and changes.
KindNames == {"user", "agent", "run"}

\* The position of an entity's kind in the order of the listing.
Position(e) == IF e.kind = "user" THEN 1 ELSE IF e.kind = "agent" THEN 2 ELSE 3

LEMMA PositionOfKind ==
    ASSUME NEW e \in Entity!Entity
    PROVE  /\ Position(e) \in 1..3
           /\ \A i \in 1..3 : Entity!Kinds[i] = e.kind <=> Position(e) = i
           /\ \A f \in Entity!Entity : e.kind = f.kind <=> Position(e) = Position(f)
<1>1. e.kind \in KindNames /\ \A f \in Entity!Entity : f.kind \in KindNames
  BY DEF Entity!Entity, KindNames
<1> QED
  BY <1>1 DEF Position, Entity!Kinds, KindNames

\* There are finitely many entities.
LEMMA EntitiesFinite ==
    ASSUME Entity!EntityAssumption
    PROVE  IsFiniteSet(Entity!Entity)
<1> DEFINE f == [p \in KindNames \X Ids |-> [kind |-> p[1], id |-> p[2]]]
<1>1. IsFiniteSet(Ids)
  <2>1. Entity!IsFiniteSet(Ids)
    BY DEF Entity!EntityAssumption
  <2> QED
    BY <2>1 DEF Entity!IsFiniteSet, IsFiniteSet
<1>2. IsFiniteSet(KindNames)
  <2>1. IsFiniteSet({"user"}) /\ IsFiniteSet({"user"} \cup {"agent"})
          /\ IsFiniteSet(({"user"} \cup {"agent"}) \cup {"run"})
    <3>1. IsFiniteSet({} \cup {"user"})
      BY FS_EmptySet, FS_AddElement
    <3>2. {} \cup {"user"} = {"user"}
      OBVIOUS
    <3> QED
      BY <3>1, <3>2, FS_AddElement
  <2>2. KindNames = ({"user"} \cup {"agent"}) \cup {"run"}
    BY DEF KindNames
  <2> QED
    BY <2>1, <2>2
<1>3. IsFiniteSet(KindNames \X Ids)
  BY <1>1, <1>2, FS_Product
<1>4. f \in Surjection(KindNames \X Ids, Entity!Entity)
  <2>1. f \in [KindNames \X Ids -> Entity!Entity]
    BY DEF Entity!Entity, KindNames
  <2>2. \A e \in Entity!Entity : <<e.kind, e.id>> \in KindNames \X Ids /\ f[<<e.kind, e.id>>] = e
    BY DEF Entity!Entity, KindNames
  <2>3. \A e \in Entity!Entity : \E p \in KindNames \X Ids : f[p] = e
    BY <2>2
  <2> QED
    BY <2>1, <2>3 DEF Surjection
<1> HIDE DEF f
<1> QED
  BY <1>3, <1>4, FS_Surjection

\* What is listed before an entity.
Earlier(e) == {f \in stored : f.kind = e.kind /\ f.id < e.id}

LEMMA RankIs ==
    ASSUME Entity!EntityAssumption, stored \subseteq Entity!Entity, NEW e
    PROVE  /\ Entity!Rank(e) = Cardinality(Earlier(e))
           /\ IsFiniteSet(stored) /\ IsFiniteSet(Earlier(e)) /\ Entity!Rank(e) \in Nat
<1>1. Entity!Rank(e) = Cardinality(Earlier(e))
  BY SameCardinality DEF Entity!Rank, Earlier
<1>2. IsFiniteSet(stored)
  BY EntitiesFinite, FS_Subset
<1>3. Earlier(e) \in SUBSET stored
  BY DEF Earlier
<1>4. IsFiniteSet(Earlier(e)) /\ Cardinality(Earlier(e)) \in Nat
  BY <1>2, <1>3, FS_Subset, FS_CardinalityType
<1> QED
  BY <1>1, <1>2, <1>4

\* No rank is left out: if an entity has rank n or more, one of its kind has rank n.
LEMMA RanksContiguous ==
    ASSUME Entity!EntityAssumption, stored \subseteq Entity!Entity,
           NEW e \in stored, NEW n \in Nat, Entity!Rank(e) >= n
    PROVE  \E f \in stored : f.kind = e.kind /\ Entity!Rank(f) = n
<1> DEFINE T == {f \in stored : f.kind = e.kind /\ Entity!Rank(f) >= n}
           F == {Earlier(f) : f \in T}
<1>1. F # {} /\ \A A \in F : A \subseteq stored
  <2>1. e \in T
    OBVIOUS
  <2>2. Earlier(e) \in F
    BY <2>1
  <2> QED
    BY <2>2 DEF Earlier
<1>2. IsFiniteSet(stored)
  BY RankIs
<1>3. PICK B \in F : \A A \in F : A \subseteq B => A = B
  <2> HIDE DEF F
  <2> QED
    BY <1>1, <1>2, SmallestOf
<1>4. PICK f \in T : B = Earlier(f)
  OBVIOUS
<1>5. \A g \in stored : g.id \in Nat
  BY DEF Entity!Entity, Entity!EntityAssumption
<1>6. f \in stored /\ f.kind = e.kind /\ Entity!Rank(f) >= n
  OBVIOUS
<1>7. ASSUME NEW g \in Earlier(f) PROVE Entity!Rank(g) < n
  <2>1. g \in stored /\ g.kind = e.kind /\ g.kind = f.kind /\ g.id < f.id
    BY <1>6 DEF Earlier
  <2>2. Earlier(g) \subseteq Earlier(f) /\ g \notin Earlier(g)
    <3>1. \A h \in stored : h.id < g.id => h.id < f.id
      BY <1>5, <1>6, <2>1
    <3> QED
      BY <1>5, <2>1, <3>1 DEF Earlier
  <2>3. g \notin T
    <3>1. ASSUME g \in T PROVE FALSE
      <4>1. Earlier(g) \in F
        BY <3>1
      <4>2. Earlier(g) = Earlier(f)
        BY <1>3, <1>4, <2>2, <4>1
      <4> QED
        BY <2>2, <4>2
    <3> QED
      BY <3>1
  <2>4. Entity!Rank(g) \in Nat
    BY RankIs
  <2> QED
    BY <2>1, <2>3, <2>4
<1>8. Entity!Rank(f) = Cardinality(Earlier(f)) /\ IsFiniteSet(Earlier(f)) /\ Entity!Rank(f) \in Nat
  BY RankIs
<1>9. Entity!Rank(f) <= n
  <2>1. CASE Earlier(f) = {}
    BY <1>8, <2>1, FS_EmptySet
  <2>2. CASE Earlier(f) # {}
    <3> DEFINE later(g) == {h \in Earlier(f) : h.id > g.id}
               L == {later(g) : g \in Earlier(f)}
    <3>1. L # {} /\ \A A \in L : A \subseteq Earlier(f)
      <4>1. PICK h \in Earlier(f) : TRUE
        BY <2>2
      <4>2. later(h) \in L
        OBVIOUS
      <4>3. \A g : later(g) \subseteq Earlier(f)
        OBVIOUS
      <4> QED
        BY <4>2, <4>3
    <3>2. PICK A \in L : \A C \in L : C \subseteq A => C = A
      <4> HIDE DEF L
      <4> QED
        BY <1>8, <3>1, SmallestOf
    <3>3. PICK g \in Earlier(f) : A = later(g)
      OBVIOUS
    <3>4. \A h \in Earlier(f) : h.id \in Nat /\ h \in stored /\ h.kind = f.kind /\ h.id < f.id
      BY <1>5 DEF Earlier
    <3>5. ASSUME NEW h \in Earlier(f), h.id > g.id PROVE FALSE
      <4>1. later(h) \subseteq later(g)
        BY <3>4, <3>5
      <4>2. h \in later(g) /\ h \notin later(h)
        BY <3>4, <3>5
      <4> QED
        BY <3>2, <3>3, <4>1, <4>2
    <3>6. Earlier(f) \subseteq Earlier(g) \cup {g}
      <4> SUFFICES ASSUME NEW h \in Earlier(f), h \notin Earlier(g) PROVE h = g
        OBVIOUS
      <4>1. h.id = g.id /\ h.kind = g.kind
        BY <3>4, <3>5 DEF Earlier
      <4>2. h \in Entity!Entity /\ g \in Entity!Entity
        BY <3>4
      <4> QED
        BY <4>1, <4>2 DEF Entity!Entity
    <3>7. Entity!Rank(g) = Cardinality(Earlier(g)) /\ IsFiniteSet(Earlier(g)) /\ Entity!Rank(g) \in Nat
      BY RankIs
    <3>8. g \notin Earlier(g)
      BY <3>4 DEF Earlier
    <3>9. IsFiniteSet(Earlier(g) \cup {g}) /\ Cardinality(Earlier(g) \cup {g}) = Entity!Rank(g) + 1
      BY <3>7, <3>8, FS_AddElement
    <3>10. Cardinality(Earlier(f)) <= Entity!Rank(g) + 1
      BY <3>6, <3>9, FS_Subset
    <3>11. Entity!Rank(g) < n
      BY <1>7
    <3> QED
      BY <1>8, <3>7, <3>10, <3>11
  <2> QED
    BY <2>1, <2>2
<1> QED
  BY <1>6, <1>8, <1>9

\* Where the pages begin and end.
LEMMA PagesFollow ==
    ASSUME Entity!EntityAssumption, NEW n \in Nat \ {0}
    PROVE  /\ (n - 1) * EntityPageSize \in Nat /\ n * EntityPageSize \in Nat
           /\ (n - 1) * EntityPageSize < n * EntityPageSize
           /\ ((n + 1) - 1) * EntityPageSize = n * EntityPageSize
           /\ \A m \in Nat : m < n => m * EntityPageSize <= (n - 1) * EntityPageSize
<1>1. EntityPageSize \in Nat \ {0}
  BY DEF Entity!EntityAssumption
<1>2. \A k \in Nat : k * EntityPageSize \in Nat
  BY <1>1
<1>3. n * EntityPageSize = (n - 1) * EntityPageSize + EntityPageSize
  BY <1>1
<1>4. ASSUME NEW m \in Nat, m < n PROVE m * EntityPageSize <= (n - 1) * EntityPageSize
  <2>1. PICK d \in Nat : n - 1 = m + d
    <3>1. (n - 1) - m \in Nat /\ n - 1 = m + ((n - 1) - m)
      BY <1>4
    <3> QED
      BY <3>1
  <2>2. (m + d) * EntityPageSize = m * EntityPageSize + d * EntityPageSize
    BY <1>1
  <2> QED
    BY <1>2, <2>1, <2>2
<1>5. n - 1 \in Nat /\ (n + 1) - 1 = n
  OBVIOUS
<1>6. (n - 1) * EntityPageSize \in Nat /\ n * EntityPageSize \in Nat
  BY <1>2, <1>5
<1> QED
  BY <1>1, <1>3, <1>4, <1>5, <1>6

\* A page has the entities of the kind whose rank falls into it; after the last page
\* of a kind there is none of that kind left.
LEMMA PageCovers ==
    ASSUME Entity!EntityAssumption, stored \subseteq Entity!Entity,
           NEW k \in 1..3, NEW n \in Nat \ {0}
    PROVE  /\ \A e \in Entity!PageOf(k, n) :
                /\ e \in stored /\ Position(e) = k
                /\ (n - 1) * EntityPageSize <= Entity!Rank(e)
                /\ Entity!Rank(e) < n * EntityPageSize
           /\ \A e \in stored :
                Position(e) = k /\ (n - 1) * EntityPageSize <= Entity!Rank(e) =>
                  \/ e \in Entity!PageOf(k, n)
                  \/ n * EntityPageSize <= Entity!Rank(e) /\ ~Entity!LastPage(k, n)
<1>0. \A e \in stored : Entity!Rank(e) \in Nat
  BY RankIs
<1>1. /\ (n - 1) * EntityPageSize \in Nat /\ n * EntityPageSize \in Nat
      /\ (n - 1) * EntityPageSize < n * EntityPageSize
  BY PagesFollow
<1>2. \A e : e \in Entity!OfKind(k) <=> e \in stored /\ Position(e) = k
  BY PositionOfKind DEF Entity!OfKind
<1>3. \A e : e \in Entity!PageOf(k, n) <=>
         /\ e \in stored /\ Position(e) = k
         /\ (n - 1) * EntityPageSize <= Entity!Rank(e)
         /\ Entity!Rank(e) < n * EntityPageSize
  BY <1>2 DEF Entity!PageOf
<1>4. ASSUME NEW e \in stored, Position(e) = k, n * EntityPageSize <= Entity!Rank(e)
      PROVE  ~Entity!LastPage(k, n)
  <2>1. Entity!PageOf(k, n) # {}
    <3>1. (n - 1) * EntityPageSize <= Entity!Rank(e)
      BY <1>0, <1>1, <1>4
    <3>2. PICK f \in stored : f.kind = e.kind /\ Entity!Rank(f) = (n - 1) * EntityPageSize
      BY <1>1, <3>1, RanksContiguous
    <3>3. Position(f) = k
      BY <1>4, <3>2 DEF Position
    <3> QED
      BY <1>1, <1>3, <3>2, <3>3
  <2>2. Entity!Rank(e) + 1 <= Entity!Cardinality(Entity!OfKind(k))
    <3>1. /\ Entity!Rank(e) = Cardinality(Earlier(e)) /\ IsFiniteSet(Earlier(e))
          /\ IsFiniteSet(stored)
      BY RankIs
    <3>2. e \notin Earlier(e)
      <4>1. e.id \in Nat
        BY DEF Entity!Entity, Entity!EntityAssumption
      <4> QED
        BY <4>1 DEF Earlier
    <3>3. IsFiniteSet(Earlier(e) \cup {e})
            /\ Cardinality(Earlier(e) \cup {e}) = Cardinality(Earlier(e)) + 1
      BY <3>1, <3>2, FS_AddElement
    <3>4. Earlier(e) \cup {e} \subseteq Entity!OfKind(k)
      BY <1>2, <1>4 DEF Earlier, Position
    <3>5. IsFiniteSet(Entity!OfKind(k))
      <4>1. Entity!OfKind(k) \in SUBSET stored
        BY <1>2
      <4> QED
        BY <3>1, <4>1, FS_Subset
    <3>6. Cardinality(Earlier(e) \cup {e}) <= Cardinality(Entity!OfKind(k))
      BY <3>4, <3>5, FS_Subset
    <3> QED
      BY <3>1, <3>3, <3>6, SameCardinality
  <2>3. Entity!Cardinality(Entity!OfKind(k)) \in Nat
    <3>1. Entity!OfKind(k) \in SUBSET stored /\ IsFiniteSet(stored)
      BY <1>2, RankIs
    <3> QED
      BY <3>1, FS_Subset, FS_CardinalityType, SameCardinality
  <2> QED
    BY <1>0, <1>1, <1>4, <2>1, <2>2, <2>3 DEF Entity!LastPage
<1> QED
  BY <1>0, <1>1, <1>3, <1>4

EntityTyped ==
    /\ stored \subseteq Entity!Entity /\ before \subseteq Entity!Entity
    /\ entityPc \in {"idle", "listing", "deleting", "listed", "deleted", "failed"}
    /\ page \in Nat \ {0}
    /\ entityPc = "listing" => kind \in 1..3
    /\ entities \subseteq Entity!Entity \X (Nat \ {0})

\* An entity that was there all the time, with none removed that is listed before it.
Undisturbed(e) == e \in before \ removed /\ ~\E f \in removed : Entity!Before(f, e)

Collected(e) == \E row \in entities : row[1] = e

\* What a listing has not collected yet is on the next pages.
ToCome ==
    /\ entityPc \in {"listing", "listed"} => before \ removed \subseteq stored
    /\ \A e \in Entity!Entity : Undisturbed(e) /\ ~Collected(e) =>
         /\ entityPc # "listed"
         /\ entityPc = "listing" =>
              \/ Position(e) > kind
              \/ Position(e) = kind /\ (page - 1) * EntityPageSize <= Entity!Rank(e)

\* No other entity has appeared before it, and it has not been away.
Fresh(e) == ~\E f \in appeared : Entity!Before(f, e) \/ f = e

\* What a listing has collected is on earlier pages, as long as nothing appears.
Passed ==
    /\ \A row \in entities :
         /\ entityPc = "listing" =>
              Position(row[1]) < kind \/ (Position(row[1]) = kind /\ row[2] < page)
         /\ Fresh(row[1]) /\ row[1] \in stored => Entity!Rank(row[1]) < row[2] * EntityPageSize
    /\ Entity!TwiceOnlyIfAppeared

\* A deletion goes through the kinds in order, one entity of each.
InOrder ==
    /\ entityPc = "deleting" =>
         /\ asked \subseteq Entity!Entity /\ gone \subseteq asked /\ gone # asked
         /\ \A e, f \in asked : e.kind = f.kind => e = f
    /\ Entity!DeletedIsPrefix

EntityInv ==
    /\ EntityTyped
    /\ ToCome
    /\ Passed
    /\ InOrder

LEMMA InitEntityInv == ASSUME Entity!EntityAssumption, Entity!Init PROVE EntityInv
<1>1. EntityTyped
  BY DEF Entity!Init, EntityTyped
<1>2. ToCome
  BY DEF Entity!Init, ToCome
<1>3. Passed
  BY DEF Entity!Init, Passed, Entity!TwiceOnlyIfAppeared
<1>4. InOrder
  BY DEF Entity!Init, InOrder, Entity!DeletedIsPrefix
<1> QED
  BY <1>1, <1>2, <1>3, <1>4 DEF EntityInv

LEMMA NextEntityTyped ==
    ASSUME Entity!EntityAssumption, EntityTyped, [Entity!Next]_(Entity!vars)
    PROVE  EntityTyped'
<1> USE DEF EntityTyped
<1>1. CASE Entity!List
  BY <1>1 DEF Entity!List
<1>2. CASE Entity!FetchPage
  <2>1. kind \in 1..3
    BY <1>2 DEF Entity!FetchPage
  <2>2. Entity!PageOf(kind, page) \subseteq Entity!Entity
    BY <2>1, PageCovers
  <2>3. entities' \subseteq Entity!Entity \X (Nat \ {0})
    BY <1>2, <2>2 DEF Entity!FetchPage, Entity!Collected
  <2>4. page' \in Nat \ {0} /\ kind' \in 1..4
    BY <1>2, <2>1 DEF Entity!FetchPage
  <2>5. entityPc' \in {"listing", "listed"} /\ (entityPc' = "listing" => ~(kind' > 3))
    BY <1>2 DEF Entity!FetchPage
  <2>6. stored' = stored /\ before' = before
    BY <1>2 DEF Entity!FetchPage
  <2> QED
    BY <2>3, <2>4, <2>5, <2>6
<1>3. CASE Entity!DeleteNext
  BY <1>3 DEF Entity!DeleteNext
<1>4. CASE Entity!RequestFails
  BY <1>4 DEF Entity!RequestFails
<1>5. ASSUME NEW S \in SUBSET Entity!Entity, Entity!DeleteEntities(S) PROVE EntityTyped'
  BY <1>5 DEF Entity!DeleteEntities
<1>6. ASSUME NEW e \in Entity!Entity, Entity!Appear(e) PROVE EntityTyped'
  BY <1>6 DEF Entity!Appear, Entity!request
<1>7. ASSUME NEW e \in Entity!Entity, Entity!Disappear(e) PROVE EntityTyped'
  BY <1>7 DEF Entity!Disappear, Entity!request
<1>8. CASE UNCHANGED Entity!vars
  BY <1>8 DEF Entity!vars, Entity!request
<1> QED
  BY <1>1, <1>2, <1>3, <1>4, <1>5, <1>6, <1>7, <1>8 DEF Entity!Next

\* Removing an entity lowers ranks, but not that of one that is listed before it.
LEMMA RankAfter ==
    ASSUME Entity!EntityAssumption, stored \subseteq Entity!Entity,
           stored' \subseteq Entity!Entity, NEW e
    PROVE  /\ Entity!Rank(e) \in Nat /\ Entity!Rank(e)' \in Nat
           /\ stored' \subseteq stored => Entity!Rank(e)' <= Entity!Rank(e)
           /\ (\A f \in stored \ stored' : ~Entity!Before(f, e)) =>
                Entity!Rank(e) <= Entity!Rank(e)'
           /\ (\A f \in stored' \ stored : ~Entity!Before(f, e)) =>
                Entity!Rank(e)' <= Entity!Rank(e)
<1>1. /\ Entity!Rank(e) = Cardinality(Earlier(e))
      /\ IsFiniteSet(Earlier(e)) /\ Entity!Rank(e) \in Nat
  BY RankIs
<1> DEFINE after == {f \in stored' : f.kind = e.kind /\ f.id < e.id}
<1>2. Entity!Rank(e)' = Cardinality(after)
  BY SameCardinality DEF Entity!Rank
<1>3. IsFiniteSet(after)
  <2>1. after \in SUBSET Entity!Entity
    OBVIOUS
  <2> QED
    BY <2>1, EntitiesFinite, FS_Subset
<1>4. Cardinality(after) \in Nat
  BY <1>3, FS_CardinalityType
<1>5. (\A f \in stored \ stored' : ~Entity!Before(f, e)) => Earlier(e) \subseteq after
  BY DEF Earlier, Entity!Before
<1>6. (\A f \in stored' \ stored : ~Entity!Before(f, e)) => after \subseteq Earlier(e)
  BY DEF Earlier, Entity!Before
<1> HIDE DEF after
<1>7. Earlier(e) \subseteq after => Cardinality(Earlier(e)) <= Cardinality(after)
  BY <1>3, FS_Subset
<1>8. after \subseteq Earlier(e) => Cardinality(after) <= Cardinality(Earlier(e))
  BY <1>1, FS_Subset
<1> QED
  BY <1>1, <1>2, <1>4, <1>5, <1>6, <1>7, <1>8

LEMMA NextToCome ==
    ASSUME Entity!EntityAssumption, EntityInv, [Entity!Next]_(Entity!vars)
    PROVE  ToCome'
<1>1. EntityTyped /\ ToCome
  BY DEF EntityInv
<1>2. stored \subseteq Entity!Entity /\ stored' \subseteq Entity!Entity
  BY <1>1, NextEntityTyped DEF EntityTyped
<1>3. CASE Entity!List
  <2>1. \A e \in stored : Entity!Rank(e)' \in Nat
    BY <1>2, RankAfter
  <2>2. /\ stored' = stored /\ before' = stored /\ removed' = {} /\ entities' = {}
        /\ entityPc' = "listing" /\ kind' = 1 /\ page' = 1
    BY <1>3 DEF Entity!List
  <2>3. ASSUME NEW e \in Entity!Entity, e \in stored
        PROVE  Position(e) > 1 \/ (Position(e) = 1 /\ (1 - 1) * EntityPageSize <= Entity!Rank(e)')
    <3>1. (1 - 1) * EntityPageSize = 0
      BY DEF Entity!EntityAssumption
    <3> QED
      BY <2>1, <2>3, <3>1, PositionOfKind
  <2> QED
    BY <2>2, <2>3 DEF ToCome, Undisturbed
<1>4. CASE Entity!FetchPage
  <2>1. kind \in 1..3 /\ page \in Nat \ {0}
    BY <1>1, <1>4 DEF EntityTyped, Entity!FetchPage
  <2>2. /\ entityPc = "listing"
        /\ entities' = entities \cup (Entity!PageOf(kind, page) \X {page})
        /\ IF Entity!LastPage(kind, page) THEN kind' = kind + 1 /\ page' = 1
           ELSE page' = page + 1 /\ kind' = kind
        /\ entityPc' = IF kind' > 3 THEN "listed" ELSE "listing"
        /\ UNCHANGED <<stored, before, removed>>
    BY <1>4 DEF Entity!FetchPage, Entity!Collected
  <2>3. before \ removed \subseteq stored
    BY <1>1, <2>2 DEF ToCome
  <2>4. ASSUME NEW e \in Entity!Entity, Undisturbed(e)', ~Collected(e)'
        PROVE  /\ entityPc' # "listed"
               /\ entityPc' = "listing" =>
                    \/ Position(e) > kind'
                    \/ Position(e) = kind' /\ (page' - 1) * EntityPageSize <= Entity!Rank(e)'
    <3>1. Undisturbed(e) /\ e \in stored
      BY <2>2, <2>3, <2>4 DEF Undisturbed, Entity!Before
    <3>2. ~Collected(e)
      BY <2>2, <2>4 DEF Collected
    <3>3. e \notin Entity!PageOf(kind, page)
      <4>1. ASSUME e \in Entity!PageOf(kind, page) PROVE FALSE
        <5>1. <<e, page>> \in entities'
          BY <2>2, <4>1
        <5>2. <<e, page>>[1] = e
          OBVIOUS
        <5> QED
          BY <2>4, <5>1, <5>2 DEF Collected
      <4> QED
        BY <4>1
    <3>4. \/ Position(e) > kind
          \/ Position(e) = kind /\ (page - 1) * EntityPageSize <= Entity!Rank(e)
      BY <1>1, <2>2, <3>1, <3>2 DEF ToCome
    <3>5. \/ Position(e) > kind
          \/ Position(e) = kind /\ page * EntityPageSize <= Entity!Rank(e)
                /\ ~Entity!LastPage(kind, page)
      BY <1>2, <2>1, <3>1, <3>3, <3>4, PageCovers
    <3>6. Entity!Rank(e)' = Entity!Rank(e) /\ Position(e) \in 1..3
      BY <2>2, PositionOfKind DEF Entity!Rank
    <3>7. ((page + 1) - 1) * EntityPageSize = page * EntityPageSize
            /\ (1 - 1) * EntityPageSize = 0 /\ Entity!Rank(e) \in Nat
      BY <1>2, <2>1, PagesFollow, RankIs DEF Entity!EntityAssumption
    <3>8. CASE Entity!LastPage(kind, page)
      BY <2>1, <2>2, <3>5, <3>6, <3>7, <3>8
    <3>9. CASE ~Entity!LastPage(kind, page)
      BY <2>1, <2>2, <3>5, <3>6, <3>7, <3>9
    <3> QED
      BY <3>8, <3>9
  <2> QED
    BY <2>2, <2>3, <2>4 DEF ToCome
<1>5. ASSUME entities' = entities, kind' = kind, page' = page, before' = before,
             removed \subseteq removed',
             entityPc' \in {"listing", "listed"} =>
                /\ entityPc' = entityPc
                /\ stored \ stored' \subseteq removed'
      PROVE  ToCome'
  <2>1. entityPc' \in {"listing", "listed"} => (before \ removed)' \subseteq stored'
    BY <1>1, <1>5 DEF ToCome
  <2>2. ASSUME NEW e \in Entity!Entity, Undisturbed(e)', ~Collected(e)',
               entityPc' \in {"listing", "listed"}
        PROVE  /\ entityPc' # "listed"
               /\ \/ Position(e) > kind'
                  \/ Position(e) = kind' /\ (page' - 1) * EntityPageSize <= Entity!Rank(e)'
    <3>1. Undisturbed(e) /\ ~Collected(e)
      BY <1>5, <2>2 DEF Undisturbed, Collected, Entity!Before
    <3>2. /\ entityPc # "listed"
          /\ entityPc = "listing" =>
              \/ Position(e) > kind
              \/ Position(e) = kind /\ (page - 1) * EntityPageSize <= Entity!Rank(e)
      BY <1>1, <3>1 DEF ToCome
    <3>3. \A f \in stored \ stored' : ~Entity!Before(f, e)
      BY <1>5, <2>2 DEF Undisturbed, Entity!Before
    <3>4. Entity!Rank(e) <= Entity!Rank(e)' /\ Entity!Rank(e) \in Nat /\ Entity!Rank(e)' \in Nat
      BY <1>2, <3>3, RankAfter
    <3>5. (page - 1) * EntityPageSize \in Nat
      BY <1>1, PagesFollow DEF EntityTyped
    <3> QED
      BY <1>5, <2>2, <3>2, <3>4, <3>5
  <2> QED
    BY <2>1, <2>2 DEF ToCome
<1>6. CASE Entity!DeleteNext
  <2>1. entityPc' \notin {"listing", "listed"}
    BY <1>6 DEF Entity!DeleteNext
  <2> QED
    BY <2>1 DEF ToCome
<1>7. CASE Entity!RequestFails
  <2>1. entityPc' \notin {"listing", "listed"}
    BY <1>7 DEF Entity!RequestFails
  <2> QED
    BY <2>1 DEF ToCome
<1>8. ASSUME NEW S \in SUBSET Entity!Entity, Entity!DeleteEntities(S) PROVE ToCome'
  <2>1. entityPc' \notin {"listing", "listed"}
    BY <1>8 DEF Entity!DeleteEntities
  <2> QED
    BY <2>1 DEF ToCome
<1>9. ASSUME NEW e \in Entity!Entity, Entity!Appear(e) PROVE ToCome'
  BY <1>5, <1>9 DEF Entity!Appear, Entity!request
<1>10. ASSUME NEW e \in Entity!Entity, Entity!Disappear(e) PROVE ToCome'
  BY <1>5, <1>10 DEF Entity!Disappear, Entity!request
<1>11. CASE UNCHANGED Entity!vars
  BY <1>5, <1>11 DEF Entity!vars, Entity!request
<1> QED
  BY <1>3, <1>4, <1>6, <1>7, <1>8, <1>9, <1>10, <1>11 DEF Entity!Next

LEMMA NextPassed ==
    ASSUME Entity!EntityAssumption, EntityInv, [Entity!Next]_(Entity!vars)
    PROVE  Passed'
<1>1. EntityTyped /\ Passed
  BY DEF EntityInv
<1>2. stored \subseteq Entity!Entity /\ stored' \subseteq Entity!Entity
  BY <1>1, NextEntityTyped DEF EntityTyped
<1>3. CASE Entity!List
  <2>1. entities' = {}
    BY <1>3 DEF Entity!List
  <2> QED
    BY <2>1 DEF Passed, Entity!TwiceOnlyIfAppeared
<1>4. CASE Entity!FetchPage
  <2> DEFINE got == Entity!PageOf(kind, page)
  <2>1. kind \in 1..3 /\ page \in Nat \ {0}
    BY <1>1, <1>4 DEF EntityTyped, Entity!FetchPage
  <2>2. /\ entityPc = "listing"
        /\ entities' = entities \cup (got \X {page})
        /\ IF Entity!LastPage(kind, page) THEN kind' = kind + 1 /\ page' = 1
           ELSE page' = page + 1 /\ kind' = kind
        /\ UNCHANGED <<stored, appeared>>
    BY <1>4 DEF Entity!FetchPage, Entity!Collected
  <2>3. \A e \in got : /\ e \in stored /\ Position(e) = kind
                       /\ (page - 1) * EntityPageSize <= Entity!Rank(e)
                       /\ Entity!Rank(e) < page * EntityPageSize
    BY <1>2, <2>1, PageCovers
  <2> HIDE DEF got
  <2>4. \A row \in entities :
          /\ row[1] \in Entity!Entity /\ row[2] \in Nat \ {0} /\ Position(row[1]) \in 1..3
          /\ Position(row[1]) < kind \/ (Position(row[1]) = kind /\ row[2] < page)
    <3>1. \A row \in entities : row[1] \in Entity!Entity /\ row[2] \in Nat \ {0}
      BY <1>1 DEF EntityTyped
    <3> QED
      BY <1>1, <2>2, <3>1, PositionOfKind DEF Passed
  <2>5. \A row \in entities' : row \in entities \/ (row[1] \in got /\ row[2] = page)
    BY <2>2
  <2>6. ASSUME NEW row \in entities'
        PROVE  Position(row[1]) < kind' \/ (Position(row[1]) = kind' /\ row[2] < page')
    <3>1. Position(row[1]) < kind \/ (Position(row[1]) = kind /\ row[2] < page + 1)
      BY <2>1, <2>3, <2>4, <2>5
    <3>2. Position(row[1]) \in Int /\ row[2] \in Int
      BY <2>1, <2>3, <2>4, <2>5
    <3> QED
      BY <2>1, <2>2, <3>1, <3>2
  <2>7. ASSUME NEW row \in entities', Fresh(row[1])', row[1] \in stored'
        PROVE  Entity!Rank(row[1])' < row[2] * EntityPageSize
    <3>1. Fresh(row[1]) /\ row[1] \in stored /\ Entity!Rank(row[1])' = Entity!Rank(row[1])
      BY <2>2, <2>7 DEF Fresh, Entity!Before, Entity!Rank
    <3> QED
      BY <1>1, <2>3, <2>5, <3>1 DEF Passed
  <2>8. ASSUME NEW row \in entities', NEW again \in entities',
               row[1] = again[1], row[2] < again[2]
        PROVE  ~Fresh(row[1])'
    <3>1. CASE again \in entities
      <4>1. row \in entities
        <5>1. ASSUME row[1] \in got, row[2] = page PROVE FALSE
          BY <2>1, <2>3, <2>4, <2>8, <3>1, <5>1
        <5> QED
          BY <2>5, <5>1
      <4>2. ~Fresh(row[1])
        BY <1>1, <2>8, <3>1, <4>1 DEF Passed, Entity!TwiceOnlyIfAppeared, Fresh
      <4> QED
        BY <2>2, <4>2 DEF Fresh, Entity!Before
    <3>2. CASE again[1] \in got /\ again[2] = page
      <4>1. row \in entities /\ row[2] \in Nat
        BY <2>1, <2>4, <2>5, <2>8, <3>2
      <4>2. row[1] \in stored /\ (page - 1) * EntityPageSize <= Entity!Rank(row[1])
        BY <2>3, <2>8, <3>2
      <4>3. row[2] * EntityPageSize <= (page - 1) * EntityPageSize
        BY <2>1, <2>8, <3>2, <4>1, PagesFollow
      <4>4. Entity!Rank(row[1]) \in Nat /\ (page - 1) * EntityPageSize \in Nat
              /\ row[2] * EntityPageSize \in Nat
        <5>1. row[2] \in Nat \ {0}
          BY <2>4, <4>1
        <5> QED
          BY <1>2, <2>1, <5>1, PagesFollow, RankIs
      <4>5. ~Fresh(row[1])
        BY <1>1, <4>1, <4>2, <4>3, <4>4 DEF Passed
      <4> QED
        BY <2>2, <4>5 DEF Fresh, Entity!Before
    <3> QED
      BY <2>5, <3>1, <3>2
  <2>9. Entity!TwiceOnlyIfAppeared'
    BY <2>8 DEF Entity!TwiceOnlyIfAppeared, Fresh
  <2> QED
    BY <2>6, <2>7, <2>9 DEF Passed
<1>5. ASSUME entities' = entities, appeared \subseteq appeared',
             entityPc' = "listing" => UNCHANGED <<entityPc, kind, page>>,
             stored' \ stored \subseteq appeared'
      PROVE  Passed'
  <2>1. \A e : Fresh(e)' => Fresh(e)
    BY <1>5 DEF Fresh, Entity!Before
  <2>2. ASSUME NEW row \in entities, entityPc' = "listing"
        PROVE  Position(row[1]) < kind' \/ (Position(row[1]) = kind' /\ row[2] < page')
    BY <1>1, <1>5, <2>2 DEF Passed
  <2>3. ASSUME NEW row \in entities, Fresh(row[1])', row[1] \in stored'
        PROVE  Entity!Rank(row[1])' < row[2] * EntityPageSize
    <3>1. row[1] \in stored /\ \A f \in stored' \ stored : ~Entity!Before(f, row[1])
      BY <1>5, <2>3 DEF Fresh, Entity!Before
    <3>2. Entity!Rank(row[1])' <= Entity!Rank(row[1])
            /\ Entity!Rank(row[1]) \in Nat /\ Entity!Rank(row[1])' \in Nat
      BY <1>2, <3>1, RankAfter
    <3>3. Entity!Rank(row[1]) < row[2] * EntityPageSize
      BY <1>1, <2>1, <2>3, <3>1 DEF Passed
    <3>4. row[2] * EntityPageSize \in Nat
      <4>1. row[2] \in Nat \ {0}
        BY <1>1 DEF EntityTyped
      <4> QED
        BY <4>1, PagesFollow
    <3> QED
      BY <3>2, <3>3, <3>4
  <2>4. Entity!TwiceOnlyIfAppeared'
    BY <1>1, <1>5 DEF Passed, Entity!TwiceOnlyIfAppeared, Entity!Before
  <2> QED
    BY <1>5, <2>2, <2>3, <2>4 DEF Passed
<1>6. CASE Entity!DeleteNext
  <2>1. (entityPc' = "listing" => FALSE) /\ stored' \subseteq stored
    BY <1>6 DEF Entity!DeleteNext
  <2> QED
    BY <1>5, <1>6, <2>1 DEF Entity!DeleteNext
<1>7. CASE Entity!RequestFails
  BY <1>5, <1>7 DEF Entity!RequestFails
<1>8. ASSUME NEW S \in SUBSET Entity!Entity, Entity!DeleteEntities(S) PROVE Passed'
  BY <1>5, <1>8 DEF Entity!DeleteEntities
<1>9. ASSUME NEW e \in Entity!Entity, Entity!Appear(e) PROVE Passed'
  BY <1>5, <1>9 DEF Entity!Appear, Entity!request
<1>10. ASSUME NEW e \in Entity!Entity, Entity!Disappear(e) PROVE Passed'
  BY <1>5, <1>10 DEF Entity!Disappear, Entity!request
<1>11. CASE UNCHANGED Entity!vars
  BY <1>5, <1>11 DEF Entity!vars, Entity!request
<1> QED
  BY <1>3, <1>4, <1>6, <1>7, <1>8, <1>9, <1>10, <1>11 DEF Entity!Next

\* The next entity to delete is of the first kind that is left.
LEMMA DueFirst ==
    ASSUME EntityTyped, InOrder, entityPc = "deleting"
    PROVE  /\ Entity!Due \in asked \ gone
           /\ \A f \in asked \ gone : Position(Entity!Due) <= Position(f)
<1> DEFINE left == asked \ gone
           First(e) == \A f \in left : \E i, j \in Entity!Positions :
                          i <= j /\ Entity!Kinds[i] = e.kind /\ Entity!Kinds[j] = f.kind
<1>1. left # {} /\ left \subseteq Entity!Entity
  BY DEF InOrder
<1>2. \A e \in left : Position(e) \in 1..3
  BY <1>1, PositionOfKind
<1>3. \A e \in left : \A i \in 1..3 : Entity!Kinds[i] = e.kind <=> Position(e) = i
  BY <1>1, PositionOfKind
<1>4. \A e \in left : First(e) <=> \A f \in left : Position(e) <= Position(f)
  BY <1>2, <1>3 DEF Entity!Positions
<1>5. \E e \in left : \A f \in left : Position(e) <= Position(f)
  <2>1. CASE \E e \in left : Position(e) = 1
    BY <1>2, <2>1
  <2>2. CASE ~(\E e \in left : Position(e) = 1) /\ \E e \in left : Position(e) = 2
    BY <1>2, <2>2
  <2>3. CASE ~(\E e \in left : Position(e) = 1) /\ ~\E e \in left : Position(e) = 2
    BY <1>1, <1>2, <2>3
  <2> QED
    BY <2>1, <2>2, <2>3
<1>6. \E e \in left : First(e)
  BY <1>4, <1>5
<1>7. Entity!Due \in left /\ First(Entity!Due)
  <2>1. Entity!Due = CHOOSE e \in left : First(e)
    BY DEF Entity!Due
  <2> HIDE DEF First, left
  <2> QED
    BY <1>6, <2>1
<1> QED
  BY <1>4, <1>7

LEMMA NextInOrder ==
    ASSUME Entity!EntityAssumption, EntityInv, [Entity!Next]_(Entity!vars)
    PROVE  InOrder'
<1>1. EntityTyped /\ InOrder
  BY DEF EntityInv
<1>2. ASSUME asked' = asked, gone' = gone, entityPc' = "deleting" => entityPc = "deleting"
      PROVE  InOrder'
  BY <1>1, <1>2 DEF InOrder, Entity!DeletedIsPrefix
<1>3. CASE Entity!List
  BY <1>2, <1>3 DEF Entity!List
<1>4. CASE Entity!FetchPage
  BY <1>2, <1>4 DEF Entity!FetchPage
<1>5. CASE Entity!RequestFails
  BY <1>2, <1>5 DEF Entity!RequestFails
<1>6. ASSUME NEW S \in SUBSET Entity!Entity, Entity!DeleteEntities(S) PROVE InOrder'
  <2>1. asked' = S /\ gone' = {} /\ S # {} /\ \A e, f \in S : e.kind = f.kind => e = f
    BY <1>6 DEF Entity!DeleteEntities
  <2> QED
    BY <2>1 DEF InOrder, Entity!DeletedIsPrefix
<1>7. CASE Entity!DeleteNext
  <2>1. /\ entityPc = "deleting" /\ gone' = gone \cup {Entity!Due} /\ asked' = asked
        /\ entityPc' = IF gone' = asked THEN "deleted" ELSE entityPc
    BY <1>7 DEF Entity!DeleteNext
  <2>2. /\ Entity!Due \in asked \ gone
        /\ \A f \in asked \ gone : Position(Entity!Due) <= Position(f)
    BY <1>1, <2>1, DueFirst
  <2>3. /\ asked \subseteq Entity!Entity /\ gone \subseteq asked
        /\ \A e, f \in asked : e.kind = f.kind => e = f
    BY <1>1, <2>1 DEF InOrder
  <2>4. ASSUME NEW f \in asked \ gone, f # Entity!Due
        PROVE  \E i, j \in Entity!Positions :
                  i < j /\ Entity!Kinds[i] = Entity!Due.kind /\ Entity!Kinds[j] = f.kind
    <3>1. Entity!Due \in Entity!Entity /\ f \in Entity!Entity
      BY <2>2, <2>3
    <3>2. Position(Entity!Due) # Position(f)
      BY <2>2, <2>3, <2>4, <3>1, PositionOfKind
    <3>3. Position(Entity!Due) \in 1..3 /\ Position(f) \in 1..3
      BY <3>1, PositionOfKind
    <3>4. Position(Entity!Due) < Position(f)
      BY <2>2, <3>2, <3>3
    <3>5. Entity!Kinds[Position(Entity!Due)] = Entity!Due.kind /\ Entity!Kinds[Position(f)] = f.kind
      BY <3>1, <3>3, PositionOfKind
    <3> QED
      BY <3>3, <3>4, <3>5 DEF Entity!Positions
  <2>5. Entity!DeletedIsPrefix'
    BY <1>1, <2>1, <2>4 DEF InOrder, Entity!DeletedIsPrefix
  <2> QED
    BY <2>1, <2>2, <2>3, <2>5 DEF InOrder
<1>8. ASSUME NEW e \in Entity!Entity, Entity!Appear(e) PROVE InOrder'
  BY <1>2, <1>8 DEF Entity!Appear, Entity!request
<1>9. ASSUME NEW e \in Entity!Entity, Entity!Disappear(e) PROVE InOrder'
  BY <1>2, <1>9 DEF Entity!Disappear, Entity!request
<1>10. CASE UNCHANGED Entity!vars
  BY <1>2, <1>10 DEF Entity!vars, Entity!request
<1> QED
  BY <1>3, <1>4, <1>5, <1>6, <1>7, <1>8, <1>9, <1>10 DEF Entity!Next

LEMMA EntityInvTheorem == ASSUME Entity!EntityAssumption PROVE Entity!Spec => []EntityInv
<1>1. Entity!Init => EntityInv
  BY InitEntityInv
<1>2. EntityInv /\ [Entity!Next]_(Entity!vars) => EntityInv'
  BY NextEntityTyped, NextToCome, NextPassed, NextInOrder DEF EntityInv
<1> QED
  BY <1>1, <1>2, PTL DEF Entity!Spec

\* A listing leaves nothing out that was there all the time unless an entity before it
\* disappears, lists nothing twice unless one appears, and a deletion that stops has
\* deleted a prefix.
THEOREM EntitiesRightTheorem ==
    ASSUME Entity!EntityAssumption
    PROVE  Entity!Spec => [](/\ Entity!MissingOnlyIfRemoved /\ Entity!TwiceOnlyIfAppeared
                             /\ Entity!DeletedIsPrefix)
<1>1. ASSUME EntityInv PROVE Entity!MissingOnlyIfRemoved
  <2>1. before \subseteq Entity!Entity
    BY <1>1 DEF EntityInv, EntityTyped
  <2> QED
    BY <1>1, <2>1 DEF EntityInv, ToCome, Undisturbed, Collected, Entity!MissingOnlyIfRemoved
<1>2. EntityInv => Entity!TwiceOnlyIfAppeared /\ Entity!DeletedIsPrefix
  BY DEF EntityInv, Passed, InOrder
<1> QED
  BY <1>1, <1>2, EntityInvTheorem, PTL

-----------------------------------------------------------------------------
\* The components side by side.

\* What these tools do is, for each of the models, a behaviour of that model.
LEMMA ReadsSideBySide == ReadsSpec => Listing!Spec /\ Bulk!Spec /\ Entity!Spec
<1>1. ReadsInit => Listing!Init /\ Bulk!Init /\ Entity!Init
  BY DEF ReadsInit
<1>2. [ReadsNext]_allVars => [Listing!Next]_(Listing!vars)
  BY DEF ReadsNext, ListingStep, BulkStep, EntityStep, allVars, listingVars, Listing!vars,
         Listing!call
<1>3. [ReadsNext]_allVars => [Bulk!Next]_(Bulk!vars)
  BY DEF ReadsNext, ListingStep, BulkStep, EntityStep, allVars, bulkVars, Bulk!vars, Bulk!call
<1>4. [ReadsNext]_allVars => [Entity!Next]_(Entity!vars)
  BY DEF ReadsNext, ListingStep, BulkStep, EntityStep, allVars, entityVars, Entity!vars,
         Entity!request
<1> QED
  BY <1>1, <1>2, <1>3, <1>4, PTL DEF ReadsSpec, Listing!Spec, Bulk!Spec, Entity!Spec

\* Listings and bulk deletions keep their types: no fetch limit is negative
\* (_list_fetch_limit) and no page of a deletion is longer than its limit.
THEOREM ReadsTypedTheorem == ReadsSpec => []Typed
<1>1. ListingInv /\ BulkInv => Typed
  BY DEF ListingInv, BulkInv, Typed
<1> QED
  BY <1>1, ReadsSideBySide, ListingInvTheorem, BulkInvTheorem, ListAssumption, DeleteAssumption,
     PTL

\* An answer that is not marked incomplete is complete, and the cached verdict about
\* the Core's limits is right (get_memories, _backend_honors_list_limit).
THEOREM ReadsListingTheorem == ReadsSpec => []ListingHonest
<1>1. ListingHonest <=> Listing!CompleteIsComplete /\ Listing!CacheRight
  BY DEF ListingHonest
<1> QED
  BY <1>1, ReadsSideBySide, ListingHonestTheorem, ListAssumption, PTL

\* A deletion that succeeds, other than through one direct listing, has left nothing that
\* the store listed for it, and each report says what its call has deleted
\* (delete_all_memories).
THEOREM ReadsDeletionTheorem == ReadsSpec => []DeletionHonest
<1>1. DeletionHonest <=> Bulk!DoneMeansGone /\ Bulk!ReportExact
  BY DEF DeletionHonest
<1> QED
  BY <1>1, ReadsSideBySide, DeletionHonestTheorem, DeleteAssumption, PTL

\* A listing of entities leaves out or repeats one only if others change the list
\* before it, and a failed deletion has deleted a prefix (list_entities,
\* delete_entities).
THEOREM ReadsEntitiesTheorem == ReadsSpec => []EntitiesRight
<1>1. EntitiesRight <=> /\ Entity!MissingOnlyIfRemoved /\ Entity!TwiceOnlyIfAppeared
                        /\ Entity!DeletedIsPrefix
  BY DEF EntitiesRight
<1> QED
  BY <1>1, ReadsSideBySide, EntitiesRightTheorem, EntitiesAssumption, PTL
=============================================================================
