------------------------------- MODULE Entities -------------------------------
(***************************************************************************)
(* list_entities and delete_entities of a bridge with a Sidecar            *)
(* (server.py).  The listing asks for page after page of each entity type  *)
(* and trusts the total of the latest answer; the deletion asks for up to  *)
(* three deletions and answers when all have succeeded.  Entities appear   *)
(* and disappear between the requests.                                     *)
(***************************************************************************)
EXTENDS Integers, FiniteSets

CONSTANTS
    Ids,        \* entity ids, in the order in which the Sidecar lists them
    PageSize,   \* 100
    MaxChanges  \* bound on what others add and remove

\* What the constants have to be.
EntityAssumption ==
    Ids \subseteq Nat /\ IsFiniteSet(Ids) /\ PageSize \in Nat \ {0} /\ MaxChanges \in Nat

Kinds == <<"user", "agent", "run">>
Positions == 1..3
Entity == [kind : {"user", "agent", "run"}, id : Ids]

VARIABLES
    stored,    \* the entities that the Sidecar has
    pc,        \* "idle", "listing", "deleting", "listed", "deleted", "failed"
    kind,      \* position in Kinds
    page,      \* number of the next page
    entities,  \* the rows collected so far: entity and number of its page
    asked,     \* what delete_entities is to delete
    gone,      \* what this call has deleted
    before,    \* the entities stored when the call began
    removed,   \* entities removed by others since
    appeared,  \* entities added by others since
    changes

request == <<pc, kind, page, entities, asked, gone>>
vars == <<stored, request, before, removed, appeared, changes>>

Init ==
    /\ stored \in SUBSET Entity
    /\ pc = "idle" /\ kind = 1 /\ page = 1
    /\ entities = {} /\ asked = {} /\ gone = {}
    /\ before = stored /\ removed = {} /\ appeared = {}
    /\ changes = 0

-----------------------------------------------------------------------------
OfKind(k) == {e \in stored : e.kind = Kinds[k]}

\* How many entities of its kind the Sidecar lists before e.
Rank(e) == Cardinality({f \in stored : f.kind = e.kind /\ f.id < e.id})

\* Page n of one kind, and whether the loop asks for another one.
PageOf(k, n) ==
    {e \in OfKind(k) : (n - 1) * PageSize <= Rank(e) /\ Rank(e) < n * PageSize}

LastPage(k, n) == PageOf(k, n) = {} \/ Cardinality(OfKind(k)) <= n * PageSize

Collected == entities \cup (PageOf(kind, page) \X {page})

List ==
    /\ pc = "idle"
    /\ pc' = "listing" /\ kind' = 1 /\ page' = 1 /\ entities' = {}
    /\ before' = stored /\ removed' = {} /\ appeared' = {}
    /\ UNCHANGED <<stored, asked, gone, changes>>

FetchPage_NoReset ==
    /\ pc = "listing"
    /\ entities' = Collected
    /\ IF LastPage(kind, page)
       THEN kind' = kind + 1 /\ UNCHANGED page
       ELSE page' = page + 1 /\ UNCHANGED kind
    /\ pc' = IF kind' > 3 THEN "listed" ELSE pc
    /\ UNCHANGED <<stored, asked, gone, before, removed, appeared, changes>>

FetchPage ==
    /\ pc = "listing"
    /\ entities' = Collected
    /\ IF LastPage(kind, page)
       THEN kind' = kind + 1 /\ page' = 1
       ELSE page' = page + 1 /\ UNCHANGED kind
    /\ pc' = IF kind' > 3 THEN "listed" ELSE pc
    /\ UNCHANGED <<stored, asked, gone, before, removed, appeared, changes>>

\* delete_entities: at most one entity of each kind, in the order of Kinds.
DeleteEntities(S) ==
    /\ pc = "idle" /\ S # {}
    /\ \A e, f \in S : e.kind = f.kind => e = f
    /\ pc' = "deleting" /\ asked' = S /\ gone' = {}
    /\ UNCHANGED <<stored, kind, page, entities, before, removed, appeared, changes>>

Due == CHOOSE e \in asked \ gone :
          \A f \in asked \ gone : \E i, j \in Positions :
              i <= j /\ Kinds[i] = e.kind /\ Kinds[j] = f.kind

DeleteNext ==
    /\ pc = "deleting"
    /\ stored' = stored \ {Due}
    /\ gone' = gone \cup {Due}
    /\ pc' = IF gone' = asked THEN "deleted" ELSE pc
    /\ UNCHANGED <<kind, page, entities, asked, before, removed, appeared, changes>>

\* Any request may fail; the call then reports nothing of what it has done.
RequestFails ==
    /\ pc \in {"listing", "deleting"}
    /\ pc' = "failed"
    /\ UNCHANGED <<stored, kind, page, entities, asked, gone, before, removed, appeared, changes>>

-----------------------------------------------------------------------------
Appear(e) ==
    /\ changes < MaxChanges /\ changes' = changes + 1
    /\ e \notin stored
    /\ stored' = stored \cup {e} /\ appeared' = appeared \cup {e}
    /\ UNCHANGED <<request, before, removed>>

Disappear(e) ==
    /\ changes < MaxChanges /\ changes' = changes + 1
    /\ e \in stored
    /\ stored' = stored \ {e} /\ removed' = removed \cup {e}
    /\ UNCHANGED <<request, before, appeared>>

Next ==
    \/ List \/ FetchPage \/ DeleteNext \/ RequestFails
    \/ \E S \in SUBSET Entity : DeleteEntities(S)
    \/ \E e \in Entity : Appear(e) \/ Disappear(e)

Spec == Init /\ [][Next]_vars

-----------------------------------------------------------------------------
Before(e, f) == e.kind = f.kind /\ e.id < f.id

\* An entity that was there all the time is missing from a listing only if one
\* that the Sidecar lists before it was removed meanwhile (list_entities).
MissingOnlyIfRemoved ==
    pc = "listed" =>
        \A e \in before \ removed :
            (\E row \in entities : row[1] = e) \/ \E f \in removed : Before(f, e)

\* An entity is listed twice only if another one appeared before it meanwhile.
TwiceOnlyIfAppeared ==
    \A row, again \in entities :
        row[1] = again[1] /\ row[2] < again[2] =>
            \E f \in appeared : Before(f, row[1]) \/ f = row[1]

\* What a failed or unfinished deletion has deleted comes before what it has not
\* (the order user, agent, run): a caller knows where it stopped.
DeletedIsPrefix ==
    \A e \in gone, f \in asked \ gone :
        \E i, j \in Positions : i < j /\ Kinds[i] = e.kind /\ Kinds[j] = f.kind
===============================================================================
