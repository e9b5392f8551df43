------------------------------ MODULE BulkDelete ------------------------------
(***************************************************************************)
(* delete_all_memories and the single-memory operations it uses            *)
(* (server.py).  With a Sidecar the bridge asks for the first page of the  *)
(* scope again and again and deletes what the page shows, until a page     *)
(* shows nothing; without one it deletes the first page of one bounded     *)
(* listing, or leaves a scope without app_id to the Core.  Other callers   *)
(* add and delete in between.                                              *)
(***************************************************************************)
EXTENDS Integers, Sequences, FiniteSetsExt, Functions

CONSTANTS
    Callers,      \* calls of delete_all_memories
    MaxRows,      \* bound on the rows that the store ever returns for the scope
    Shown,        \* those that pass _matches as well; a row whose metadata.app_id
                  \* differs from its app_id does not
    PageSize,     \* 100 with a Sidecar, 1000 without
    FetchWindow,  \* the rows that a direct listing fetches
    Paths,        \* "sidecar", "listing" (direct, app_id given), "scope" (direct)
    MaxFailures   \* bound on failing requests

Rows == 1..MaxRows

\* What the constants have to be.
BulkAssumption ==
    /\ MaxRows \in Nat /\ PageSize \in Nat \ {0} /\ FetchWindow \in Nat
    /\ Shown \subseteq Rows
    /\ Paths \subseteq {"sidecar", "listing", "scope"}
    /\ MaxFailures \in Nat

VARIABLES
    path,      \* how this bridge deletes
    rows,      \* rows that the store returns
    fading,    \* rows deleted, but still listed for a while
    added,     \* how many rows there have been
    pc,        \* caller -> "idle", "list", "delete", "done", "stuck", "failed"
    page,      \* caller -> memory_ids still to delete of this page, newest first
    deleted,   \* caller -> deleted_ids, in order; seen is its range
    initial,   \* caller -> rows of the scope when it was called
    failures

call == <<pc, page, deleted, initial>>
vars == <<path, rows, fading, added, call, failures>>

Init ==
    /\ path \in Paths
    /\ added \in 0..MaxRows
    /\ rows = 1..added
    /\ fading = {}
    /\ pc = [c \in Callers |-> "idle"]
    /\ page = [c \in Callers |-> {}]
    /\ deleted = [c \in Callers |-> <<>>]
    /\ initial = [c \in Callers |-> {}]
    /\ failures = 0

Fail == failures < MaxFailures /\ failures' = failures + 1

-----------------------------------------------------------------------------
\* The first n rows of S, newest first.
Newest(n, S) == {r \in S : Cardinality({q \in S : q > r}) < n}

\* get_memories: the Sidecar pages before _matches, the direct listing after.
FirstPage ==
    IF path = "sidecar" THEN Newest(PageSize, rows) \cap Shown
    ELSE Newest(PageSize, Newest(FetchWindow, rows) \cap Shown)

Start(c) ==
    /\ pc[c] = "idle"
    /\ pc' = [pc EXCEPT ![c] = IF path = "scope" THEN "delete" ELSE "list"]
    /\ initial' = [initial EXCEPT ![c] = rows \cap Shown]
    /\ UNCHANGED <<path, rows, fading, added, page, deleted, failures>>

\* The page repeats an id that this call has deleted: no progress.
Repeated(c) == FirstPage \cap Range(deleted[c]) # {}

List(c) ==
    /\ pc[c] = "list"
    /\ page' = [page EXCEPT ![c] = FirstPage]
    /\ pc' = [pc EXCEPT ![c] =
          IF FirstPage = {} THEN "done"
          ELSE IF Repeated(c) THEN "stuck"
          ELSE "delete"]
    /\ UNCHANGED <<path, rows, fading, added, deleted, initial, failures>>

AfterPage_Single == "done"

\* What a caller does after the last id of a page.
AfterPage == IF path = "sidecar" THEN "list" ELSE "done"

Id(c) == Max(page[c])

\* seen.add, deleted.append, and on to the next id.
Report(c) ==
    /\ deleted' = [deleted EXCEPT ![c] = Append(@, Id(c))]
    /\ page' = [page EXCEPT ![c] = @ \ {Id(c)}]
    /\ pc' = [pc EXCEPT ![c] = IF page[c] = {Id(c)} THEN AfterPage ELSE "delete"]

\* delete_memory of the next id: the row disappears now or later.
Delete(c) ==
    /\ pc[c] = "delete" /\ page[c] # {}
    /\ Id(c) \in rows
    /\ \/ rows' = rows \ {Id(c)} /\ fading' = fading \ {Id(c)}
       \/ path = "sidecar" /\ fading' = fading \cup {Id(c)} /\ UNCHANGED rows
    /\ Report(c)
    /\ UNCHANGED <<path, added, initial, failures>>

DeleteMissing_Retried(c) ==
    /\ pc[c] = "delete" /\ page[c] # {}
    /\ Id(c) \notin rows
    /\ UNCHANGED vars

\* Someone else was faster.  A store that answers 404 fails the whole call.
DeleteMissing(c) ==
    /\ pc[c] = "delete" /\ page[c] # {}
    /\ Id(c) \notin rows
    /\ \/ pc' = [pc EXCEPT ![c] = "failed"] /\ UNCHANGED <<page, deleted>>
       \/ Report(c)
    /\ UNCHANGED <<path, rows, fading, added, initial, failures>>

\* The Core deletes a scope without app_id itself.
DeleteScope(c) ==
    /\ path = "scope" /\ pc[c] = "delete"
    /\ rows' = {}
    /\ pc' = [pc EXCEPT ![c] = "done"]
    /\ UNCHANGED <<path, fading, added, page, deleted, initial, failures>>

\* A request fails before or after the store has acted.
RequestFails(c) ==
    /\ pc[c] \in {"list", "delete"}
    /\ Fail
    /\ \/ UNCHANGED rows
       \/ pc[c] = "delete" /\ page[c] # {} /\ rows' = rows \ {Id(c)}
    /\ fading' = fading \cap rows'
    /\ pc' = [pc EXCEPT ![c] = "failed"]
    /\ UNCHANGED <<path, added, page, deleted, initial>>

-----------------------------------------------------------------------------
\* Other callers, and the store finishing a deletion.
Add ==
    /\ added < MaxRows
    /\ added' = added + 1
    /\ rows' = rows \cup {added + 1}
    /\ UNCHANGED <<path, fading, call, failures>>

OtherDelete(r) ==
    /\ r \in rows
    /\ rows' = rows \ {r}
    /\ fading' = fading \ {r}
    /\ UNCHANGED <<path, added, call, failures>>

Step(c) == List(c) \/ Delete(c) \/ DeleteMissing(c) \/ DeleteScope(c)

Next ==
    \/ \E c \in Callers : Start(c) \/ Step(c) \/ RequestFails(c)
    \/ Add
    \/ \E r \in Rows : OtherDelete(r)

Spec == Init /\ [][Next]_vars

\* The thread of the request runs until its handler returns.
Fairness == \A c \in Callers : WF_vars(Step(c))
FairSpec == Spec /\ Fairness

-----------------------------------------------------------------------------
\* Positions, pages and reports have their types; a page is never larger than
\* the page size.
TypeOK ==
    /\ path \in Paths
    /\ added \in 0..MaxRows /\ rows \subseteq 1..added /\ fading \subseteq rows
    /\ pc \in [Callers -> {"idle", "list", "delete", "done", "stuck", "failed"}]
    /\ page \in [Callers -> SUBSET Shown]
    /\ \A c \in Callers : Cardinality(page[c]) <= PageSize
    /\ deleted \in [Callers -> Seq(Shown)]
    /\ initial \in [Callers -> SUBSET Shown]
    /\ failures \in 0..MaxFailures

\* A call that succeeds with a Sidecar, or leaves the scope to the Core, has left
\* nothing of what was there when it was called, whoever adds and deletes
\* meanwhile and however many pages it takes.  (Rows that _matches drops can hide
\* others only if they fill a whole page.)
DoneMeansGone ==
    Cardinality(Rows \ Shown) < PageSize =>
        \A c \in Callers :
            pc[c] = "done" /\ path # "listing" => initial[c] \cap rows = {}

\* No id is reported twice, and none that the store still returns, except for a
\* deletion that it has acknowledged and not carried out yet (deleted_ids).
ReportExact ==
    \A c \in Callers :
        /\ IsInjective(deleted[c])
        /\ Range(deleted[c]) \cap rows \subseteq fading

\* A call gives up with 409 only if the store still returns a row whose deletion
\* it acknowledged to this call: never because of what other callers do.
StuckOnlyByStore ==
    [][\A c \in Callers :
          pc[c] # "stuck" /\ pc'[c] = "stuck" => Range(deleted[c]) \cap fading # {}]_vars

\* Every call ends: with a store that never carries out a deletion, too.
Ends == \A c \in Callers : pc[c] \in {"list", "delete"} ~> pc[c] \in {"done", "stuck", "failed"}
===============================================================================
