---------------------------- MODULE DirectListing ----------------------------
(***************************************************************************)
(* get_memories without a Sidecar (server.py).  The bridge asks the Core   *)
(* for one window of rows, filters them itself, and says whether the       *)
(* listing is complete.  It cannot trust the Core: some versions reject a  *)
(* large top_k, some cap it silently, some ignore it.  Whether top_k is    *)
(* honoured is probed once, by a second request, and cached for the        *)
(* process.  Other clients add and delete rows between the requests.       *)
(***************************************************************************)
EXTENDS Integers, FiniteSetsExt

CONSTANTS
    Callers,        \* threads in get_memories
    MaxRows,        \* bound on the rows ever added for the user
    Matching,       \* the rows that pass the bridge's own filters
    ListLimits,     \* values of MEM0_OSS_LIST_FETCH_LIMIT
    BackendLimits,  \* values of MEM0_OSS_BACKEND_LIST_FETCH_LIMIT
    RetryLimit,     \* MEM0_OSS_BACKEND_LIST_RETRY_LIMIT
    Window,         \* the top_k that a Core caps or rejects beyond
    Default,        \* how many rows a Core returns that ignores top_k
    MaxFailures     \* bound on failing requests

Rows == 1..MaxRows
Kinds == {"honors", "rejects", "caps", "ignores"}

\* What the constants have to be.
ListingAssumption ==
    /\ MaxRows \in Nat /\ Window \in Nat /\ Default \in Nat /\ Matching \subseteq Rows
    /\ ListLimits \subseteq Int /\ BackendLimits \subseteq Int /\ RetryLimit \in Int
    /\ MaxFailures \in Nat

VARIABLES
    core,       \* what the Core is like, and the limits configured
    rows,       \* the rows that the Core holds for the user
    added,      \* how many rows there have been
    honored,    \* _LIST_LIMIT_SUPPORT: "unknown", "yes", "no"
    pc,         \* caller -> where its call is
    limit,      \* caller -> fetch_limit
    items,      \* caller -> rows received
    lasting,    \* caller -> matching rows that were there all the time of its call
    answer,     \* caller -> what get_memories returned
    undermined, \* a row was deleted while a probe was under way
    failures

call == <<pc, limit, items, answer>>
vars == <<core, rows, added, honored, call, lasting, undermined, failures>>

Pending == [listed |-> {}, complete |-> FALSE]

Init ==
    /\ core \in [kind : Kinds, list : ListLimits, backend : BackendLimits]
    /\ added \in 0..MaxRows
    /\ rows = 1..added
    /\ honored = "unknown"
    /\ pc = [c \in Callers |-> "idle"]
    /\ limit = [c \in Callers |-> 0]
    /\ items = [c \in Callers |-> {}]
    /\ lasting = [c \in Callers |-> {}]
    /\ answer = [c \in Callers |-> Pending]
    /\ undermined = FALSE
    /\ failures = 0

-----------------------------------------------------------------------------
\* The Core: newest rows first; a window of 0 stands for a missing top_k.
Newest(n) == {r \in rows : Cardinality({s \in rows : s > r}) < n}

Rejects(topk) == core.kind = "rejects" /\ topk > Window

Returned(topk) ==
    IF core.kind = "ignores" THEN Newest(Default)
    ELSE IF core.kind = "caps" THEN Newest(IF topk > 0 THEN Min({topk, Window}) ELSE Window)
    ELSE IF topk > 0 THEN Newest(topk)
    ELSE rows

Fail == failures < MaxFailures /\ failures' = failures + 1

-----------------------------------------------------------------------------
FetchLimit_Unchecked ==
    IF core.backend > 0 THEN Min({core.list, core.backend}) ELSE core.list

\* _list_fetch_limit: no window at all if the configured one is not positive.
FetchLimit ==
    IF core.list <= 0 THEN 0
    ELSE IF core.backend > 0 THEN Min({core.list, core.backend})
    ELSE core.list

Call(c) ==
    /\ pc[c] \in {"idle", "answered", "failed"}
    /\ pc' = [pc EXCEPT ![c] = "fetch"]
    /\ limit' = [limit EXCEPT ![c] = FetchLimit]
    /\ items' = [items EXCEPT ![c] = {}]
    /\ answer' = [answer EXCEPT ![c] = Pending]
    /\ lasting' = [lasting EXCEPT ![c] = rows \cap Matching]
    /\ UNCHANGED <<core, rows, added, honored, undermined, failures>>

\* A rejected window is asked for again with the smaller limit, once.
Reject(c) ==
    /\ pc[c] \in {"fetch", "refetch"}
    /\ Rejects(limit[c])
    /\ IF pc[c] = "fetch" /\ limit[c] > RetryLimit /\ RetryLimit > 0
       THEN limit' = [limit EXCEPT ![c] = RetryLimit] /\ pc' = [pc EXCEPT ![c] = "refetch"]
       ELSE pc' = [pc EXCEPT ![c] = "failed"] /\ UNCHANGED limit
    /\ UNCHANGED <<core, rows, added, honored, items, lasting, answer, undermined, failures>>

\* A listing that is neither full nor trivial must be verified.
Doubtful(topk, got) == topk > 0 /\ Cardinality(got) \in 2..(topk - 1)

\* The rows arrive; a cached answer about the Core is used, else it is probed.
Fetch(c) ==
    LET got == Returned(limit[c]) IN
    /\ pc[c] \in {"fetch", "refetch"}
    /\ ~Rejects(limit[c])
    /\ items' = [items EXCEPT ![c] = got]
    /\ pc' = [pc EXCEPT ![c] =
          IF ~Doubtful(limit[c], got) \/ honored = "yes" THEN "verified"
          ELSE IF honored = "no" THEN "unverified"
          ELSE "probe"]
    /\ UNCHANGED <<core, rows, added, honored, limit, lasting, answer, undermined, failures>>

FetchFails(c) ==
    /\ pc[c] \in {"fetch", "refetch"}
    /\ Fail
    /\ pc' = [pc EXCEPT ![c] = "failed"]
    /\ UNCHANGED <<core, rows, added, honored, limit, items, lasting, answer, undermined>>

\* What the answer to top_k = 1 shows.
Probed(got) == Cardinality(got) <= 1

\* _backend_honors_list_limit
Probe(c) ==
    LET honors == Probed(Returned(1)) IN
    /\ pc[c] = "probe"
    /\ honored' = IF honors THEN "yes" ELSE "no"
    /\ pc' = [pc EXCEPT ![c] = IF honors THEN "verified" ELSE "unverified"]
    /\ UNCHANGED <<core, rows, added, limit, items, lasting, answer, undermined, failures>>

\* A probe that fails decides this call and is not cached.
ProbeFails(c) ==
    /\ pc[c] = "probe"
    /\ Fail
    /\ pc' = [pc EXCEPT ![c] = "unverified"]
    /\ UNCHANGED <<core, rows, added, honored, limit, items, lasting, answer, undermined>>

\* The number of rows is the legacy cap, although more were asked for.
Suspected(c) ==
    limit[c] > RetryLimit /\ RetryLimit > 0 /\ Cardinality(items[c]) = RetryLimit

Truncated_NoCapCheck(c) ==
    limit[c] > 0 /\ (Cardinality(items[c]) >= limit[c] \/ pc[c] = "unverified")

Truncated(c) ==
    limit[c] > 0 /\ (Cardinality(items[c]) >= limit[c] \/ pc[c] = "unverified" \/ Suspected(c))

Answer(c) ==
    /\ pc[c] \in {"verified", "unverified"}
    /\ answer' = [answer EXCEPT ![c] =
          [listed |-> items[c] \cap Matching, complete |-> ~Truncated(c)]]
    /\ pc' = [pc EXCEPT ![c] = "answered"]
    /\ UNCHANGED <<core, rows, added, honored, limit, items, lasting, undermined, failures>>

-----------------------------------------------------------------------------
\* Other clients of the Core.
Add ==
    /\ added < MaxRows
    /\ added' = added + 1
    /\ rows' = rows \cup {added + 1}
    /\ UNCHANGED <<core, honored, call, lasting, undermined, failures>>

Delete(r) ==
    /\ r \in rows
    /\ rows' = rows \ {r}
    /\ lasting' = [c \in Callers |-> lasting[c] \ {r}]
    /\ undermined' = (undermined \/ \E c \in Callers : pc[c] = "probe")
    /\ UNCHANGED <<core, added, honored, call, failures>>

Next ==
    \/ \E c \in Callers :
          \/ Call(c) \/ Reject(c) \/ Fetch(c) \/ FetchFails(c)
          \/ Probe(c) \/ ProbeFails(c) \/ Answer(c)
    \/ Add
    \/ \E r \in Rows : Delete(r)

Spec == Init /\ [][Next]_vars

-----------------------------------------------------------------------------
\* Limits, rows and answers have their types; a window is never negative.
TypeOK ==
    /\ core \in [kind : Kinds, list : ListLimits, backend : BackendLimits]
    /\ added \in 0..MaxRows /\ rows \subseteq 1..added
    /\ honored \in {"unknown", "yes", "no"}
    /\ pc \in [Callers -> {"idle", "fetch", "refetch", "probe", "verified", "unverified",
                            "answered", "failed"}]
    /\ limit \in [Callers -> Nat]
    /\ items \in [Callers -> SUBSET Rows] /\ lasting \in [Callers -> SUBSET Rows]
    /\ answer \in [Callers -> [listed : SUBSET Rows, complete : BOOLEAN]]
    /\ undermined \in BOOLEAN
    /\ failures \in 0..MaxFailures

Answered(c) == pc[c] = "answered"

\* A Core whose rows can be told to be all: one that caps silently does so at the
\* legacy cap that the bridge knows (MEM0_OSS_BACKEND_LIST_RETRY_LIMIT), and one that
\* ignores top_k returns more than the single row that is never doubted.
Telling ==
    /\ core.kind = "caps" => Window = RetryLimit /\ RetryLimit > 0
    /\ core.kind = "ignores" => Default > 1 /\ ~undermined

\* A listing called complete has every matching row that was there all the time
\* of the call, whatever the Core does with top_k (get_memories, truncated and
\* complete).  The exceptions are a probe undermined by a deletion, a silent cap that
\* is not the configured one, and a Core that returns one row whatever it is asked.
CompleteIsComplete ==
    \A c \in Callers :
        Answered(c) /\ answer[c].complete /\ limit[c] > 0 /\ Telling
        => lasting[c] \subseteq answer[c].listed

\* The answer about the Core that is cached for the life of the process is right
\* unless the probe was undermined (_LIST_LIMIT_SUPPORT).
CacheRight ==
    honored # "unknown" /\ ~undermined => (honored = "yes") = (core.kind # "ignores")
=============================================================================
