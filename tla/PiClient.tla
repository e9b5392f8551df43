------------------------------- MODULE PiClient -------------------------------
(***************************************************************************)
(* Operations of the Pi plugin on memories that others change meanwhile:   *)
(* update, delete and the narrowed deleteAll of mem0_oss_pi_client.ts over *)
(* the transport of mem0_oss_pi_transport.ts, which gives up after a       *)
(* timeout or an abort and never repeats a write.  A memory is the app of  *)
(* its metadata.  deleteAll without filters is one call of the tool that   *)
(* BulkDelete models.                                                      *)
(***************************************************************************)
EXTENDS Integers, Sequences, FiniteSetsExt

CONSTANTS
    Callers,      \* each calls one operation
    MaxMemories,
    PageSize,     \* pageSize of iterateAllPages
    AppIds,
    CallsOf,      \* caller -> the operations it may call
    MaxFaults     \* bound: timeouts, aborts and scans that start over

Ids == 1..MaxMemories
End == 0
Top == MaxMemories + 1

\* A scope is a user's ("any") or narrowed to an app.  An update gives no metadata
\* ("none"), metadata without an app ("any"), or an app.
Scopes == AppIds \cup {"any"}
Calls ==
    [kind : {"update"}, scope : Scopes, id : Ids, app : AppIds \cup {"none", "any"}]
    \cup [kind : {"delete"}, scope : Scopes, id : Ids, app : {"none"}]
    \cup [kind : {"all"}, scope : Scopes, id : {End}, app : {"none"}]

\* What the constants have to be.
PiAssumption ==
    /\ MaxMemories \in Nat /\ PageSize \in Nat \ {0} /\ MaxFaults \in Nat
    /\ {"gone", "any", "none"} \cap AppIds = {}
    /\ CallsOf \in [Callers -> SUBSET Calls]

VARIABLES
    memory,     \* id -> app, or "gone"
    stored,     \* how many ids have been given
    call,
    pc,         \* "idle", "listing", "checking", "mutating", "done", "stopped"
    cursor,     \* caller -> where the next page starts, or End
    seen,       \* caller -> seenCursors
    previous,   \* caller -> previousIds
    page,       \* caller -> memories of this page still to delete
    sent,       \* writes on their way to the bridge
    reply,      \* caller -> "none", "ok", "error"
    confirmed,  \* caller -> deleted, of deleteAll; an update or delete that returns is one
    executed,   \* writes the Core has made, in order
    touched,    \* caller -> ids that were in its scope at some time of the call
    lasting,    \* caller -> ids that were in its scope all the time
    faults

traversal == <<cursor, seen, previous, page>>
vars == <<memory, stored, call, pc, traversal, sent, reply, confirmed, executed, touched,
          lasting, faults>>

InScope(id, scope, memories) ==
    /\ id \in DOMAIN memories /\ memories[id] # "gone"
    /\ scope = "any" \/ memories[id] = scope
Scoped(scope, memories) == {id \in Ids : InScope(id, scope, memories)}

Running(c) == pc[c] \in {"listing", "checking", "mutating"}

Init ==
    /\ stored \in Ids
    /\ memory \in [Ids -> AppIds \cup {"gone"}]
    /\ \A id \in Ids : memory[id] = "gone" <=> id > stored
    /\ call = [c \in Callers |-> [kind |-> "all", scope |-> "any", id |-> End, app |-> "none"]]
    /\ pc = [c \in Callers |-> "idle"]
    /\ cursor = [c \in Callers |-> Top]
    /\ seen = [c \in Callers |-> {}] /\ previous = [c \in Callers |-> {}]
    /\ page = [c \in Callers |-> {}]
    /\ sent = {} /\ executed = <<>> /\ faults = 0
    /\ reply = [c \in Callers |-> "none"] /\ confirmed = [c \in Callers |-> 0]
    /\ touched = [c \in Callers |-> {}] /\ lasting = [c \in Callers |-> {}]

-----------------------------------------------------------------------------
Start(c, op) ==
    /\ pc[c] = "idle"
    /\ op.id <= stored
    /\ call' = [call EXCEPT ![c] = op]
    /\ pc' = [pc EXCEPT ![c] = IF op.kind = "all" THEN "listing" ELSE "checking"]
    /\ touched' = [touched EXCEPT ![c] = Scoped(op.scope, memory)]
    /\ lasting' = [lasting EXCEPT ![c] = Scoped(op.scope, memory)]
    /\ UNCHANGED <<memory, stored, traversal, sent, reply, confirmed, executed, faults>>

\* POST /v1/memories/scan: newest first from a cursor; next_cursor if there is more.
Scan(scope, from) ==
    LET left == {id \in Scoped(scope, memory) : id < from}
        listed == {id \in left : Cardinality({newer \in left : newer > id}) < PageSize} IN
    [ids |-> listed,
     next |-> IF Cardinality(left) > PageSize THEN Min(listed) ELSE End]

\* iterateAllPages: the page's memories are deleted before the next one is read.  A
\* scan that starts over is caught by a repeated memory or cursor, at the latest.
List(c) ==
    /\ pc[c] = "listing"
    /\ \E from \in {cursor[c], Top} :
          LET got == Scan(call[c].scope, from) IN
          /\ from # cursor[c] => faults < MaxFaults
          /\ faults' = IF from # cursor[c] THEN faults + 1 ELSE faults
          /\ IF got.ids \cap previous[c] # {} \/ got.next \in seen[c]
             THEN pc' = [pc EXCEPT ![c] = "stopped"] /\ UNCHANGED traversal
             ELSE /\ cursor' = [cursor EXCEPT ![c] = got.next]
                  /\ seen' = [seen EXCEPT ![c] = @ \cup ({got.next} \ {End})]
                  /\ previous' = [previous EXCEPT ![c] = got.ids]
                  /\ page' = [page EXCEPT ![c] = got.ids]
                  /\ pc' = [pc EXCEPT ![c] = IF got.ids = {} THEN "done" ELSE "checking"]
    /\ UNCHANGED <<memory, stored, call, sent, reply, confirmed, executed, touched, lasting>>

\* A page is worked off in its order, newest first.
Target(c) == IF call[c].kind = "all" THEN Max(page[c]) ELSE call[c].id

Checked_AnyScope(c) == memory[Target(c)] # "gone"

\* requireScopedMemory
Checked(c) == InScope(Target(c), call[c].scope, memory)

\* "Metadata cannot change the selected scope"
Moves(c) == call[c].app \in AppIds /\ call[c].scope \notin {"any", call[c].app}

\* The memory is read and, if it is in scope, the write sent: metadata that is given
\* is laid over the metadata read.
Check(c) ==
    /\ pc[c] = "checking"
    /\ IF Checked(c) /\ ~Moves(c)
       THEN /\ sent' = sent \cup
                {[caller |-> c, id |-> Target(c), delete |-> call[c].kind # "update",
                  app |-> IF call[c].app = "any" THEN memory[Target(c)] ELSE call[c].app]}
            /\ pc' = [pc EXCEPT ![c] = "mutating"]
       ELSE pc' = [pc EXCEPT ![c] = "stopped"] /\ UNCHANGED sent
    /\ UNCHANGED <<memory, stored, call, traversal, reply, confirmed, executed, touched,
                   lasting, faults>>

\* The memories have changed: who had what in scope.
Watch ==
    /\ touched' = [c \in Callers |->
                     touched[c] \cup IF Running(c) THEN Scoped(call[c].scope, memory') ELSE {}]
    /\ lasting' = [c \in Callers |-> lasting[c] \cap Scoped(call[c].scope, memory')]

\* delete_memory or update_memory reaches the Core, also after the caller gave up.
Execute(w) ==
    /\ sent' = sent \ {w}
    /\ IF memory[w.id] = "gone"
       THEN /\ reply' = [reply EXCEPT ![w.caller] = "error"]
            /\ UNCHANGED <<memory, executed>>
       ELSE /\ reply' = [reply EXCEPT ![w.caller] = "ok"]
            /\ executed' = Append(executed, [caller |-> w.caller, id |-> w.id])
            /\ memory' = [memory EXCEPT ![w.id] =
                            IF w.delete THEN "gone" ELSE IF w.app = "none" THEN @ ELSE w.app]
    /\ Watch
    /\ UNCHANGED <<stored, call, pc, traversal, confirmed, faults>>

\* The answer arrives; deleteAll goes on with the next memory or page.
Answered(c) ==
    /\ pc[c] = "mutating" /\ reply[c] # "none"
    /\ reply' = [reply EXCEPT ![c] = "none"]
    /\ IF reply[c] = "error"
       THEN pc' = [pc EXCEPT ![c] = "stopped"] /\ UNCHANGED <<page, confirmed>>
       ELSE /\ confirmed' = [confirmed EXCEPT ![c] = @ + 1]
            /\ page' = [page EXCEPT ![c] = @ \ {Target(c)}]
            /\ pc' = [pc EXCEPT ![c] =
                        IF page'[c] # {} THEN "checking"
                        ELSE IF call[c].kind = "all" /\ cursor[c] # End THEN "listing" ELSE "done"]
    /\ UNCHANGED <<memory, stored, call, cursor, seen, previous, sent, executed, touched,
                   lasting, faults>>

GiveUp_Replayed(c) ==
    /\ Running(c) /\ faults < MaxFaults
    /\ faults' = faults + 1
    /\ IF pc[c] = "mutating"
       THEN /\ sent' = sent \cup {[caller |-> c, id |-> Target(c), app |-> "none",
                                   delete |-> call[c].kind # "update"]}
            /\ reply' = [reply EXCEPT ![c] = "none"]
            /\ UNCHANGED pc
       ELSE pc' = [pc EXCEPT ![c] = "stopped"] /\ UNCHANGED <<sent, reply>>
    /\ UNCHANGED <<memory, stored, call, traversal, confirmed, executed, touched, lasting>>

\* A timeout, an abort or a failed request: the operation stops, what it has sent
\* may still be carried out.
GiveUp(c) ==
    /\ Running(c) /\ faults < MaxFaults
    /\ faults' = faults + 1
    /\ pc' = [pc EXCEPT ![c] = "stopped"]
    /\ UNCHANGED <<memory, stored, call, traversal, sent, reply, confirmed, executed, touched,
                   lasting>>

\* Another client adds a memory.
Add(app) ==
    /\ stored < MaxMemories
    /\ stored' = stored + 1
    /\ memory' = [memory EXCEPT ![stored + 1] = app]
    /\ Watch
    /\ UNCHANGED <<call, pc, traversal, sent, reply, confirmed, executed, faults>>

Next ==
    \/ \E c \in Callers :
          \/ \E op \in CallsOf[c] : Start(c, op)
          \/ List(c) \/ Check(c) \/ Answered(c) \/ GiveUp(c)
    \/ \E w \in sent : Execute(w)
    \/ \E app \in AppIds : Add(app)

Spec == Init /\ [][Next]_vars

-----------------------------------------------------------------------------
\* An operation changes only memories that were in its scope at some time of the
\* call, although every check is older than the write that relies on it, other
\* operations move memories between the apps, and a write may be carried out after
\* the operation has ended (requireScopedMemory).
MutatesInScope ==
    \A i \in DOMAIN executed : executed[i].id \in touched[executed[i].caller]

Mine(c) == {i \in DOMAIN executed : executed[i].caller = c}

\* What an operation confirms has been done, once each, and at most one more that
\* it has not heard of ("deletions confirmed"; a write is never repeated).
ConfirmedDone ==
    \A c \in Callers :
        /\ Cardinality(Mine(c)) \in confirmed[c]..(confirmed[c] + 1)
        /\ pc[c] = "done" => Cardinality(Mine(c)) = confirmed[c]

\* A deleteAll that succeeds has left nothing that was in its scope all the time,
\* whatever else is added, moved and deleted between its pages (iterateAllPages).
ScopeEmptied ==
    \A c \in Callers : pc[c] = "done" /\ call[c].kind = "all" => lasting[c] = {}
================================================================================
