----------------------------- MODULE RequestSlots -----------------------------
(***************************************************************************)
(* ThreadingHTTPServer of the bridge: one accepting thread, a thread for   *)
(* each admitted connection, and a BoundedSemaphore that limits how many   *)
(* run at a time.  A connection is admitted without waiting or closed; its *)
(* slot is taken by the accepting thread and given back by the connection  *)
(* thread, or by the accepting thread when no thread could be started.     *)
(***************************************************************************)
EXTENDS Integers, Sequences, FiniteSets

CONSTANTS
    Conns,      \* connections, each of which may come again once it is closed
    MaxSlots,   \* _MAX_CONCURRENT_REQUESTS
    Nobody

ASSUME ConnsAssumption == IsFiniteSet(Conns) /\ Nobody \notin Conns
ASSUME SlotsAssumption == MaxSlots \in Nat \ {0}

VARIABLES
    backlog,    \* connections waiting for accept()
    starting,   \* the connection the accepting thread is starting a thread for
    conn,       \* the position of each connection
    slots,      \* the value of _request_slots
    overflow    \* release() raised: the semaphore was at its bound

vars == <<backlog, starting, conn, slots, overflow>>

Closed == {"away", "refused", "served"}

Init ==
    /\ backlog = <<>>
    /\ starting = Nobody
    /\ conn = [c \in Conns |-> "away"]
    /\ slots = MaxSlots
    /\ overflow = FALSE

Release ==
    IF slots < MaxSlots
    THEN slots' = slots + 1 /\ UNCHANGED overflow
    ELSE overflow' = TRUE /\ UNCHANGED slots

Connect(c) ==
    /\ conn[c] \in Closed
    /\ Len(backlog) < MaxSlots    \* request_queue_size
    /\ conn' = [conn EXCEPT ![c] = "waiting"]
    /\ backlog' = Append(backlog, c)
    /\ UNCHANGED <<starting, slots, overflow>>

\* Operators named <definition>_<fault> are mutants: what the definition would
\* be if the code had that fault.  No action uses them.

\* process_request with a free slot takes it, without one closes the connection.
Admit ==
    /\ starting = Nobody
    /\ backlog # <<>>
    /\ slots > 0
    /\ slots' = slots - 1
    /\ starting' = Head(backlog)
    /\ conn' = [conn EXCEPT ![Head(backlog)] = "admitted"]
    /\ backlog' = Tail(backlog)
    /\ UNCHANGED overflow

Refuse_Early ==
    /\ starting = Nobody
    /\ backlog # <<>>
    /\ slots < 2
    /\ conn' = [conn EXCEPT ![Head(backlog)] = "refused"]
    /\ backlog' = Tail(backlog)
    /\ UNCHANGED <<starting, slots, overflow>>

Refuse ==
    /\ starting = Nobody
    /\ backlog # <<>>
    /\ slots = 0
    /\ conn' = [conn EXCEPT ![Head(backlog)] = "refused"]
    /\ backlog' = Tail(backlog)
    /\ UNCHANGED <<starting, slots, overflow>>

StartThread ==
    /\ starting # Nobody
    /\ conn' = [conn EXCEPT ![starting] = "running"]
    /\ starting' = Nobody
    /\ UNCHANGED <<backlog, slots, overflow>>

StartFails_KeepsSlot ==
    /\ starting # Nobody
    /\ conn' = [conn EXCEPT ![starting] = "refused"]
    /\ starting' = Nobody
    /\ UNCHANGED <<backlog, slots, overflow>>

StartFails_LeftOpen ==
    /\ starting # Nobody
    /\ Release
    /\ starting' = Nobody
    /\ UNCHANGED <<backlog, conn>>

\* No thread could be started: the slot goes back and the connection is closed.
StartFails ==
    /\ starting # Nobody
    /\ Release
    /\ conn' = [conn EXCEPT ![starting] = "refused"]
    /\ starting' = Nobody
    /\ UNCHANGED backlog

\* The handler has returned or raised and its connection is shut down ...
Handled(c) ==
    /\ conn[c] = "running"
    /\ conn' = [conn EXCEPT ![c] = "ending"]
    /\ UNCHANGED <<backlog, starting, slots, overflow>>

\* ... and the finally clause of process_request_thread gives the slot back.
Leave(c) ==
    /\ conn[c] = "ending"
    /\ Release
    /\ conn' = [conn EXCEPT ![c] = "served"]
    /\ UNCHANGED <<backlog, starting>>

Next ==
    \/ \E c \in Conns : Connect(c) \/ Handled(c) \/ Leave(c)
    \/ Admit \/ Refuse \/ StartThread \/ StartFails

Spec == Init /\ [][Next]_vars

\* The accepting thread and every connection thread go on: handlers end because
\* sockets and backend calls have timeouts (Handler.setup, Config.timeout).
FairSpec ==
    /\ Spec
    /\ WF_vars(Admit \/ Refuse)
    /\ WF_vars(StartThread \/ StartFails)
    /\ \A c \in Conns : WF_vars(Handled(c) \/ Leave(c))

-----------------------------------------------------------------------------
\* The connections that own a slot.
Holding == {c \in Conns : conn[c] \in {"admitted", "running", "ending"}}

\* Type invariant.
TypeOK ==
    /\ backlog \in Seq(Conns)
    /\ starting \in Conns \cup {Nobody}
    /\ conn \in [Conns -> Closed \cup {"waiting", "admitted", "running", "ending"}]
    /\ slots \in 0..MaxSlots
    /\ overflow \in BOOLEAN

\* Each slot is free or owned by exactly one open connection, whatever fails in
\* between: none leaks and none is given back twice.
SlotsConserved == slots + Cardinality(Holding) = MaxSlots /\ ~overflow

\* A connection is turned away at the door only when MaxSlots are being served.
RefusedOnlyWhenFull ==
    [][\A c \in Conns :
          conn[c] = "waiting" /\ conn'[c] = "refused"
              => Cardinality(Holding) = MaxSlots]_vars

\* No connection waits for ever: each is served or closed.
Answered == \A c \in Conns : conn[c] = "waiting" ~> conn[c] \in Closed
===============================================================================
