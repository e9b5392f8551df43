------------------------------ MODULE DurableAdd ------------------------------
(***************************************************************************)
(* What add_memory promises for a keyed request, with no bridge process,   *)
(* no messages and no retries: under a key one request is recorded, first  *)
(* its single or personal write, then at most one project write; and a     *)
(* receipt is granted only to a client whose own request is completely     *)
(* recorded.  Nothing recorded or granted is ever taken back.              *)
(***************************************************************************)
CONSTANTS Clients, Keys, Nobody,
          KeyOf,        \* KeyOf[c]: the key of c's request
          Splits,       \* the clients whose request may be split
          Same(_, _, _) \* Same(c, d, s): c's write of stage s is d's, for c to see

VARIABLES stage, holder, granted

vars == <<stage, holder, granted>>

Init ==
    /\ stage = [k \in Keys |-> "none"]
    /\ holder = [k \in Keys |-> Nobody]
    /\ granted = {}

RecordFirst(k, c, s) ==
    /\ stage[k] = "none"
    /\ KeyOf[c] = k
    /\ s = "personal" => c \in Splits
    /\ stage' = [stage EXCEPT ![k] = s]
    /\ holder' = [holder EXCEPT ![k] = c]
    /\ UNCHANGED granted

RecordSecond(k) ==
    /\ stage[k] = "personal"
    /\ stage' = [stage EXCEPT ![k] = "both"]
    /\ UNCHANGED <<holder, granted>>

Grant(c) ==
    /\ c \notin granted
    /\ KeyOf[c] \in Keys
    /\ stage[KeyOf[c]] \in {"single", "both"}
    /\ Same(c, holder[KeyOf[c]], stage[KeyOf[c]])
    /\ granted' = granted \cup {c}
    /\ UNCHANGED <<stage, holder>>

Next ==
    \/ \E k \in Keys, c \in Clients, s \in {"single", "personal"} : RecordFirst(k, c, s)
    \/ \E k \in Keys : RecordSecond(k)
    \/ \E c \in Clients : Grant(c)

Spec == Init /\ [][Next]_vars
=============================================================================
