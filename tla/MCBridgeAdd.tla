----------------------------- MODULE MCBridgeAdd -----------------------------
(***************************************************************************)
(* Small instances of BridgeAdd.  Each set of requests puts the clients in *)
(* the positions the keys are meant for; the configuration picks one.      *)
(***************************************************************************)
EXTENDS BridgeAddInv

CONSTANTS k1, k2, alice, bob, c1, c2, c3, a1, a2, a3

Dual(key, agent) ==
    [key |-> key, user |-> "u", agent |-> agent, infer |-> TRUE, mode |-> "dual"]
Plain(key, infer) ==
    [key |-> key, user |-> "u", agent |-> "a", infer |-> infer, mode |-> "default"]

\* c2 reuses c1's key with another agent, c3 is another credential that sends
\* exactly c1's request.
CollidingArgs == [c \in Clients |-> IF c = c2 THEN Dual(k1, "b") ELSE Dual(k1, "a")]
CollidingCred == [c \in Clients |-> IF c = c3 THEN bob ELSE alice]

\* c1 leaves the mode to the server, c2 sends no key at all.
ModeArgs == [c \in Clients |-> IF c = c1 THEN Plain(k1, TRUE) ELSE Plain(NoKey, FALSE)]
AliceBob == [c \in Clients |-> IF c = c1 THEN alice ELSE bob]

\* Two clients with keys of their own, authentication off.
OwnKeyArgs == [c \in Clients |-> IF c = c1 THEN Dual(k1, "a") ELSE Dual(k2, "a")]
OpenCred == [c \in Clients |-> Disabled]
==============================================================================
