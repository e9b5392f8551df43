-------------------------------- MODULE MCReads --------------------------------
(***************************************************************************)
(* A small instance of Reads.  Its three models share no variable, so a    *)
(* behaviour watches one of them while the others rest.  Every behaviour   *)
(* here is one of ReadsSpec.                                               *)
(***************************************************************************)
EXTENDS Reads

\* A window that is off and one that is larger than the Core allows.
MCListLimits == {-1, 3}

VARIABLE watched

-----------------------------------------------------------------------------
\* What is not watched stays in one initial state.  Bulk deletion starts with all
\* rows but one.
WatchedInit ==
    /\ watched \in {"listing", "bulk", "entities"}
    /\ ReadsInit
    /\ watched # "listing" => core = [kind |-> "honors", list |-> 3, backend |-> 0] /\ added = 0
    /\ bulkAdded = BulkRows - 1
    /\ watched # "bulk" => path = "sidecar"
    /\ watched # "entities" => stored = {}

WatchedNext ==
    /\ UNCHANGED watched
    /\ \/ watched = "listing" /\ ListingStep
       \/ watched = "bulk" /\ BulkStep
       \/ watched = "entities" /\ EntityStep

\* A bulk deletion runs until its handler returns.
WatchedSpec ==
    /\ WatchedInit /\ [][WatchedNext]_<<watched, allVars>>
    /\ \A c \in Callers : WF_bulkVars(watched = "bulk" /\ Bulk!Step(c))

-----------------------------------------------------------------------------
\* A bulk deletion ends although single deletions fail, and it gives up only if the
\* store returns what is deleted.
DeletionEnds == (watched = "bulk" => Bulk!Ends) /\ Bulk!StuckOnlyByStore
================================================================================
