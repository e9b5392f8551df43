--------------------------- MODULE ReleaseInstallInv ---------------------------
(***************************************************************************)
(* The inductive invariant of ReleaseInstall: what each position of a run  *)
(* says about the installation root, the journal and the run's own copies. *)
(* ReleaseInstallProofs proves the theorems; MCReleaseInstall lets TLC     *)
(* check the invariant on small instances.                                 *)
(***************************************************************************)
EXTENDS ReleaseInstall

\* The part of a run after the transaction has been journalled, the part before,
\* and the part in which a transaction is undone.
Switching == InTransaction \cup {"commit"}
Preparing == {"load", "snapshot", "journal"}
Restoring == {"recoverFiles", "undoFiles"}
Restored == {"recoverClear", "undoClear"}
Positions == {"idle", "recover"} \cup Switching \cup Preparing \cup Restoring \cup Restored

\* The installation as the abstract view has it: before an open transaction.
BaseLink == IF journal = NoArg THEN current ELSE journal.current
BaseFiles == IF journal = NoArg THEN disk ELSE journal.files

TransactionTyped(t) ==
    /\ t = [current |-> t.current, files |-> t.files]
    /\ t.current \in Packages \cup {NoArg}
    /\ FilesTyped(t.files)

\* OpenCode has no marketplace file.
CatalogFits(files) == Client = "opencode" => files["catalog"] = NoArg

RootTyped ==
    /\ FilesTyped(disk) /\ CatalogFits(disk)
    /\ current \in Packages \cup {NoArg}
    /\ versions \subseteq Packages
    /\ journal # NoArg => TransactionTyped(journal) /\ CatalogFits(journal.files)

RunsTyped ==
    /\ lock \in Invocations \cup {NoArg}
    /\ pc \in [Invocations -> Positions]
    /\ args \in [Invocations -> Options]
    /\ DOMAIN pending = Invocations
    /\ left \in [Invocations -> 1..Len(Files) + 1]
    /\ DOMAIN chosen = Invocations
    /\ outcome \in [Invocations -> {"none", "complete", "restored", "refused", "killed"}]
    /\ faults \in 0..MaxFaults

\* One invocation at a time is past .install.lock.
LockHeld == \A p \in Invocations : pc[p] # "idle" => lock = p

BaseWhole ==
    /\ Whole(BaseLink, BaseFiles) /\ Usable(BaseFiles)
    /\ BaseLink # NoArg => BaseLink \in versions

\* What a run with options a selects and will write, given what it has read.
Choice(a, c, link, files) ==
    /\ c.package \in versions
    /\ IF a.action = "rollback"
       THEN files["state"] # NoArg /\ c.package = files["state"].previous
       ELSE c.package = a.package /\ (files["config"] # NoArg \/ a.url # NoArg)
    /\ c.config \in Connections
    /\ c.config.url = IF a.url # NoArg THEN a.url ELSE files["config"].url
    /\ c.config.own <=> a.token # NoArg \/ (files["config"] # NoArg /\ files["config"].own)
    /\ (files["config"] # NoArg /\ a.url = NoArg /\ a.token = NoArg) => c.config = files["config"]
    /\ c.previous = IF link # c.package THEN link ELSE files["state"].previous

\* A run before its transaction has no journal to respect.
Prepares(p) ==
    pc[p] \in Preparing =>
        /\ journal = NoArg
        /\ pc[p] # "load" => Choice(args[p], chosen[p], current, disk)
        /\ pc[p] = "journal" => pending[p] = [current |-> current, files |-> disk]

\* A run that undoes a transaction has put back what it has passed.
Restores(p) ==
    /\ pc[p] \notin Restoring => left[p] = 1
    /\ pc[p] \in Restoring \cup Restored => journal # NoArg /\ pending[p] = journal
    /\ pc[p] \in Restoring =>
          \A i \in 1..Len(Files) : i < left[p] => disk[Files[i]] = journal.files[Files[i]]
    /\ pc[p] \in Restored => disk = journal.files /\ current = journal.current

\* A run inside its transaction has changed what it has passed, and nothing else.
Switches(p) ==
    LET old == journal.files
        new == chosen[p]
    IN
    pc[p] \in Switching =>
        /\ journal # NoArg /\ pending[p] = journal
        /\ Choice(args[p], new, journal.current, old)
        /\ disk["credential"] =
              IF pc[p] # "credential" /\ args[p].token # NoArg THEN args[p].token
              ELSE old["credential"]
        /\ disk["config"] =
              IF pc[p] \in {"credential", "config"} THEN old["config"] ELSE new.config
        /\ current =
              IF pc[p] \in {"credential", "config", "select"} THEN journal.current
              ELSE new.package
        /\ disk["state"] =
              IF pc[p] # "commit" THEN old["state"]
              ELSE [current |-> new.package, previous |-> new.previous]
        /\ disk["host"].edits = old["host"].edits
        /\ pc[p] \in {"state", "commit"} => disk["host"].plugin = "hooked"
        /\ pc[p] \in {"truncate", "catalog", "plugin"} => Client = "codex"
        /\ Client = "codex" /\ pc[p] \in {"plugin", "hook", "state", "commit"} =>
              disk["catalog"] = "complete"

RunsFit == \A p \in Invocations : Prepares(p) /\ Restores(p) /\ Switches(p)

\* The record on disk is usable at every moment, the rest outside transactions.
InstallInv ==
    /\ RootTyped /\ RunsTyped /\ LockHeld
    /\ BaseWhole /\ PreviousUsable
    /\ RunsFit
================================================================================
