---------------------------- MODULE ReleaseInstall ----------------------------
(***************************************************************************)
(* The release installer for Codex and OpenCode (install_client_release.py *)
(* with release_state.py and release_host.py).  One installation root is   *)
(* worked on by invocations of the installer, one at a time under          *)
(* .install.lock; each may be killed between any two writes, and each      *)
(* write may fail.  A switch is bracketed by transaction.json, which holds *)
(* the former content of everything the switch writes; the next invocation *)
(* that finds one puts that content back first.                            *)
(* "install" and "update" run the same branch and are one action here.     *)
(***************************************************************************)
EXTENDS Integers, Sequences

CONSTANTS
    Invocations, \* installer processes, each used again and again
    Client,      \* "codex" or "opencode"
    Packages,    \* digests of verified archives
    Endpoints,   \* values of --url
    Tokens,      \* values read with --token-stdin
    NoArg,       \* an absent option, file, link or previous release
    MaxFaults,   \* bound on crashes and failing steps
    MaxEdits     \* bound on the user's own edits of the host configuration

ASSUME ClientAssumption == Client \in {"codex", "opencode"}
ASSUME BoundsAssumption == MaxFaults \in Nat /\ MaxEdits \in Nat
VARIABLES
    disk,     \* the files a switch may write, by name
    current,  \* target of the "current" link
    versions, \* packages under versions/
    journal,  \* transaction.json
    lock,     \* holder of .install.lock
    pc, args, \* of each invocation: position and options
    pending,  \* its copy of the transaction
    left,     \* its next file to restore
    chosen,   \* the package it selects, the connection it writes, state as read
    outcome,  \* what its last finished run reported
    faults

world == <<disk, current, versions, journal>>
locals == <<args, pending, left, chosen>>
vars == <<world, lock, pc, locals, outcome, faults>>

\* The order in which run_transaction lists, snapshots and restores them.
Files_WithoutState == <<"config", "credential", "host", "catalog">>

Files == <<"config", "credential", "state", "host", "catalog">>

FileNames == {"config", "credential", "state", "host", "catalog"}

\* The command line.  --env-file, --token-env-var and --host-dir are left out.
Options ==
    [action : {"install"}, package : Packages,
     url : Endpoints \cup {NoArg}, token : Tokens \cup {NoArg}]
    \cup [action : {"rollback"}, package : {NoArg}, url : {NoArg}, token : {NoArg}]

Connections == [url : Endpoints, own : BOOLEAN]

\* The host configuration: how far our plugin is registered in it, and how many
\* edits of its owner it holds.
Hosts == [plugin : {"none", "added", "hooked"}, edits : 0..MaxEdits]

\* What each file may hold: the installation record names two packages, the
\* catalog is written in two steps.
Contents ==
    [config |-> Connections \cup {NoArg},
     credential |-> Tokens \cup {NoArg},
     state |-> [current : Packages, previous : Packages \cup {NoArg}] \cup {NoArg},
     host |-> Hosts,
     catalog |-> {NoArg, "empty", "complete"}]

Transactions ==
    [current : Packages \cup {NoArg}, files : [FileNames -> UNION {Contents[f] : f \in FileNames}]]

\* What is absent (None) is told apart from everything that may be there.
ASSUME NoArgAssumption ==
    /\ NoArg \notin Invocations /\ NoArg \notin Packages
    /\ NoArg \notin Endpoints /\ NoArg \notin Tokens
    /\ NoArg \notin Connections
    /\ NoArg \notin [current : Packages, previous : Packages \cup {NoArg}]
    /\ NoArg \notin Transactions

NoTransaction == [current |-> NoArg, files |-> <<>>]
NoChoice == [package |-> NoArg, config |-> NoArg, previous |-> NoArg]
NoOptions == [action |-> "rollback", package |-> NoArg, url |-> NoArg, token |-> NoArg]

Init ==
    /\ disk = [f \in FileNames |->
                 IF f = "host" THEN [plugin |-> "none", edits |-> 0] ELSE NoArg]
    /\ current = NoArg
    /\ versions = {}
    /\ journal = NoArg
    /\ lock = NoArg
    /\ pc = [p \in Invocations |-> "idle"]
    /\ args = [p \in Invocations |-> NoOptions]
    /\ pending = [p \in Invocations |-> NoTransaction]
    /\ left = [p \in Invocations |-> 1]
    /\ chosen = [p \in Invocations |-> NoChoice]
    /\ outcome = [p \in Invocations |-> "none"]
    /\ faults = 0

-----------------------------------------------------------------------------
\* Operators named <definition>_<fault> are mutants: what the definition would
\* be if the code had that fault.  No action uses them.

At(p, label) == pc[p] = label
Goto(p, label) == pc' = [pc EXCEPT ![p] = label]
Write(f, value) == disk' = [disk EXCEPT ![f] = value]

\* The process ends and the kernel drops its lock.
Exit(p, report) ==
    /\ pc' = [pc EXCEPT ![p] = "idle"]
    /\ args' = [args EXCEPT ![p] = NoOptions]
    /\ pending' = [pending EXCEPT ![p] = NoTransaction]
    /\ left' = [left EXCEPT ![p] = 1]
    /\ chosen' = [chosen EXCEPT ![p] = NoChoice]
    /\ outcome' = [outcome EXCEPT ![p] = report]
    /\ lock' = NoArg

Fault == faults < MaxFaults /\ faults' = faults + 1

Start_WithoutLock(p) ==
    /\ At(p, "idle")
    /\ lock' = p
    /\ \E a \in Options : args' = [args EXCEPT ![p] = a]
    /\ Goto(p, "recover")
    /\ outcome' = [outcome EXCEPT ![p] = "none"]
    /\ UNCHANGED <<world, pending, left, chosen, faults>>

\* A second invocation that finds the lock taken ends without a trace; this is
\* the one that gets it.
Start(p) ==
    /\ At(p, "idle")
    /\ lock = NoArg
    /\ lock' = p
    /\ \E a \in Options : args' = [args EXCEPT ![p] = a]
    /\ Goto(p, "recover")
    /\ outcome' = [outcome EXCEPT ![p] = "none"]
    /\ UNCHANGED <<world, pending, left, chosen, faults>>

ReadJournal_Ignored(p) ==
    /\ At(p, "recover")
    /\ Goto(p, "load")
    /\ UNCHANGED <<world, lock, args, pending, left, chosen, outcome, faults>>

\* An unfinished transaction of an earlier run is undone before anything else.
ReadJournal(p) ==
    /\ At(p, "recover")
    /\ IF journal = NoArg
       THEN Goto(p, "load") /\ UNCHANGED pending
       ELSE Goto(p, "recoverFiles") /\ pending' = [pending EXCEPT ![p] = journal]
    /\ UNCHANGED <<world, lock, args, left, chosen, outcome, faults>>

\* restore(): the files one after the other, each atomically.
RestoreFile(p) ==
    /\ pc[p] \in {"recoverFiles", "undoFiles"}
    /\ left[p] <= Len(Files)
    /\ Write(Files[left[p]], pending[p].files[Files[left[p]]])
    /\ left' = [left EXCEPT ![p] = @ + 1]
    /\ UNCHANGED <<current, versions, journal, lock, pc, args, pending, chosen, outcome, faults>>

RestoreLink(p) ==
    /\ pc[p] \in {"recoverFiles", "undoFiles"}
    /\ left[p] > Len(Files)
    /\ current' = pending[p].current
    /\ left' = [left EXCEPT ![p] = 1]
    /\ Goto(p, IF At(p, "recoverFiles") THEN "recoverClear" ELSE "undoClear")
    /\ UNCHANGED <<disk, versions, journal, lock, args, pending, chosen, outcome, faults>>

Recovered_KeptJournal(p) ==
    /\ At(p, "recoverClear")
    /\ pending' = [pending EXCEPT ![p] = NoTransaction]
    /\ Goto(p, "load")
    /\ UNCHANGED <<world, lock, args, left, chosen, outcome, faults>>

Recovered(p) ==
    /\ At(p, "recoverClear")
    /\ journal' = NoArg
    /\ pending' = [pending EXCEPT ![p] = NoTransaction]
    /\ Goto(p, "load")
    /\ UNCHANGED <<disk, current, versions, lock, args, left, chosen, outcome, faults>>

\* What the run selects, the connection it will write, and the release that a
\* later rollback goes to.
Selected(p) == IF args[p].action = "rollback" THEN disk["state"].previous ELSE args[p].package

Connection(p) ==
    LET a == args[p]
        config == disk["config"]
    IN
    IF config # NoArg /\ a.url = NoArg /\ a.token = NoArg THEN config
    ELSE [url |-> IF a.url # NoArg THEN a.url ELSE config.url,
          own |-> a.token # NoArg \/ (config # NoArg /\ config.own)]

Previous_Current(p) == current

Previous(p) ==
    IF current # Selected(p) THEN current
    ELSE IF disk["state"] # NoArg THEN disk["state"].previous ELSE NoArg

\* The record, the connection and the options are read and checked; an install
\* puts its verified package under versions/ when it is not there yet.
Load(p) ==
    /\ At(p, "load")
    /\ IF args[p].action = "rollback"
       THEN disk["state"] # NoArg /\ disk["state"].previous \in versions
       ELSE disk["config"] # NoArg \/ args[p].url # NoArg
    /\ chosen' = [chosen EXCEPT ![p] =
          [package |-> Selected(p), config |-> Connection(p), previous |-> Previous(p)]]
    /\ versions' = versions \cup {Selected(p)}
    /\ Goto(p, "snapshot")
    /\ UNCHANGED <<disk, current, journal, lock, args, pending, left, outcome, faults>>

\* First installation without --url, nothing to roll back to, a bad option or
\* archive: the run ends before it has begun a transaction.
Refuse(p) ==
    /\ At(p, "load")
    /\ Exit(p, "refused")
    /\ UNCHANGED <<world, faults>>

Snapshot(p) ==
    /\ At(p, "snapshot")
    /\ pending' = [pending EXCEPT ![p] = [current |-> current, files |-> disk]]
    /\ Goto(p, "journal")
    /\ UNCHANGED <<world, lock, args, left, chosen, outcome, faults>>

WriteJournal(p) ==
    /\ At(p, "journal")
    /\ journal' = pending[p]
    /\ Goto(p, "credential")
    /\ UNCHANGED <<disk, current, versions, lock, args, pending, left, chosen, outcome, faults>>

\* The steps of the transaction.
Credential(p) ==
    /\ At(p, "credential")
    /\ IF args[p].token # NoArg THEN Write("credential", args[p].token) ELSE UNCHANGED disk
    /\ Goto(p, "config")
    /\ UNCHANGED <<current, versions, journal, lock, locals, outcome, faults>>

Config(p) ==
    /\ At(p, "config")
    /\ IF disk["config"] = NoArg \/ args[p].url # NoArg \/ args[p].token # NoArg
       THEN Write("config", chosen[p].config) ELSE UNCHANGED disk
    /\ Goto(p, "select")
    /\ UNCHANGED <<current, versions, journal, lock, locals, outcome, faults>>

Select(p) ==
    /\ At(p, "select")
    /\ current' = chosen[p].package
    /\ Goto(p, IF Client = "codex" THEN "truncate" ELSE "hook")
    /\ UNCHANGED <<disk, versions, journal, lock, locals, outcome, faults>>

\* register() for Codex: the catalog is truncated and then filled (write_text),
\* the plugin added by the host's own commands, and the hooks enabled.
TruncateCatalog(p) ==
    /\ At(p, "truncate")
    /\ Write("catalog", "empty")
    /\ Goto(p, "catalog")
    /\ UNCHANGED <<current, versions, journal, lock, locals, outcome, faults>>

WriteCatalog(p) ==
    /\ At(p, "catalog")
    /\ Write("catalog", "complete")
    /\ Goto(p, "plugin")
    /\ UNCHANGED <<current, versions, journal, lock, locals, outcome, faults>>

AddPlugin(p) ==
    /\ At(p, "plugin")
    /\ Write("host", IF disk["host"].plugin = "none"
                     THEN [disk["host"] EXCEPT !.plugin = "added"] ELSE disk["host"])
    /\ Goto(p, "hook")
    /\ UNCHANGED <<current, versions, journal, lock, locals, outcome, faults>>

\* The last registration step; for OpenCode, the loader in one replace.
Hook(p) ==
    /\ At(p, "hook")
    /\ Write("host", [disk["host"] EXCEPT !.plugin = "hooked"])
    /\ Goto(p, "state")
    /\ UNCHANGED <<current, versions, journal, lock, locals, outcome, faults>>

Record(p) ==
    /\ At(p, "state")
    /\ Write("state", [current |-> chosen[p].package, previous |-> chosen[p].previous])
    /\ Goto(p, "commit")
    /\ UNCHANGED <<current, versions, journal, lock, locals, outcome, faults>>

Complete(p) ==
    /\ At(p, "commit")
    /\ journal' = NoArg
    /\ Exit(p, "complete")
    /\ UNCHANGED <<disk, current, versions, faults>>

InTransaction ==
    {"credential", "config", "select", "truncate", "catalog", "plugin", "hook", "state"}

\* A step of the transaction raises: the except clause puts everything back.
StepFails(p) ==
    /\ Fault
    /\ pc[p] \in InTransaction
    /\ Goto(p, "undoFiles")
    /\ UNCHANGED <<world, lock, locals, outcome>>

Undone(p) ==
    /\ At(p, "undoClear")
    /\ journal' = NoArg
    /\ Exit(p, "restored")
    /\ UNCHANGED <<disk, current, versions, faults>>

\* An error outside the try block, in recovery, in the except clause or in the
\* final unlink, ends the run; main() reports it with the same message.
OtherFails(p) ==
    /\ Fault
    /\ pc[p] \notin InTransaction \cup {"idle"}
    /\ Exit(p, "restored")
    /\ UNCHANGED world

\* The process is killed.
Crash(p) ==
    /\ Fault
    /\ pc[p] # "idle"
    /\ Exit(p, "killed")
    /\ UNCHANGED world

\* The owner edits the host configuration while no installation runs.
EditHost ==
    /\ lock = NoArg
    /\ disk["host"].edits < MaxEdits
    /\ Write("host", [disk["host"] EXCEPT !.edits = @ + 1])
    /\ UNCHANGED <<current, versions, journal, lock, pc, locals, outcome, faults>>

Work(p) ==
    \/ ReadJournal(p) \/ RestoreFile(p) \/ RestoreLink(p) \/ Recovered(p)
    \/ Load(p) \/ Refuse(p) \/ Snapshot(p) \/ WriteJournal(p)
    \/ Credential(p) \/ Config(p) \/ Select(p)
    \/ TruncateCatalog(p) \/ WriteCatalog(p) \/ AddPlugin(p) \/ Hook(p)
    \/ Record(p) \/ Complete(p) \/ Undone(p)

Next ==
    \/ \E p \in Invocations :
          Start(p) \/ Work(p) \/ StepFails(p) \/ OtherFails(p) \/ Crash(p)
    \/ EditHost

Spec == Init /\ [][Next]_vars

\* A running invocation goes on, and some day the installer is invoked again.
FairSpec ==
    /\ Spec
    /\ \A p \in Invocations : WF_vars(Work(p))
    /\ WF_vars(\E p \in Invocations : Start(p))

-----------------------------------------------------------------------------
(***************************************************************************)
(* Properties.                                                             *)
(***************************************************************************)
FilesTyped(files) ==
    /\ files = [f \in FileNames |-> files[f]]
    /\ \A f \in FileNames : files[f] \in Contents[f]

\* Type invariant of the installation root and of the invocations.
TypeOK ==
    /\ FilesTyped(disk)
    /\ current \in Packages \cup {NoArg}
    /\ versions \subseteq Packages
    /\ journal = NoArg \/ FilesTyped(journal.files)
    /\ lock \in Invocations \cup {NoArg}
    /\ args \in [Invocations -> Options]
    /\ left \in [Invocations -> 1..Len(Files) + 1]
    /\ outcome \in [Invocations -> {"none", "complete", "restored", "refused", "killed"}]
    /\ faults \in 0..MaxFaults

\* An installation that is whole: either there is none at all, or the record names
\* the selected package, the connection exists, a stored credential is there when
\* the connection points at it, and the host is fully registered.
Whole(link, files) ==
    IF files["state"] = NoArg
    THEN link = NoArg /\ files["config"] = NoArg /\ files["host"].plugin = "none"
    ELSE /\ files["state"].current = link
         /\ files["config"] # NoArg
         /\ files["config"].own => files["credential"] # NoArg
         /\ files["host"].plugin = "hooked"
         /\ Client = "codex" => files["catalog"] = "complete"

\* With no transaction open, the installation is whole (run_transaction).
Settled == journal = NoArg => Whole(current, disk)

\* The record has another release than the selected one to roll back to, if any,
\* and it is under versions/.
Usable(files) ==
    files["state"] # NoArg /\ files["state"].previous # NoArg =>
        /\ files["state"].previous # files["state"].current
        /\ files["state"].previous \in versions

\* The release to roll back to is another one than the selected one, and it is
\* still there.
PreviousUsable == Usable(disk)

\* An interrupted switch is settled, once the installer runs often enough
\* without another fault.
InterruptedSwitchSettles == journal # NoArg ~> journal = NoArg

\* "Existing model configuration [is] preserved": no step of the installer takes
\* an edit out of the host configuration.
HostEditsKept == [][disk'["host"].edits >= disk["host"].edits]_vars

\* "prior installation restored if a transaction was started": a run that says
\* so leaves the selected package as its transaction found it.
RestoredMeansRestored ==
    [][\A p \in Invocations :
          pc[p] \in {"commit", "undoFiles", "undoClear"} /\ outcome'[p] = "restored"
              => current' = pending[p].current]_vars

(***************************************************************************)
(* The abstract view: an open transaction has not happened yet.            *)
(***************************************************************************)
View(link, files) ==
    [current |-> link, config |-> files["config"], credential |-> files["credential"],
     state |-> files["state"], host |-> files["host"], catalog |-> files["catalog"]]

Atomic == INSTANCE AtomicInstall WITH
    Catalog <- IF Client = "codex" THEN "complete" ELSE NoArg,
    Hosts   <- [h \in Hosts |-> [h EXCEPT !.plugin = "hooked"]],
    Edited  <- [h \in Hosts |-> {g \in Hosts : g.plugin = h.plugin /\ g.edits = h.edits + 1}],
    inst    <- IF journal = NoArg THEN View(current, disk)
               ELSE View(journal.current, journal.files)

\* Whatever is interrupted, killed, failing or retried: the installation only
\* ever changes as if by one indivisible install or rollback.
ImplementsAtomicInstall == Atomic!Spec
=============================================================================
