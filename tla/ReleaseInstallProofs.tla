------------------------- MODULE ReleaseInstallProofs -------------------------
(***************************************************************************)
(* Proofs about ReleaseInstall, for both hosts, any invocations, packages, *)
(* endpoints, tokens and bounds: InstallInv is invariant, hence Settled    *)
(* and PreviousUsable are, and the installer implements AtomicInstall.     *)
(***************************************************************************)
EXTENDS ReleaseInstallInv, TLAPS

\* The files in the order in which they are restored.
LEMMA FileFacts ==
    /\ Len(Files) = 5
    /\ Files[1] = "config" /\ Files[2] = "credential" /\ Files[3] = "state"
    /\ Files[4] = "host" /\ Files[5] = "catalog"
BY DEF Files

\* FilesTyped, file by file.
LEMMA TypedFiles ==
    ASSUME NEW files
    PROVE  FilesTyped(files) <=>
             /\ files = [f \in FileNames |-> files[f]]
             /\ files["config"] \in Connections \cup {NoArg}
             /\ files["credential"] \in Tokens \cup {NoArg}
             /\ files["state"] \in [current : Packages, previous : Packages \cup {NoArg}] \cup {NoArg}
             /\ files["host"] \in Hosts
             /\ files["catalog"] \in {NoArg, "empty", "complete"}
BY DEF FilesTyped, FileNames, Contents

\* A typed value written to a file leaves the files typed.
LEMMA WrittenFiles ==
    ASSUME NEW files, FilesTyped(files), NEW f \in FileNames, NEW v \in Contents[f]
    PROVE  /\ FilesTyped([files EXCEPT ![f] = v])
           /\ \A g \in FileNames : [files EXCEPT ![f] = v][g] = IF g = f THEN v ELSE files[g]
BY DEF FilesTyped

\* Typed files that agree on all names are equal.
LEMMA SameFiles ==
    ASSUME NEW a, NEW b, FilesTyped(a), FilesTyped(b),
           \A i \in 1..Len(Files) : a[Files[i]] = b[Files[i]]
    PROVE  a = b
<1>1. \A f \in FileNames : a[f] = b[f]
  BY FileFacts DEF FileNames
<1>. QED BY <1>1 DEF FilesTyped

\* A journalled transaction is one, not NoArg.
LEMMA TransactionPresent ==
    ASSUME NEW t, TransactionTyped(t)
    PROVE  t # NoArg
<1>1. t.files \in [FileNames -> UNION {Contents[f] : f \in FileNames}]
  BY DEF TransactionTyped, FilesTyped
<1>. QED BY <1>1, NoArgAssumption DEF TransactionTyped, Transactions

LEMMA InitHolds == Init => InstallInv
<1> SUFFICES ASSUME Init PROVE InstallInv
  OBVIOUS
<1>1. FilesTyped(disk)
  <2>1. [plugin |-> "none", edits |-> 0] \in Hosts
    BY BoundsAssumption DEF Hosts
  <2>. QED BY <2>1, TypedFiles DEF Init, FileNames
<1>2. RootTyped
  BY <1>1 DEF Init, RootTyped, CatalogFits, FileNames
<1>3. RunsTyped
  BY FileFacts, BoundsAssumption DEF Init, RunsTyped, Positions, Options, NoOptions
<1>4. LockHeld /\ PreviousUsable /\ RunsFit
  BY DEF Init, LockHeld, PreviousUsable, Usable, FileNames, RunsFit, Prepares, Restores, Switches,
         Preparing, Restoring, Restored, Switching, InTransaction
<1>5. BaseWhole
  BY DEF Init, BaseWhole, BaseLink, BaseFiles, Whole, Usable, FileNames
<1>. QED BY <1>2, <1>3, <1>4, <1>5 DEF InstallInv
-----------------------------------------------------------------------------
\* Whoever is past the lock is alone.
LEMMA Alone ==
    ASSUME InstallInv, NEW p \in Invocations, pc[p] # "idle"
    PROVE  /\ lock = p /\ lock # NoArg
           /\ \A q \in Invocations \ {p} : pc[q] = "idle" /\ left[q] = 1
BY NoArgAssumption
   DEF InstallInv, RunsTyped, LockHeld, RunsFit, Restores, Restoring

\* A step of p leaves the other invocations idle, so only p has to fit.
LEMMA OneFits ==
    ASSUME NEW p \in Invocations, Prepares(p)', Restores(p)', Switches(p)',
           \A q \in Invocations \ {p} : pc'[q] = "idle" /\ left'[q] = 1
    PROVE  RunsFit'
<1>1. \A q \in Invocations \ {p} : (Prepares(q) /\ Restores(q) /\ Switches(q))'
  BY DEF Prepares, Restores, Switches, Preparing, Restoring, Restored, Switching, InTransaction
<1>. QED BY <1>1 DEF RunsFit

\* An idle invocation fits.
LEMMA IdleFits ==
    ASSUME NEW p, pc'[p] \in {"idle", "recover"}, left'[p] = 1
    PROVE  (Prepares(p) /\ Restores(p) /\ Switches(p))'
BY DEF Prepares, Restores, Switches, Preparing, Restoring, Restored, Switching, InTransaction

\* The root and what it means are not disturbed by steps that leave it alone, and an
\* open transaction keeps its base while versions only grow.
LEMMA WorldSame ==
    ASSUME InstallInv, UNCHANGED world
    PROVE  RootTyped' /\ BaseWhole' /\ PreviousUsable'
BY DEF InstallInv, world, RootTyped, FilesTyped, CatalogFits, TransactionTyped, BaseWhole, BaseLink,
       BaseFiles, Whole, PreviousUsable, Usable

\* As long as the journal stays, what it holds stays whole.
LEMMA BaseKept ==
    ASSUME InstallInv, journal # NoArg, UNCHANGED <<journal, versions>>
    PROVE  BaseWhole'
BY DEF InstallInv, BaseWhole, BaseLink, BaseFiles, Whole, Usable

\* A step of an invocation that is at work moves no other one.
LEMMA LockKept ==
    ASSUME InstallInv, NEW p \in Invocations, pc[p] # "idle", lock' = lock,
           \A q \in Invocations \ {p} : pc'[q] = pc[q]
    PROVE  LockHeld'
BY DEF InstallInv, LockHeld

-----------------------------------------------------------------------------
\* The ends of a run.
LEMMA ExitFits ==
    ASSUME InstallInv, NEW p \in Invocations, pc[p] # "idle",
           NEW r \in {"complete", "restored", "refused", "killed"}, Exit(p, r),
           faults' \in 0..MaxFaults
    PROVE  RunsTyped' /\ LockHeld' /\ RunsFit'
<1>1. RunsTyped'
  BY FileFacts DEF InstallInv, RunsTyped, Exit, Positions, Options, NoOptions
<1>2. \A q \in Invocations : pc'[q] = "idle" /\ left'[q] = 1
  BY Alone DEF InstallInv, RunsTyped, Exit
<1>3. LockHeld'
  BY <1>2 DEF LockHeld
<1>4. RunsFit'
  BY <1>2, IdleFits DEF RunsFit
<1>. QED BY <1>1, <1>3, <1>4

\* The number of faults stays within its bound.
LEMMA FaultTyped ==
    ASSUME InstallInv, Fault
    PROVE  faults' \in 0..MaxFaults
BY BoundsAssumption DEF InstallInv, RunsTyped, Fault

\* An invocation is refused, fails outside of the switch, or is killed.
LEMMA EndsKeep ==
    ASSUME InstallInv, NEW p \in Invocations, Refuse(p) \/ OtherFails(p) \/ Crash(p)
    PROVE  InstallInv'
<1>1. UNCHANGED world
  BY DEF Refuse, OtherFails, Crash
<1>2. pc[p] # "idle"
  BY DEF Refuse, OtherFails, Crash, At
<1>3. faults' \in 0..MaxFaults
  BY FaultTyped DEF Refuse, OtherFails, Crash, InstallInv, RunsTyped
<1>4. RunsTyped' /\ LockHeld' /\ RunsFit'
  BY <1>2, <1>3, ExitFits DEF Refuse, OtherFails, Crash
<1>. QED BY <1>1, <1>4, WorldSame DEF InstallInv

\* The start of an invocation; from then on it is alone.
LEMMA StartKeeps ==
    ASSUME InstallInv, NEW p \in Invocations, Start(p)
    PROVE  InstallInv'
<1>1. RootTyped' /\ BaseWhole' /\ PreviousUsable'
  BY WorldSame DEF Start
<1>2. RunsTyped'
  BY DEF InstallInv, RunsTyped, Start, At, Goto, Positions
<1>3. \A q \in Invocations : pc[q] = "idle" /\ left[q] = 1
  BY NoArgAssumption DEF InstallInv, LockHeld, Start, RunsFit, Restores, Restoring
<1>4. LockHeld'
  BY <1>3 DEF InstallInv, RunsTyped, LockHeld, Start, Goto
<1>5. RunsFit'
  <2>1. pc'[p] = "recover" /\ left'[p] = 1
    BY <1>3 DEF InstallInv, RunsTyped, Start, Goto
  <2>2. \A q \in Invocations \ {p} : pc'[q] = "idle" /\ left'[q] = 1
    BY <1>3 DEF InstallInv, RunsTyped, Start, Goto
  <2>. QED BY <2>1, <2>2, IdleFits, OneFits
<1>. QED BY <1>1, <1>2, <1>4, <1>5 DEF InstallInv

-----------------------------------------------------------------------------
\* Recovery and the except clause.
LEMMA ReadJournalKeeps ==
    ASSUME InstallInv, NEW p \in Invocations, ReadJournal(p)
    PROVE  InstallInv'
<1>1. RootTyped' /\ BaseWhole' /\ PreviousUsable'
  BY WorldSame DEF ReadJournal
<1>2. RunsTyped'
  BY DEF InstallInv, RunsTyped, ReadJournal, At, Goto, Positions, Preparing, Restoring
<1>3. pc[p] = "recover" /\ left[p] = 1
  BY DEF InstallInv, RunsFit, Restores, Restoring, ReadJournal, At
<1>4. \A q \in Invocations \ {p} : pc'[q] = pc[q]
  BY DEF InstallInv, RunsTyped, ReadJournal, Goto
<1>5. LockHeld'
  BY <1>3, <1>4, LockKept DEF ReadJournal
<1>6. RunsFit'
  <2>1. /\ journal = NoArg => pc'[p] = "load"
        /\ journal # NoArg => pc'[p] = "recoverFiles" /\ pending'[p] = journal'
        /\ UNCHANGED <<journal, left>>
    BY DEF InstallInv, RunsTyped, ReadJournal, Goto, world
  <2>2. (Prepares(p) /\ Restores(p) /\ Switches(p))'
    BY <1>3, <2>1, FileFacts DEF Prepares, Restores, Switches, Preparing, Restoring, Restored,
       Switching, InTransaction
  <2>. QED BY <1>3, <1>4, <2>1, <2>2, Alone, OneFits
<1>. QED BY <1>1, <1>2, <1>5, <1>6 DEF InstallInv

\* A file of the journal is written back: the prefix that agrees with it grows.
LEMMA RestoreFileKeeps ==
    ASSUME InstallInv, NEW p \in Invocations, RestoreFile(p)
    PROVE  InstallInv'
<1> DEFINE f == Files[left[p]]
           v == journal.files[f]
<1>1. /\ pc[p] \in Restoring /\ journal # NoArg /\ pending[p] = journal
      /\ \A i \in 1..5 : i < left[p] => disk[Files[i]] = journal.files[Files[i]]
  BY FileFacts DEF InstallInv, RunsFit, Restores, RestoreFile, Restoring
<1>2. left[p] \in 1..5 /\ f \in FileNames
  BY FileFacts DEF InstallInv, RunsTyped, RestoreFile, FileNames
<1>3. disk' = [disk EXCEPT ![f] = v]
  BY <1>1 DEF RestoreFile, Write
<1>4. FilesTyped(journal.files) /\ CatalogFits(journal.files) /\ FilesTyped(disk)
  BY <1>1 DEF InstallInv, RootTyped, TransactionTyped
<1>5. /\ FilesTyped(disk')
      /\ \A g \in FileNames : disk'[g] = IF g = f THEN v ELSE disk[g]
  BY <1>2, <1>3, <1>4, WrittenFiles DEF FilesTyped
<1>6. UNCHANGED <<current, versions, journal, lock, pc, pending>>
  BY DEF RestoreFile
<1>7. RootTyped'
  BY <1>4, <1>5, <1>6 DEF InstallInv, RootTyped, CatalogFits, FileNames, TransactionTyped, FilesTyped
<1>8. PreviousUsable'
  <2>1. Usable(journal.files)
    BY <1>1 DEF InstallInv, BaseWhole, BaseFiles
  <2>2. CASE f = "state"
    BY <1>5, <1>6, <2>1, <2>2 DEF PreviousUsable, Usable, FileNames
  <2>3. CASE f # "state"
    BY <1>5, <1>6, <2>3 DEF InstallInv, PreviousUsable, Usable, FileNames
  <2>. QED BY <2>2, <2>3
<1>9. RunsTyped' /\ LockHeld'
  <2>1. left' \in [Invocations -> 1..Len(Files) + 1]
    BY <1>2, FileFacts DEF InstallInv, RunsTyped, RestoreFile
  <2>. QED BY <2>1 DEF InstallInv, RunsTyped, LockHeld, RestoreFile
<1>10. RunsFit'
  <2>1. left'[p] = left[p] + 1 /\ \A q \in Invocations \ {p} : left'[q] = left[q]
    BY DEF InstallInv, RunsTyped, RestoreFile
  <2>2. \A i \in 1..5 : i < left'[p] => disk'[Files[i]] = journal'.files[Files[i]]
    <3>1. \A i \in 1..5 : Files[i] \in FileNames /\ (Files[i] = f => disk'[Files[i]] = v)
      BY <1>2, <1>5, FileFacts DEF FileNames
    <3>. QED BY <1>1, <1>2, <1>5, <1>6, <2>1, <3>1
  <2>3. (Prepares(p) /\ Restores(p) /\ Switches(p))'
    BY <1>1, <1>6, <2>2, FileFacts DEF Prepares, Restores, Switches, Preparing, Restoring, Restored,
       Switching, InTransaction
  <2>4. pc[p] # "idle"
    BY <1>1 DEF Restoring
  <2>. QED BY <1>6, <2>1, <2>3, <2>4, Alone, OneFits
<1>. QED BY <1>1, <1>6, <1>7, <1>8, <1>9, <1>10, BaseKept DEF InstallInv

\* The package link is written back; now everything agrees with the journal.
LEMMA RestoreLinkKeeps ==
    ASSUME InstallInv, NEW p \in Invocations, RestoreLink(p)
    PROVE  InstallInv'
<1>1. /\ pc[p] \in Restoring /\ journal # NoArg /\ pending[p] = journal
      /\ \A i \in 1..5 : i < left[p] => disk[Files[i]] = journal.files[Files[i]]
  BY FileFacts DEF InstallInv, RunsFit, Restores, RestoreLink, Restoring
<1>2. left[p] \in Int /\ left[p] > 5 /\ current' = journal.current /\ UNCHANGED <<disk, versions, journal, lock>>
  BY <1>1, FileFacts DEF InstallInv, RunsTyped, RestoreLink
<1>3. TransactionTyped(journal) /\ FilesTyped(disk)
  BY <1>1 DEF InstallInv, RootTyped
<1>4. disk = journal.files
  <2>1. \A i \in 1..Len(Files) : disk[Files[i]] = journal.files[Files[i]]
    BY <1>1, <1>2, FileFacts
  <2>. QED BY <1>3, <2>1, SameFiles DEF TransactionTyped
<1>5. RootTyped' /\ PreviousUsable'
  BY <1>2, <1>3 DEF InstallInv, RootTyped, CatalogFits, TransactionTyped, FilesTyped, PreviousUsable, Usable
<1>6. RunsTyped'
  BY FileFacts DEF InstallInv, RunsTyped, RestoreLink, Goto, At, Positions, Restored
<1>7. /\ pc'[p] \in Restored /\ left'[p] = 1 /\ pending' = pending
      /\ \A q \in Invocations \ {p} : pc'[q] = pc[q] /\ left'[q] = left[q]
  BY DEF InstallInv, RunsTyped, RestoreLink, Goto, At, Restored
<1>8. pc[p] # "idle"
  BY <1>1 DEF Restoring
<1>9. (Prepares(p) /\ Restores(p) /\ Switches(p))'
  BY <1>1, <1>2, <1>4, <1>7 DEF Prepares, Restores, Switches, Preparing, Restoring, Restored,
     Switching, InTransaction
<1>. QED BY <1>1, <1>2, <1>5, <1>6, <1>7, <1>8, <1>9, Alone, OneFits, LockKept, BaseKept
         DEF InstallInv

\* Dropping a journal whose content has been put back changes nothing.
LEMMA JournalDropped ==
    ASSUME InstallInv, NEW p \in Invocations, pc[p] \in Restored,
           journal' = NoArg, UNCHANGED <<disk, current, versions>>
    PROVE  RootTyped' /\ BaseWhole' /\ PreviousUsable'
<1>1. journal # NoArg /\ disk = journal.files /\ current = journal.current
  BY DEF InstallInv, RunsFit, Restores
<1>2. BaseFiles' = BaseFiles /\ BaseLink' = BaseLink
  BY <1>1 DEF BaseFiles, BaseLink
<1>3. BaseWhole'
  BY <1>2 DEF InstallInv, BaseWhole, Whole, Usable
<1>. QED BY <1>3 DEF InstallInv, RootTyped, FilesTyped, CatalogFits, PreviousUsable, Usable

\* Recovery removes the journal: what is installed is what the base was.
LEMMA RecoveredKeeps ==
    ASSUME InstallInv, NEW p \in Invocations, Recovered(p)
    PROVE  InstallInv'
<1>1. pc[p] = "recoverClear" /\ left[p] = 1 /\ pc[p] \in Restored
  BY DEF InstallInv, RunsFit, Restores, Restoring, Restored, Recovered, At
<1>2. RootTyped' /\ BaseWhole' /\ PreviousUsable'
  BY <1>1, JournalDropped DEF Recovered
<1>3. RunsTyped'
  BY DEF InstallInv, RunsTyped, Recovered, Goto, Positions, Preparing
<1>4. /\ pc'[p] = "load" /\ left' = left
      /\ \A q \in Invocations \ {p} : pc'[q] = pc[q]
  BY DEF InstallInv, RunsTyped, Recovered, Goto
<1>5. (Prepares(p) /\ Restores(p) /\ Switches(p))'
  BY <1>1, <1>4 DEF Recovered, Prepares, Restores, Switches, Preparing, Restoring, Restored,
     Switching, InTransaction
<1>6. LockHeld'
  BY <1>1, <1>4, LockKept DEF Recovered
<1>. QED BY <1>1, <1>2, <1>3, <1>4, <1>5, <1>6, Alone, OneFits DEF InstallInv

\* So does the except clause.
LEMMA UndoneKeeps ==
    ASSUME InstallInv, NEW p \in Invocations, Undone(p)
    PROVE  InstallInv'
<1>1. pc[p] # "idle" /\ pc[p] \in Restored
  BY DEF Restored, Undone, At
<1>2. RootTyped' /\ BaseWhole' /\ PreviousUsable'
  BY <1>1, JournalDropped DEF Undone
<1>3. RunsTyped' /\ LockHeld' /\ RunsFit'
  BY <1>1, ExitFits DEF Undone, InstallInv, RunsTyped
<1>. QED BY <1>2, <1>3 DEF InstallInv

\* A step of the switch fails and undoing begins.
LEMMA StepFailsKeeps ==
    ASSUME InstallInv, NEW p \in Invocations, StepFails(p)
    PROVE  InstallInv'
<1>1. pc[p] \in Switching /\ pc[p] # "idle" /\ left[p] = 1 /\ journal # NoArg /\ pending[p] = journal
  BY DEF InstallInv, RunsFit, Restores, Restoring, Switches, Switching, InTransaction, StepFails
<1>2. RootTyped' /\ BaseWhole' /\ PreviousUsable'
  BY WorldSame DEF StepFails
<1>3. RunsTyped'
  BY FaultTyped DEF InstallInv, RunsTyped, StepFails, Goto, locals, Positions, Restoring
<1>4. /\ pc'[p] = "undoFiles" /\ UNCHANGED <<left, pending, journal>>
      /\ \A q \in Invocations \ {p} : pc'[q] = pc[q]
  BY DEF InstallInv, RunsTyped, StepFails, Goto, locals, world
<1>5. (Prepares(p) /\ Restores(p) /\ Switches(p))'
  BY <1>1, <1>4, FileFacts DEF Prepares, Restores, Switches, Preparing, Restoring, Restored,
     Switching, InTransaction
<1>6. LockHeld'
  BY <1>1, <1>4, LockKept DEF StepFails
<1>. QED BY <1>1, <1>2, <1>3, <1>4, <1>5, <1>6, Alone, OneFits DEF InstallInv

-----------------------------------------------------------------------------
\* Before the transaction.
LEMMA LoadChooses ==
    ASSUME InstallInv, NEW p \in Invocations, Load(p)
    PROVE  /\ Choice(args[p], chosen[p], current, disk)'
           /\ Selected(p) \in Packages
           /\ UNCHANGED <<disk, current, journal, lock, args, pending, left, outcome, faults>>
           /\ versions' = versions \cup {Selected(p)}
           /\ journal = NoArg /\ pc[p] = "load"
<1>1. /\ journal = NoArg /\ pc[p] = "load" /\ args[p] \in Options
      /\ FilesTyped(disk) /\ current \in Packages \cup {NoArg} /\ versions \subseteq Packages
      /\ Whole(current, disk)
  BY DEF InstallInv, RunsFit, Prepares, Preparing, Load, At, RunsTyped, RootTyped, BaseWhole,
         BaseLink, BaseFiles
<1>2. /\ UNCHANGED <<disk, current, journal, lock, args, pending, left, outcome, faults>>
      /\ versions' = versions \cup {Selected(p)}
      /\ chosen'[p] = [package |-> Selected(p), config |-> Connection(p), previous |-> Previous(p)]
  BY DEF InstallInv, RunsTyped, Load
<1>3. /\ args[p].url \in Endpoints \cup {NoArg}
      /\ args[p].token \in Tokens \cup {NoArg}
      /\ args[p].action = "rollback" => args[p].url = NoArg /\ args[p].token = NoArg
      /\ args[p].action # "rollback" => args[p].package \in Packages
  BY <1>1 DEF Options
<1>4. disk["config"] \in Connections \cup {NoArg}
  BY <1>1, TypedFiles
<1>5. Selected(p) \in Packages
  BY <1>1, <1>3 DEF Load, Selected
<1>6. /\ disk["config"] # NoArg \/ args[p].url # NoArg
      /\ args[p].action = "rollback" => disk["state"] # NoArg
  BY <1>1, <1>3 DEF Load, Whole
<1>7. /\ Connection(p) \in Connections
      /\ Connection(p).url = IF args[p].url # NoArg THEN args[p].url ELSE disk["config"].url
      /\ Connection(p).own <=>
            args[p].token # NoArg \/ (disk["config"] # NoArg /\ disk["config"].own)
  <2>1. CASE disk["config"] # NoArg /\ args[p].url = NoArg /\ args[p].token = NoArg
    BY <2>1, <1>4 DEF Connection, Connections
  <2>2. CASE ~(disk["config"] # NoArg /\ args[p].url = NoArg /\ args[p].token = NoArg)
    <3> DEFINE u == IF args[p].url # NoArg THEN args[p].url ELSE disk["config"].url
               o == args[p].token # NoArg \/ (disk["config"] # NoArg /\ disk["config"].own)
    <3>1. Connection(p) = [url |-> u, own |-> o]
      BY <2>2 DEF Connection
    <3>2. u \in Endpoints
      BY <1>3, <1>4, <1>6 DEF Connections
    <3>3. o \in BOOLEAN
      BY Zenon
    <3> HIDE DEF u, o
    <3>4. [url |-> u, own |-> o] \in Connections
      BY <3>2, <3>3 DEF Connections
    <3>5. Connection(p) \in Connections /\ Connection(p).url = u /\ Connection(p).own = o
      BY <3>1, <3>4
    <3>6. Connection(p).own <=> o
      BY <3>3, <3>5
    <3>. QED BY <3>5, <3>6 DEF u, o
  <2>. QED BY <2>1, <2>2
<1>8. (disk["config"] # NoArg /\ args[p].url = NoArg /\ args[p].token = NoArg) =>
          Connection(p) = disk["config"]
  BY DEF Connection
<1>9. Previous(p) = IF current # Selected(p) THEN current ELSE disk["state"].previous
  BY <1>1, <1>5, NoArgAssumption DEF Previous, Whole
<1>10. /\ args[p].action = "rollback" => Selected(p) = disk["state"].previous
       /\ args[p].action # "rollback" => Selected(p) = args[p].package
  BY DEF Selected
<1>11. Choice(args[p], chosen[p], current, disk)'
  BY <1>2, <1>6, <1>7, <1>8, <1>9, <1>10 DEF Choice
<1>. QED BY <1>1, <1>2, <1>5, <1>11

\* Another version under versions/ disturbs nothing that is usable.
LEMMA VersionsGrow ==
    ASSUME InstallInv, NEW v \in Packages, versions' = versions \cup {v},
           UNCHANGED <<disk, current, journal>>
    PROVE  RootTyped' /\ BaseWhole' /\ PreviousUsable'
BY DEF InstallInv, RootTyped, FilesTyped, CatalogFits, TransactionTyped, BaseWhole, BaseLink,
       BaseFiles, Whole, PreviousUsable, Usable

\* The release is chosen, from what is installed.
LEMMA LoadKeeps ==
    ASSUME InstallInv, NEW p \in Invocations, Load(p)
    PROVE  InstallInv'
<1>1. RootTyped' /\ BaseWhole' /\ PreviousUsable'
  BY LoadChooses, VersionsGrow
<1>2. RunsTyped'
  BY DEF InstallInv, RunsTyped, Load, Goto, Positions, Preparing
<1>3. /\ pc'[p] = "snapshot" /\ left[p] = 1
      /\ \A q \in Invocations \ {p} : pc'[q] = pc[q]
  BY DEF InstallInv, RunsTyped, Load, Goto, RunsFit, Restores, Restoring, At
<1>4. (Prepares(p) /\ Restores(p) /\ Switches(p))'
  BY <1>3, LoadChooses DEF Prepares, Restores, Switches, Preparing, Restoring, Restored,
     Switching, InTransaction
<1>5. LockHeld'
  BY <1>3, LoadChooses, LockKept
<1>. QED BY <1>1, <1>2, <1>3, <1>4, <1>5, LoadChooses, Alone, OneFits DEF InstallInv

\* The transaction is a copy of what is installed.
LEMMA SnapshotKeeps ==
    ASSUME InstallInv, NEW p \in Invocations, Snapshot(p)
    PROVE  InstallInv'
<1>1. RootTyped' /\ BaseWhole' /\ PreviousUsable'
  BY WorldSame DEF Snapshot
<1>2. RunsTyped'
  BY DEF InstallInv, RunsTyped, Snapshot, Goto, Positions, Preparing
<1>3. /\ pc[p] = "snapshot" /\ pc'[p] = "journal" /\ left[p] = 1
      /\ journal = NoArg /\ Choice(args[p], chosen[p], current, disk)
      /\ pending'[p] = [current |-> current, files |-> disk]
      /\ UNCHANGED <<disk, current, versions, journal, args, chosen, left, lock>>
      /\ \A q \in Invocations \ {p} : pc'[q] = pc[q]
  BY DEF InstallInv, RunsTyped, Snapshot, Goto, RunsFit, Restores, Restoring, At, Prepares,
     Preparing, world
<1>4. (Prepares(p) /\ Restores(p) /\ Switches(p))'
  BY <1>3 DEF Prepares, Restores, Switches, Preparing, Restoring, Restored,
     Switching, InTransaction, Choice
<1>5. LockHeld'
  BY <1>3, LockKept
<1>. QED BY <1>1, <1>2, <1>3, <1>4, <1>5, Alone, OneFits DEF InstallInv

\* The journal is written: the base stays what it was, the journal now says so.
LEMMA WriteJournalKeeps ==
    ASSUME InstallInv, NEW p \in Invocations, WriteJournal(p)
    PROVE  InstallInv'
<1>1. /\ pc[p] = "journal" /\ pc'[p] = "credential" /\ left[p] = 1
      /\ journal = NoArg /\ Choice(args[p], chosen[p], current, disk)
      /\ pending[p] = [current |-> current, files |-> disk]
      /\ journal' = pending[p]
      /\ UNCHANGED <<disk, current, versions, args, chosen, left, lock, pending>>
      /\ \A q \in Invocations \ {p} : pc'[q] = pc[q]
  BY DEF InstallInv, RunsTyped, WriteJournal, Goto, RunsFit, Restores, Restoring, At, Prepares,
     Preparing
<1>2. TransactionTyped(journal')
  BY <1>1 DEF InstallInv, RootTyped, TransactionTyped
<1>3. journal' # NoArg /\ journal'.files = disk /\ journal'.current = current
  BY <1>1, <1>2, TransactionPresent
<1>4. RootTyped'
  BY <1>1, <1>2, <1>3 DEF InstallInv, RootTyped, FilesTyped, CatalogFits, TransactionTyped
<1>5. BaseWhole' /\ PreviousUsable'
  BY <1>1, <1>3 DEF InstallInv, BaseWhole, BaseLink, BaseFiles, Whole, PreviousUsable, Usable
<1>6. RunsTyped'
  BY DEF InstallInv, RunsTyped, WriteJournal, Goto, Positions, Switching, InTransaction
<1>7. Choice(args[p], chosen[p], journal.current, journal.files)'
  BY <1>1, <1>3 DEF Choice
<1>8. disk["host"].edits = journal'.files["host"].edits
  BY <1>3
<1>9. (Prepares(p) /\ Restores(p) /\ Switches(p))'
  BY <1>1, <1>3, <1>7, <1>8 DEF Prepares, Restores, Switches, Preparing, Restoring, Restored,
     Switching, InTransaction
<1>10. LockHeld'
  BY <1>1, LockKept
<1>. QED BY <1>1, <1>4, <1>5, <1>6, <1>9, <1>10, Alone, OneFits DEF InstallInv

-----------------------------------------------------------------------------
\* What every step of a transaction knows: the types of what it chose and found.
LEMMA SwitchFacts ==
    ASSUME InstallInv, NEW p \in Invocations, pc[p] \in Switching
    PROVE  /\ Switches(p) /\ left[p] = 1 /\ pc[p] # "idle"
           /\ journal # NoArg /\ pending[p] = journal
           /\ TransactionTyped(journal) /\ FilesTyped(disk)
           /\ Choice(args[p], chosen[p], journal.current, journal.files)
           /\ args[p].token \in Tokens \cup {NoArg}
           /\ chosen[p].package \in versions /\ chosen[p].package \in Packages
           /\ chosen[p].config \in Connections
           /\ \/ chosen[p].previous = NoArg
              \/ chosen[p].previous \in versions /\ chosen[p].previous # chosen[p].package
           /\ chosen[p].previous \in Packages \cup {NoArg}
<1>1. /\ Switches(p) /\ journal # NoArg /\ pending[p] = journal
      /\ Choice(args[p], chosen[p], journal.current, journal.files)
      /\ left[p] = 1 /\ pc[p] # "idle"
  BY DEF InstallInv, RunsFit, Switches, Restores, Restoring, Switching, InTransaction
<1>2. TransactionTyped(journal) /\ FilesTyped(disk) /\ versions \subseteq Packages
  BY <1>1 DEF InstallInv, RootTyped
<1>3. args[p].token \in Tokens \cup {NoArg}
  BY DEF InstallInv, RunsTyped, Options
<1>4. chosen[p].package \in versions /\ chosen[p].package \in Packages /\ chosen[p].config \in Connections
  BY <1>1, <1>2 DEF Choice
<1>5. /\ Whole(journal.current, journal.files) /\ Usable(journal.files)
      /\ journal.current # NoArg => journal.current \in versions
  BY <1>1 DEF InstallInv, BaseWhole, BaseLink, BaseFiles
<1>6. \/ chosen[p].previous = NoArg
      \/ chosen[p].previous \in versions /\ chosen[p].previous # chosen[p].package
  BY <1>1, <1>4, <1>5, NoArgAssumption DEF Choice, Whole, Usable
<1>. QED BY <1>1, <1>2, <1>3, <1>4, <1>6

\* The choice of a run does not depend on what it writes.
LEMMA ChoiceKept ==
    ASSUME NEW p \in Invocations, UNCHANGED <<journal, versions, args, chosen>>,
           Choice(args[p], chosen[p], journal.current, journal.files)
    PROVE  Choice(args[p], chosen[p], journal.current, journal.files)'
BY DEF Choice

\* A step of a transaction that leaves the journal alone keeps everything once the
\* root is still typed, the record usable, and the step fits its new position.
LEMMA SwitchStep ==
    ASSUME InstallInv, NEW p \in Invocations, pc[p] \in Switching,
           NEW next \in Switching, Goto(p, next),
           UNCHANGED <<versions, journal, lock, locals, outcome, faults>>,
           RootTyped', PreviousUsable', Switches(p)'
    PROVE  InstallInv'
<1>1. /\ pc'[p] = next /\ \A q \in Invocations \ {p} : pc'[q] = pc[q]
      /\ UNCHANGED <<journal, versions, left, lock>>
  BY DEF InstallInv, RunsTyped, Goto, locals
<1>2. RunsTyped'
  BY DEF InstallInv, RunsTyped, Goto, locals, Positions
<1>3. Prepares(p)' /\ Restores(p)'
  BY <1>1, SwitchFacts DEF Prepares, Restores, Preparing, Restoring, Restored, Switching, InTransaction
<1>4. LockHeld' /\ BaseWhole'
  BY <1>1, SwitchFacts, LockKept, BaseKept
<1>5. RunsFit'
  BY <1>1, <1>3, SwitchFacts, Alone, OneFits
<1>. QED BY <1>2, <1>4, <1>5 DEF InstallInv

\* Such a step writes at most one file, of the right type.
LEMMA FileWritten ==
    ASSUME InstallInv, NEW f \in FileNames, NEW v \in Contents[f], Write(f, v),
           f = "catalog" /\ Client = "opencode" => v = NoArg,
           UNCHANGED <<current, versions, journal>>
    PROVE  /\ RootTyped'
           /\ \A g \in FileNames : disk'[g] = IF g = f THEN v ELSE disk[g]
           /\ f # "state" => PreviousUsable'
<1>1. FilesTyped(disk) /\ disk' = [disk EXCEPT ![f] = v]
  BY DEF InstallInv, RootTyped, Write
<1>2. FilesTyped(disk') /\ \A g \in FileNames : disk'[g] = IF g = f THEN v ELSE disk[g]
  BY <1>1, WrittenFiles DEF FilesTyped
<1>3. RootTyped'
  BY <1>2 DEF InstallInv, RootTyped, CatalogFits, FileNames, TransactionTyped, FilesTyped
<1>4. f # "state" => PreviousUsable'
  BY <1>2 DEF InstallInv, PreviousUsable, Usable, FileNames
<1>. QED BY <1>2, <1>3, <1>4

\* So does a step that writes no file and leaves the link alone.
LEMMA NothingWritten ==
    ASSUME InstallInv, UNCHANGED <<disk, current, versions, journal>>
    PROVE  RootTyped' /\ PreviousUsable'
BY WorldSame DEF world

\* One lemma for each write of the switch, which the journal covers.
LEMMA CredentialKeeps ==
    ASSUME InstallInv, NEW p \in Invocations, Credential(p)
    PROVE  InstallInv'
<1>1. pc[p] = "credential" /\ pc[p] \in Switching /\ "config" \in Switching
  BY DEF Credential, At, Switching, InTransaction
<1>2. Goto(p, "config") /\ UNCHANGED <<current, versions, journal, lock, locals, outcome, faults>>
  BY DEF Credential
<1>3. pc'[p] = "config" /\ UNCHANGED <<args, pending, chosen>>
  BY <1>2 DEF InstallInv, RunsTyped, Goto, locals
<1>4. CASE args[p].token # NoArg
  <2>1. Write("credential", args[p].token) /\ args[p].token \in Contents["credential"]
    BY <1>1, <1>4, SwitchFacts DEF Credential, Contents
  <2>2. /\ RootTyped' /\ PreviousUsable'
        /\ \A g \in FileNames : disk'[g] = IF g = "credential" THEN args[p].token ELSE disk[g]
    BY <1>2, <2>1, FileWritten DEF FileNames
  <2>3. Switches(p)'
    <3>1. /\ disk'["credential"] = args[p].token /\ disk'["config"] = disk["config"]
          /\ disk'["state"] = disk["state"] /\ disk'["host"] = disk["host"]
          /\ disk'["catalog"] = disk["catalog"]
      BY <2>2 DEF FileNames
    <3>. QED BY <1>1, <1>2, <1>3, <1>4, <3>1, SwitchFacts, ChoiceKept DEF Switches
  <2>. QED BY <1>1, <1>2, <2>2, <2>3, SwitchStep
<1>5. CASE args[p].token = NoArg
  <2>1. UNCHANGED disk
    BY <1>5 DEF Credential
  <2>2. Switches(p)'
    BY <1>1, <1>2, <1>3, <1>5, <2>1, SwitchFacts DEF Switches, Choice
  <2>. QED BY <1>1, <1>2, <2>1, <2>2, NothingWritten, SwitchStep
<1>. QED BY <1>4, <1>5

LEMMA ConfigKeeps ==
    ASSUME InstallInv, NEW p \in Invocations, Config(p)
    PROVE  InstallInv'
<1>1. pc[p] = "config" /\ pc[p] \in Switching /\ "select" \in Switching
  BY DEF Config, At, Switching, InTransaction
<1>2. Goto(p, "select") /\ UNCHANGED <<current, versions, journal, lock, locals, outcome, faults>>
  BY DEF Config
<1>3. pc'[p] = "select" /\ UNCHANGED <<args, pending, chosen>>
  BY <1>2 DEF InstallInv, RunsTyped, Goto, locals
<1>4. CASE disk["config"] = NoArg \/ args[p].url # NoArg \/ args[p].token # NoArg
  <2>1. Write("config", chosen[p].config) /\ chosen[p].config \in Contents["config"]
    BY <1>1, <1>4, SwitchFacts DEF Config, Contents
  <2>2. /\ RootTyped' /\ PreviousUsable'
        /\ \A g \in FileNames : disk'[g] = IF g = "config" THEN chosen[p].config ELSE disk[g]
    BY <1>2, <2>1, FileWritten DEF FileNames
  <2>3. Switches(p)'
    <3>1. /\ disk'["config"] = chosen[p].config /\ disk'["credential"] = disk["credential"]
          /\ disk'["state"] = disk["state"] /\ disk'["host"] = disk["host"]
          /\ disk'["catalog"] = disk["catalog"]
      BY <2>2 DEF FileNames
    <3>. QED BY <1>1, <1>2, <1>3, <3>1, SwitchFacts, ChoiceKept DEF Switches
  <2>. QED BY <1>1, <1>2, <2>2, <2>3, SwitchStep
<1>5. CASE ~(disk["config"] = NoArg \/ args[p].url # NoArg \/ args[p].token # NoArg)
  <2>1. UNCHANGED disk
    BY <1>5 DEF Config
  <2>2. disk["config"] = chosen[p].config
    BY <1>1, <1>5, SwitchFacts DEF Switches, Choice
  <2>3. Switches(p)'
    BY <1>1, <1>2, <1>3, <1>5, <2>1, <2>2, SwitchFacts DEF Switches, Choice
  <2>. QED BY <1>1, <1>2, <2>1, <2>3, NothingWritten, SwitchStep
<1>. QED BY <1>4, <1>5

LEMMA SelectKeeps ==
    ASSUME InstallInv, NEW p \in Invocations, Select(p)
    PROVE  InstallInv'
<1> DEFINE next == IF Client = "codex" THEN "truncate" ELSE "hook"
<1>1. pc[p] = "select" /\ pc[p] \in Switching /\ next \in Switching
  BY DEF Select, At, Switching, InTransaction
<1>2. /\ Goto(p, next) /\ current' = chosen[p].package
      /\ UNCHANGED <<disk, versions, journal, lock, locals, outcome, faults>>
  BY DEF Select
<1>3. pc'[p] = next /\ UNCHANGED <<args, pending, chosen>>
  BY <1>2 DEF InstallInv, RunsTyped, Goto, locals
<1>4. RootTyped' /\ PreviousUsable'
  BY <1>1, <1>2, SwitchFacts DEF InstallInv, RootTyped, FilesTyped, CatalogFits, TransactionTyped,
     PreviousUsable, Usable
<1>5. Switches(p)'
  BY <1>1, <1>2, <1>3, SwitchFacts, ClientAssumption DEF Switches, Choice
<1>. QED BY <1>1, <1>2, <1>4, <1>5, SwitchStep

-----------------------------------------------------------------------------
\* The registration of Codex and the last steps of both clients.
LEMMA TruncateCatalogKeeps ==
    ASSUME InstallInv, NEW p \in Invocations, TruncateCatalog(p)
    PROVE  InstallInv'
<1>1. pc[p] = "truncate" /\ pc[p] \in Switching /\ "catalog" \in Switching
  BY DEF TruncateCatalog, At, Switching, InTransaction
<1>2. Goto(p, "catalog") /\ UNCHANGED <<current, versions, journal, lock, locals, outcome, faults>>
  BY DEF TruncateCatalog
<1>3. pc'[p] = "catalog" /\ UNCHANGED <<args, pending, chosen>>
  BY <1>2 DEF InstallInv, RunsTyped, Goto, locals
<1>4. Client = "codex"
  BY <1>1, SwitchFacts DEF Switches
<1>5. Write("catalog", "empty") /\ "empty" \in Contents["catalog"] /\ "catalog" \in FileNames
  BY DEF TruncateCatalog, Contents, FileNames
<1>6. /\ RootTyped' /\ PreviousUsable'
      /\ \A g \in FileNames : disk'[g] = IF g = "catalog" THEN "empty" ELSE disk[g]
  BY <1>2, <1>4, <1>5, FileWritten
<1>7. Switches(p)'
  <2>1. /\ disk'["config"] = disk["config"] /\ disk'["credential"] = disk["credential"]
        /\ disk'["state"] = disk["state"] /\ disk'["host"] = disk["host"]
        /\ disk'["catalog"] = "empty"
    BY <1>6 DEF FileNames
  <2>. QED BY <1>1, <1>2, <1>3, <1>4, <2>1, SwitchFacts, ChoiceKept DEF Switches
<1>. QED BY <1>1, <1>2, <1>6, <1>7, SwitchStep

LEMMA WriteCatalogKeeps ==
    ASSUME InstallInv, NEW p \in Invocations, WriteCatalog(p)
    PROVE  InstallInv'
<1>1. pc[p] = "catalog" /\ pc[p] \in Switching /\ "plugin" \in Switching
  BY DEF WriteCatalog, At, Switching, InTransaction
<1>2. Goto(p, "plugin") /\ UNCHANGED <<current, versions, journal, lock, locals, outcome, faults>>
  BY DEF WriteCatalog
<1>3. pc'[p] = "plugin" /\ UNCHANGED <<args, pending, chosen>>
  BY <1>2 DEF InstallInv, RunsTyped, Goto, locals
<1>4. Client = "codex"
  BY <1>1, SwitchFacts DEF Switches
<1>5. Write("catalog", "complete") /\ "complete" \in Contents["catalog"] /\ "catalog" \in FileNames
  BY DEF WriteCatalog, Contents, FileNames
<1>6. /\ RootTyped' /\ PreviousUsable'
      /\ \A g \in FileNames : disk'[g] = IF g = "catalog" THEN "complete" ELSE disk[g]
  BY <1>2, <1>4, <1>5, FileWritten
<1>7. Switches(p)'
  <2>1. /\ disk'["config"] = disk["config"] /\ disk'["credential"] = disk["credential"]
        /\ disk'["state"] = disk["state"] /\ disk'["host"] = disk["host"]
        /\ disk'["catalog"] = "complete"
    BY <1>6 DEF FileNames
  <2>. QED BY <1>1, <1>2, <1>3, <1>4, <2>1, SwitchFacts, ChoiceKept DEF Switches
<1>. QED BY <1>1, <1>2, <1>6, <1>7, SwitchStep

LEMMA AddPluginKeeps ==
    ASSUME InstallInv, NEW p \in Invocations, AddPlugin(p)
    PROVE  InstallInv'
<1>1. pc[p] = "plugin" /\ pc[p] \in Switching /\ "hook" \in Switching
  BY DEF AddPlugin, At, Switching, InTransaction
<1>2. Goto(p, "hook") /\ UNCHANGED <<current, versions, journal, lock, locals, outcome, faults>>
  BY DEF AddPlugin
<1>3. pc'[p] = "hook" /\ UNCHANGED <<args, pending, chosen>>
  BY <1>2 DEF InstallInv, RunsTyped, Goto, locals
<1>4. PICK v \in Hosts :
          /\ Write("host", v) /\ v.edits = disk["host"].edits
          /\ v.plugin = IF disk["host"].plugin = "none" THEN "added" ELSE disk["host"].plugin
  <2>1. disk["host"] \in Hosts
    BY <1>1, SwitchFacts, TypedFiles
  <2>. QED BY <2>1 DEF AddPlugin, Hosts
<1>5. v \in Contents["host"] /\ "host" \in FileNames
  BY DEF Contents, FileNames
<1>6. /\ RootTyped' /\ PreviousUsable'
      /\ \A g \in FileNames : disk'[g] = IF g = "host" THEN v ELSE disk[g]
  BY <1>2, <1>4, <1>5, FileWritten
<1>7. Switches(p)'
  <2>1. /\ disk'["config"] = disk["config"] /\ disk'["credential"] = disk["credential"]
        /\ disk'["state"] = disk["state"] /\ disk'["host"] = v
        /\ disk'["catalog"] = disk["catalog"]
    BY <1>6 DEF FileNames
  <2>. QED BY <1>1, <1>2, <1>3, <1>4, <2>1, SwitchFacts, ChoiceKept DEF Switches
<1>. QED BY <1>1, <1>2, <1>6, <1>7, SwitchStep

LEMMA HookKeeps ==
    ASSUME InstallInv, NEW p \in Invocations, Hook(p)
    PROVE  InstallInv'
<1>1. pc[p] = "hook" /\ pc[p] \in Switching /\ "state" \in Switching
  BY DEF Hook, At, Switching, InTransaction
<1>2. Goto(p, "state") /\ UNCHANGED <<current, versions, journal, lock, locals, outcome, faults>>
  BY DEF Hook
<1>3. pc'[p] = "state" /\ UNCHANGED <<args, pending, chosen>>
  BY <1>2 DEF InstallInv, RunsTyped, Goto, locals
<1>4. PICK v \in Hosts :
          /\ Write("host", v) /\ v.edits = disk["host"].edits
          /\ v.plugin = "hooked"
  <2>1. disk["host"] \in Hosts
    BY <1>1, SwitchFacts, TypedFiles
  <2>. QED BY <2>1 DEF Hook, Hosts
<1>5. v \in Contents["host"] /\ "host" \in FileNames
  BY DEF Contents, FileNames
<1>6. /\ RootTyped' /\ PreviousUsable'
      /\ \A g \in FileNames : disk'[g] = IF g = "host" THEN v ELSE disk[g]
  BY <1>2, <1>4, <1>5, FileWritten
<1>7. Switches(p)'
  <2>1. /\ disk'["config"] = disk["config"] /\ disk'["credential"] = disk["credential"]
        /\ disk'["state"] = disk["state"] /\ disk'["host"] = v
        /\ disk'["catalog"] = disk["catalog"]
    BY <1>6 DEF FileNames
  <2>. QED BY <1>1, <1>2, <1>3, <1>4, <2>1, SwitchFacts, ChoiceKept DEF Switches
<1>. QED BY <1>1, <1>2, <1>6, <1>7, SwitchStep

LEMMA RecordKeeps ==
    ASSUME InstallInv, NEW p \in Invocations, Record(p)
    PROVE  InstallInv'
<1>1. pc[p] = "state" /\ pc[p] \in Switching /\ "commit" \in Switching
  BY DEF Record, At, Switching, InTransaction
<1>2. Goto(p, "commit") /\ UNCHANGED <<current, versions, journal, lock, locals, outcome, faults>>
  BY DEF Record
<1>3. pc'[p] = "commit" /\ UNCHANGED <<args, pending, chosen>>
  BY <1>2 DEF InstallInv, RunsTyped, Goto, locals
<1> DEFINE r == [current |-> chosen[p].package, previous |-> chosen[p].previous]
<1>4. Write("state", r) /\ r \in Contents["state"] /\ "state" \in FileNames
  BY <1>1, SwitchFacts DEF Record, Contents, FileNames
<1>5. /\ RootTyped'
      /\ \A g \in FileNames : disk'[g] = IF g = "state" THEN r ELSE disk[g]
  BY <1>2, <1>4, FileWritten
<1>6. /\ disk'["config"] = disk["config"] /\ disk'["credential"] = disk["credential"]
      /\ disk'["state"] = r /\ disk'["host"] = disk["host"]
      /\ disk'["catalog"] = disk["catalog"]
  BY <1>5 DEF FileNames
<1>7. PreviousUsable'
  BY <1>1, <1>2, <1>6, SwitchFacts DEF PreviousUsable, Usable
<1>8. Switches(p)'
  BY <1>1, <1>2, <1>3, <1>6, SwitchFacts, ChoiceKept DEF Switches
<1>. QED BY <1>1, <1>2, <1>5, <1>7, <1>8, SwitchStep

\* At the commit point the switch is whole: this is what the journal is dropped for.
LEMMA CommitWhole ==
    ASSUME InstallInv, NEW p \in Invocations, pc[p] = "commit"
    PROVE  /\ Whole(current, disk) /\ current \in versions /\ journal # NoArg
<1>1. pc[p] \in Switching
  BY DEF Switching
<1>2. /\ disk["state"] = [current |-> chosen[p].package, previous |-> chosen[p].previous]
      /\ current = chosen[p].package /\ disk["config"] = chosen[p].config
      /\ disk["host"].plugin = "hooked"
      /\ Client = "codex" => disk["catalog"] = "complete"
      /\ disk["credential"] = IF args[p].token # NoArg THEN args[p].token
                              ELSE journal.files["credential"]
  BY <1>1, SwitchFacts DEF Switches
<1>3. disk["state"] # NoArg
  <2>1. disk["state"] \in [current : Packages, previous : Packages \cup {NoArg}]
    BY <1>1, <1>2, SwitchFacts
  <2>. QED BY <2>1, NoArgAssumption
<1>4. disk["config"] # NoArg
  BY <1>1, <1>2, SwitchFacts, NoArgAssumption
<1>5. disk["config"].own => disk["credential"] # NoArg
  <2>1. chosen[p].config.own =>
          args[p].token # NoArg \/ (journal.files["config"] # NoArg /\ journal.files["config"].own)
    BY <1>1, SwitchFacts DEF Choice
  <2>2. journal.files["config"] # NoArg /\ journal.files["config"].own =>
          journal.files["credential"] # NoArg
    BY <1>1, SwitchFacts DEF InstallInv, BaseWhole, BaseLink, BaseFiles, Whole
  <2>. QED BY <1>2, <2>1, <2>2
<1>6. disk["state"].current = current
  BY <1>2
<1>7. Whole(current, disk)
  BY <1>2, <1>3, <1>4, <1>5, <1>6 DEF Whole
<1>. QED BY <1>1, <1>2, <1>7, SwitchFacts

\* The journal is removed: the base becomes what the switch has written.
LEMMA CompleteKeeps ==
    ASSUME InstallInv, NEW p \in Invocations, Complete(p)
    PROVE  InstallInv'
<1>1. pc[p] = "commit" /\ journal' = NoArg /\ UNCHANGED <<disk, current, versions, faults>>
  BY DEF Complete, At
<1>2. Whole(current, disk) /\ current \in versions
  BY <1>1, CommitWhole
<1>3. RootTyped' /\ BaseWhole' /\ PreviousUsable'
  BY <1>1, <1>2 DEF InstallInv, RootTyped, FilesTyped, CatalogFits, BaseWhole, BaseLink, BaseFiles,
     Whole, PreviousUsable, Usable
<1>4. RunsTyped' /\ LockHeld' /\ RunsFit'
  BY <1>1, ExitFits DEF Complete, InstallInv, RunsTyped
<1>. QED BY <1>3, <1>4 DEF InstallInv

\* The user edits the host configuration.
LEMMA EditHostKeeps ==
    ASSUME InstallInv, EditHost
    PROVE  InstallInv'
<1> DEFINE v == [disk["host"] EXCEPT !.edits = @ + 1]
<1>1. /\ Write("host", v) /\ disk["host"] \in Hosts /\ disk["host"].edits < MaxEdits
      /\ UNCHANGED <<current, versions, journal, lock, pc, locals, outcome, faults>>
  BY TypedFiles DEF EditHost, InstallInv, RootTyped
<1>2. v \in Contents["host"] /\ v.plugin = disk["host"].plugin
  BY <1>1, BoundsAssumption DEF Contents, Hosts
<1> HIDE DEF v
<1>3. /\ RootTyped' /\ PreviousUsable'
      /\ \A g \in FileNames : disk'[g] = IF g = "host" THEN v ELSE disk[g]
  BY <1>1, <1>2, FileWritten DEF FileNames
<1>4. /\ disk'["config"] = disk["config"] /\ disk'["credential"] = disk["credential"]
      /\ disk'["state"] = disk["state"] /\ disk'["host"].plugin = disk["host"].plugin
      /\ disk'["catalog"] = disk["catalog"]
  BY <1>2, <1>3 DEF FileNames
<1>5. BaseWhole'
  BY <1>1, <1>4 DEF InstallInv, BaseWhole, BaseLink, BaseFiles, Whole, Usable
<1>6. RunsTyped' /\ LockHeld'
  BY <1>1 DEF InstallInv, RunsTyped, LockHeld, locals
<1>7. \A q \in Invocations : pc'[q] = "idle" /\ left'[q] = 1
  BY <1>1, NoArgAssumption DEF EditHost, InstallInv, LockHeld, RunsFit, Restores, Restoring, locals
<1>8. RunsFit'
  BY <1>7, IdleFits DEF RunsFit
<1>. QED BY <1>3, <1>5, <1>6, <1>8 DEF InstallInv

\* Nothing changes.
LEMMA StutterKeeps ==
    ASSUME InstallInv, UNCHANGED vars
    PROVE  InstallInv'
<1>1. RootTyped' /\ BaseWhole' /\ PreviousUsable'
  BY WorldSame DEF vars
<1>2. RunsTyped' /\ LockHeld'
  BY DEF InstallInv, RunsTyped, LockHeld, vars, locals
<1>3. RunsFit'
  BY DEF InstallInv, RunsFit, Prepares, Restores, Switches, Choice, vars, locals, world
<1>. QED BY <1>1, <1>2, <1>3 DEF InstallInv

-----------------------------------------------------------------------------
LEMMA NextKeeps == InstallInv /\ [Next]_vars => InstallInv'
<1> SUFFICES ASSUME InstallInv, [Next]_vars
             PROVE  InstallInv'
  OBVIOUS
<1>1. ASSUME NEW p \in Invocations, Work(p)
      PROVE  InstallInv'
  BY <1>1, ReadJournalKeeps, RestoreFileKeeps, RestoreLinkKeeps, RecoveredKeeps, LoadKeeps,
     EndsKeep, SnapshotKeeps, WriteJournalKeeps, CredentialKeeps, ConfigKeeps, SelectKeeps,
     TruncateCatalogKeeps, WriteCatalogKeeps, AddPluginKeeps, HookKeeps, RecordKeeps,
     CompleteKeeps, UndoneKeeps DEF Work
<1>2. ASSUME NEW p \in Invocations, Start(p) \/ StepFails(p) \/ OtherFails(p) \/ Crash(p)
      PROVE  InstallInv'
  BY <1>2, StartKeeps, StepFailsKeeps, EndsKeep
<1>. QED BY <1>1, <1>2, EditHostKeeps, StutterKeeps DEF Next

\* The inductive invariant holds at every step of every run of the installer,
\* whatever is killed or fails (run_transaction, recover, main).
THEOREM InstallInvTheorem == Spec => []InstallInv
<1>. QED BY InitHolds, NextKeeps, PTL DEF Spec

\* With no transaction open the installation is whole: run_transaction drops the
\* journal only when record, link, connection, credential and host agree.
THEOREM SettledTheorem == Spec => []Settled
<1>1. InstallInv => Settled
  BY DEF InstallInv, BaseWhole, BaseLink, BaseFiles, Settled
<1>. QED BY <1>1, InstallInvTheorem, PTL

\* The release to roll back to is another one than the selected one and still
\* under versions/, in every state of a switch (select_package, rollback).
THEOREM PreviousUsableTheorem == Spec => []PreviousUsable
<1>1. InstallInv => PreviousUsable
  BY DEF InstallInv
<1>. QED BY <1>1, InstallInvTheorem, PTL

\* Files, link, journal and options keep their types.
THEOREM TypeOKTheorem == Spec => []TypeOK
<1>1. InstallInv => TypeOK
  BY DEF InstallInv, RootTyped, RunsTyped, TransactionTyped, TypeOK
<1>. QED BY <1>1, InstallInvTheorem, PTL

-----------------------------------------------------------------------------
(***************************************************************************)
(* The refinement.  Inst is the installation as AtomicInstall sees it.     *)
(***************************************************************************)
Inst == IF journal = NoArg THEN View(current, disk) ELSE View(journal.current, journal.files)

\* Most steps are stuttering: before the journal is written they touch no file, and
\* while it exists they change only what the view does not show.
LEMMA RootAlone ==
    ASSUME UNCHANGED <<disk, current, journal>>
    PROVE  UNCHANGED Inst
BY DEF Inst, View

\* While a switch is under way or undone the journal holds the base.
LEMMA JournalOpen ==
    ASSUME journal # NoArg, UNCHANGED journal
    PROVE  UNCHANGED Inst
BY DEF Inst, View

\* Undoing does not change the installation that AtomicInstall sees.
LEMMA UndoingStutters ==
    ASSUME InstallInv, NEW p \in Invocations,
           RestoreFile(p) \/ RestoreLink(p) \/ Recovered(p) \/ Undone(p)
    PROVE  UNCHANGED Inst
<1>1. CASE RestoreFile(p) \/ RestoreLink(p)
  <2>1. journal # NoArg /\ UNCHANGED journal
    BY <1>1 DEF InstallInv, RunsFit, Restores, Restoring, RestoreFile, RestoreLink
  <2>. QED BY <2>1, JournalOpen
<1>2. CASE Recovered(p) \/ Undone(p)
  <2>1. /\ journal # NoArg /\ disk = journal.files /\ current = journal.current
        /\ journal' = NoArg /\ UNCHANGED <<disk, current>>
    BY <1>2 DEF InstallInv, RunsFit, Restores, Restored, Recovered, Undone, At
  <2>. QED BY <2>1 DEF Inst, View
<1>. QED BY <1>1, <1>2

\* Nor does a write of the switch.
LEMMA SwitchingStutters ==
    ASSUME InstallInv, NEW p \in Invocations,
           \/ Credential(p) \/ Config(p) \/ Select(p) \/ TruncateCatalog(p) \/ WriteCatalog(p)
           \/ AddPlugin(p) \/ Hook(p) \/ Record(p) \/ StepFails(p)
    PROVE  UNCHANGED Inst
<1>1. pc[p] \in Switching /\ UNCHANGED journal
  BY DEF Switching, InTransaction, Credential, Config, Select, TruncateCatalog, WriteCatalog,
     AddPlugin, Hook, Record, StepFails, At, world
<1>. QED BY <1>1, SwitchFacts, JournalOpen

\* Nor do the steps before the journal is written.
LEMMA PreparingStutters ==
    ASSUME InstallInv, NEW p \in Invocations,
           \/ Start(p) \/ ReadJournal(p) \/ Load(p) \/ Refuse(p) \/ Snapshot(p) \/ WriteJournal(p)
           \/ OtherFails(p) \/ Crash(p)
    PROVE  UNCHANGED Inst
<1>1. CASE WriteJournal(p)
  <2>1. /\ pending[p] = [current |-> current, files |-> disk] /\ journal = NoArg
        /\ journal' = pending[p] /\ UNCHANGED <<disk, current>>
    BY <1>1 DEF InstallInv, RunsFit, Prepares, Preparing, WriteJournal, At
  <2>2. TransactionTyped(journal')
    BY <2>1 DEF InstallInv, RootTyped, TransactionTyped
  <2>3. journal' # NoArg /\ journal'.files = disk /\ journal'.current = current
    BY <2>1, <2>2, TransactionPresent
  <2>. QED BY <2>1, <2>3 DEF Inst, View
<1>2. CASE ~WriteJournal(p)
  <2>1. UNCHANGED <<disk, current, journal>>
    BY <1>2 DEF Start, ReadJournal, Load, Refuse, Snapshot, OtherFails, Crash, world
  <2>. QED BY <2>1, RootAlone
<1>. QED BY <1>1, <1>2

\* The commit: the view changes as by one installation or one rollback.
LEMMA CompleteSwitches ==
    ASSUME InstallInv, NEW p \in Invocations, Complete(p)
    PROVE  Atomic!Next
<1> DEFINE old == journal.files
           a == args[p]
           c == chosen[p]
           registered == [h \in Hosts |-> [h EXCEPT !.plugin = "hooked"]]
           catalog == IF Client = "codex" THEN "complete" ELSE NoArg
<1>1. pc[p] = "commit" /\ pc[p] \in Switching /\ journal' = NoArg /\ UNCHANGED <<disk, current>>
  BY DEF Complete, At, Switching
<1>2. Inst = View(journal.current, old) /\ Inst' = View(current, disk) /\ journal # NoArg
  BY <1>1, CommitWhole DEF Inst, View
<1>3. /\ disk["credential"] = IF a.token # NoArg THEN a.token ELSE old["credential"]
      /\ disk["config"] = c.config /\ current = c.package
      /\ disk["state"] = [current |-> c.package, previous |-> c.previous]
      /\ disk["host"].edits = old["host"].edits /\ disk["host"].plugin = "hooked"
      /\ Client = "codex" => disk["catalog"] = "complete"
      /\ Choice(a, c, journal.current, old)
  BY <1>1, SwitchFacts DEF Switches
<1>4. /\ a \in Options /\ FilesTyped(disk) /\ FilesTyped(old)
      /\ CatalogFits(disk) /\ CatalogFits(old)
      /\ Whole(journal.current, old) /\ Usable(old)
  BY <1>2 DEF InstallInv, RunsTyped, RootTyped, TransactionTyped, BaseWhole, BaseLink, BaseFiles
<1>5. disk["host"] = registered[old["host"]] /\ old["host"] \in Hosts
  <2>1. disk["host"] \in Hosts /\ old["host"] \in Hosts
    BY <1>4, TypedFiles
  <2>2. registered[old["host"]] = [old["host"] EXCEPT !.plugin = "hooked"]
    BY <2>1
  <2>. QED BY <1>3, <2>1, <2>2 DEF Hosts
<1>6. disk["catalog"] = catalog
  BY <1>3, <1>4, ClientAssumption DEF CatalogFits
<1>7. c.config \in Connections /\ old["config"] \in Connections \cup {NoArg}
  BY <1>3, <1>4, TypedFiles DEF Choice
<1>8. CASE a.action = "rollback"
  <2>1. /\ old["state"] # NoArg /\ c.package = old["state"].previous
        /\ a.url = NoArg /\ a.token = NoArg
    BY <1>3, <1>4, <1>8 DEF Choice, Options
  <2>2. c.package \in Packages /\ c.package # NoArg
    BY <1>1, SwitchFacts, NoArgAssumption
  <2>3. /\ c.previous = journal.current /\ old["config"] # NoArg
        /\ old["host"].plugin = "hooked"
        /\ Client = "codex" => old["catalog"] = "complete"
    BY <1>3, <1>4, <2>1, <2>2 DEF Whole, Usable, Choice
  <2>4. /\ disk["config"] = old["config"] /\ disk["credential"] = old["credential"]
        /\ disk["catalog"] = old["catalog"]
    BY <1>3, <1>4, <1>6, <2>1, <2>3, ClientAssumption DEF Choice, CatalogFits
  <2>5. disk["host"] = old["host"]
    <3>1. disk["host"] \in Hosts
      BY <1>4, TypedFiles
    <3>. QED BY <1>3, <1>5, <2>3, <3>1 DEF Hosts
  <2>6. disk["state"] = [current |-> old["state"].previous, previous |-> journal.current]
    BY <1>3, <2>1, <2>3
  <2>7. Inst' = [Inst EXCEPT !.current = old["state"].previous,
                             !.state = [current |-> old["state"].previous,
                                        previous |-> journal.current]]
    <3> DEFINE new == [current |-> old["state"].previous, previous |-> journal.current]
    <3>1. Inst' = [current |-> old["state"].previous, config |-> old["config"],
                   credential |-> old["credential"], state |-> new,
                   host |-> old["host"], catalog |-> old["catalog"]]
      BY <1>2, <1>3, <2>1, <2>4, <2>5, <2>6, Zenon DEF View
    <3>2. Inst = [current |-> journal.current, config |-> old["config"],
                  credential |-> old["credential"], state |-> old["state"],
                  host |-> old["host"], catalog |-> old["catalog"]]
      BY <1>2, Zenon DEF View
    <3> HIDE DEF new
    <3>3. [Inst EXCEPT !.current = old["state"].previous, !.state = new] =
            [current |-> old["state"].previous, config |-> old["config"],
             credential |-> old["credential"], state |-> new,
             host |-> old["host"], catalog |-> old["catalog"]]
      <4> DEFINE q == [current |-> old["state"].previous, config |-> old["config"],
                       credential |-> old["credential"], state |-> old["state"],
                       host |-> old["host"], catalog |-> old["catalog"]]
      <4>1. [Inst EXCEPT !.current = old["state"].previous] = q
        BY <3>2
      <4>2. [Inst EXCEPT !.current = old["state"].previous, !.state = new] = [q EXCEPT !.state = new]
        BY <4>1, Zenon
      <4>3. [q EXCEPT !.state = new] =
              [current |-> old["state"].previous, config |-> old["config"],
               credential |-> old["credential"], state |-> new,
               host |-> old["host"], catalog |-> old["catalog"]]
        OBVIOUS
      <4>. QED BY <4>2, <4>3, Zenon
    <3>4. Inst' = [Inst EXCEPT !.current = old["state"].previous, !.state = new]
      BY <3>1, <3>3, Zenon
    <3>. QED BY <3>4 DEF new
  <2>8. /\ Inst.state = old["state"] /\ Inst.current = journal.current
        /\ Inst.state # NoArg /\ Inst.state.previous # NoArg
    BY <1>2, <2>1, <2>2 DEF View
  <2>9. Inst' = [Inst EXCEPT !.current = Inst.state.previous,
                             !.state = [current |-> Inst.state.previous,
                                        previous |-> Inst.current]]
    BY <2>7, <2>8
  <2>10. Atomic!Rollback
    BY <2>8, <2>9, Zenon DEF Atomic!Rollback, Inst
  <2>. QED BY <2>10 DEF Atomic!Next
<1>9. CASE a.action = "install"
  <2>1. /\ c.package = a.package /\ a.package \in Packages
        /\ a.url \in Endpoints \cup {NoArg} /\ a.token \in Tokens \cup {NoArg}
        /\ old["config"] # NoArg \/ a.url # NoArg
    BY <1>3, <1>4, <1>9 DEF Choice, Options
  <2> DEFINE config == [url |-> IF a.url # NoArg THEN a.url ELSE old["config"].url,
                        own |-> a.token # NoArg \/ (old["config"] # NoArg /\ old["config"].own)]
  <2>2. disk["config"] = config
    <3> DEFINE o == a.token # NoArg \/ (old["config"] # NoArg /\ old["config"].own)
    <3>1. c.config.own = o
      <4>1. c.config.own \in BOOLEAN
        BY <1>7 DEF Connections
      <4>2. o \in BOOLEAN
        BY Zenon
      <4>3. c.config.own <=> o
        BY <1>3 DEF Choice
      <4> HIDE DEF o
      <4>. QED BY <4>1, <4>2, <4>3, Zenon
    <3>2. c.config.url = IF a.url # NoArg THEN a.url ELSE old["config"].url
      BY <1>3 DEF Choice
    <3>3. c.config = [url |-> c.config.url, own |-> c.config.own]
      BY <1>7 DEF Connections
    <3>. QED BY <1>3, <3>1, <3>2, <3>3, Zenon
  <2> HIDE DEF config
  <2>3. c.previous = IF journal.current # a.package THEN journal.current ELSE old["state"].previous
    BY <1>3, <2>1 DEF Choice
  <2>4. Inst' = [current |-> a.package, config |-> config,
                 credential |-> IF a.token # NoArg THEN a.token ELSE old["credential"],
                 state |-> [current |-> a.package,
                            previous |-> IF journal.current # a.package THEN journal.current
                                         ELSE old["state"].previous],
                 host |-> registered[old["host"]], catalog |-> catalog]
    BY <1>2, <1>3, <1>5, <1>6, <2>1, <2>2, <2>3 DEF View
  <2>5. /\ Inst.current = journal.current /\ Inst.config = old["config"]
        /\ Inst.credential = old["credential"] /\ Inst.state = old["state"]
        /\ Inst.host = old["host"]
    BY <1>2 DEF View
  <2>6. Inst' = [current |-> a.package,
                 config |->
                   [url |-> IF a.url # NoArg THEN a.url ELSE Inst.config.url,
                    own |-> a.token # NoArg \/ (Inst.config # NoArg /\ Inst.config.own)],
                 credential |-> IF a.token # NoArg THEN a.token ELSE Inst.credential,
                 state |-> [current |-> a.package,
                            previous |-> IF Inst.current # a.package THEN Inst.current
                                         ELSE Inst.state.previous],
                 host |-> registered[Inst.host], catalog |-> catalog]
    BY <2>4, <2>5, Zenon DEF config
  <2>7. Inst.config # NoArg \/ a.url # NoArg
    BY <2>1, <2>5
  <2>8. Atomic!Install(a.package, a.url, a.token)
    BY <2>6, <2>7, Zenon DEF Atomic!Install, Inst
  <2>. QED BY <2>1, <2>8 DEF Atomic!Next
<1>. QED BY <1>4, <1>8, <1>9 DEF Options

\* An edit of the user is one of AtomicInstall, or one that an open transaction hides.
LEMMA EditHostSimulates ==
    ASSUME InstallInv, EditHost
    PROVE  Atomic!Next \/ UNCHANGED Inst
<1>1. CASE journal # NoArg
  BY <1>1, JournalOpen DEF EditHost
<1>2. CASE journal = NoArg
  <2> DEFINE h == disk["host"]
             v == [disk["host"] EXCEPT !.edits = @ + 1]
  <2>1. /\ h \in Hosts /\ h.edits < MaxEdits /\ disk' = [disk EXCEPT !["host"] = v]
        /\ current' = current /\ journal' = journal /\ DOMAIN disk = FileNames
    BY TypedFiles DEF EditHost, Write, InstallInv, RootTyped, FilesTyped
  <2>2. v \in Hosts /\ v.plugin = h.plugin /\ v.edits = h.edits + 1
    BY <2>1, BoundsAssumption DEF Hosts
  <2>3. v \in [k \in Hosts |-> {g \in Hosts : g.plugin = k.plugin /\ g.edits = k.edits + 1}][h]
    BY <2>1, <2>2
  <2>4. Inst' = [Inst EXCEPT !.host = v] /\ Inst.host = h
    BY <1>2, <2>1 DEF Inst, View, FileNames
  <2>5. Atomic!EditHost
    BY <2>3, <2>4 DEF Atomic!EditHost, Inst
  <2>. QED BY <2>5 DEF Atomic!Next
<1>. QED BY <1>1, <1>2

LEMMA InitSimulates == Init => Atomic!Init
<1> SUFFICES ASSUME Init PROVE Atomic!Init
  OBVIOUS
<1> DEFINE h == [plugin |-> "none", edits |-> 0]
<1>1. h \in Hosts
  BY BoundsAssumption DEF Hosts
<1>2. Inst = [current |-> NoArg, config |-> NoArg, credential |-> NoArg, state |-> NoArg,
              host |-> h, catalog |-> NoArg]
  BY DEF Init, Inst, View, FileNames
<1>. QED BY <1>1, <1>2 DEF Atomic!Init, Atomic!Fresh, Inst

LEMMA NextSimulates == InstallInv /\ [Next]_vars => Atomic!Next \/ UNCHANGED Inst
<1> SUFFICES ASSUME InstallInv, [Next]_vars
             PROVE  Atomic!Next \/ UNCHANGED Inst
  OBVIOUS
<1>1. ASSUME NEW p \in Invocations,
             Start(p) \/ Work(p) \/ StepFails(p) \/ OtherFails(p) \/ Crash(p)
      PROVE  Atomic!Next \/ UNCHANGED Inst
  BY <1>1, UndoingStutters, SwitchingStutters, PreparingStutters, CompleteSwitches DEF Work
<1>2. CASE UNCHANGED vars
  BY <1>2, RootAlone DEF vars, world
<1>. QED BY <1>1, <1>2, EditHostSimulates DEF Next

\* Whatever is interrupted, killed, failing or retried, the installation changes only
\* as if by one indivisible install or rollback: every run of the installer is a
\* behaviour of AtomicInstall, the final unlink of the journal being the switch.
THEOREM ImplementsAtomicInstallTheorem == Spec => ImplementsAtomicInstall
<1>1. InstallInv /\ [Next]_vars => [Atomic!Next]_(IF journal = NoArg THEN View(current, disk)
                                                  ELSE View(journal.current, journal.files))
  BY NextSimulates DEF Inst
<1>. QED BY <1>1, InitSimulates, InstallInvTheorem, PTL DEF Spec, ImplementsAtomicInstall, Atomic!Spec

================================================================================
