--------------------------- MODULE PluginPromotion ---------------------------
(***************************************************************************)
(* How the Devin and Pi installers put a generated package into place      *)
(* (install_devin_plugin.py, install_pi_plugin.py).  The package is built  *)
(* aside; then the credential file is rewritten in place, the old package  *)
(* renamed to a backup, the new one renamed to its place and, for Pi, the  *)
(* settings replaced.  A failing step starts a rollback, whose steps may   *)
(* fail too.  There is no lock: installers may overlap, and be killed.     *)
(***************************************************************************)
EXTENDS Integers, FiniteSets

CONSTANTS
    Runs,         \* installer invocations
    Clients,      \* "devin", "pi"
    WithToken,    \* the invocations that are given a token
    MaxFailures,  \* bound on failing file operations
    MaxKills,     \* bound on killed installers
    MaxEdits,     \* bound on the user's edits of Pi's settings.json
    Old, None     \* what is there before the first run; no file

\* What the constants have to be.
PromotionAssumption ==
    /\ Clients \subseteq {"devin", "pi"} /\ WithToken \subseteq Runs
    /\ MaxFailures \in Nat /\ MaxKills \in Nat /\ MaxEdits \in Nat
    /\ Old \notin Runs /\ None \notin Runs \cup {Old}

VARIABLES
    client,     \* the installer that is used
    target,     \* the package in place
    backup,     \* run -> the package in its backup directory
    env,        \* the credential file: None, "empty", or whose token it holds
    settings,   \* [package: registered, edits: by the user]
    pc,         \* run -> position
    savedEnv,   \* run -> previous_credential, previous_key
    staged,     \* run -> the settings that it will write
    before,     \* run -> [target, env] when its promotion began
    alone,      \* run -> no other run was active during its promotion
    bad,        \* run -> its own failing operations
    failures, kills, edits

own == <<pc, savedEnv, staged, before, alone, bad>>
files == <<target, backup, env, settings>>
vars == <<client, files, own, failures, kills, edits>>

Init ==
    /\ client \in Clients
    /\ target \in {Old, None}
    /\ backup = [r \in Runs |-> None]
    /\ env \in {Old, None}
    /\ settings = [package |-> FALSE, edits |-> 0]
    /\ pc = [r \in Runs |-> "idle"]
    /\ savedEnv = [r \in Runs |-> None]
    /\ staged = [r \in Runs |-> settings]
    /\ before = [r \in Runs |-> [target |-> target, env |-> env]]
    /\ alone = [r \in Runs |-> TRUE]
    /\ bad = [r \in Runs |-> 0]
    /\ failures = 0 /\ kills = 0 /\ edits = 0

Goto(r, p) == pc' = [pc EXCEPT ![r] = p]
Resting == {"idle", "ok", "failed", "dead"}
Active(r) == pc[r] \notin Resting
Keep == UNCHANGED <<savedEnv, staged, before, alone, failures, kills, edits>>

-----------------------------------------------------------------------------
\* The old package is deleted where it should be renamed.
MoveAway_Deletes(r) ==
    /\ pc[r] = "moveAway"
    /\ target' = None /\ Goto(r, "promote")
    /\ UNCHANGED <<backup, env, settings, bad>> /\ Keep

\* The saved credential is read after the file was rewritten.
WriteToken_SavesLate(r) ==
    /\ pc[r] = "credential"
    /\ env' = r /\ Goto(r, "moveAway")
    /\ savedEnv' = [savedEnv EXCEPT ![r] = r]
    /\ UNCHANGED <<target, backup, settings, bad, staged, before, alone, failures, kills, edits>>

\* main: Pi reads settings.json here, long before it writes it.
Begin(r) ==
    /\ pc[r] = "idle"
    /\ Goto(r, "building")
    /\ staged' = [staged EXCEPT ![r] = [settings EXCEPT !.package = TRUE]]
    /\ alone' = [q \in Runs |-> IF q = r THEN \A p \in Runs : ~Active(p)
                                ELSE alone[q] /\ ~Active(q)]
    /\ before' = [before EXCEPT ![r] = [target |-> target, env |-> env]]
    /\ UNCHANGED <<files, savedEnv, bad, failures, kills, edits>>

\* generate, or copy and build: nothing outside the staging directory changes.
Build(r) ==
    /\ pc[r] = "building"
    /\ Goto(r, IF r \in WithToken THEN "credential" ELSE "moveAway")
    /\ savedEnv' = [savedEnv EXCEPT ![r] = env]
    /\ before' = [before EXCEPT ![r] = [target |-> target, env |-> env]]
    /\ UNCHANGED <<files, staged, alone, bad, failures, kills, edits>>

\* write_token_env_file; a failure or a kill may leave the file empty (torn).
WriteToken(r) ==
    /\ pc[r] = "credential"
    /\ env' = r /\ Goto(r, "moveAway")
    /\ UNCHANGED <<target, backup, settings, bad>> /\ Keep

\* Devin asks whether there is a target; Pi has asked before the credential.
HasBackup(r) == IF client = "pi" THEN before[r].target # None ELSE target # None

\* target.rename(backup)
MoveAway(r) ==
    /\ pc[r] = "moveAway"
    /\ HasBackup(r) => target # None
    /\ IF HasBackup(r) THEN /\ backup' = [backup EXCEPT ![r] = target]
                            /\ target' = None
       ELSE UNCHANGED <<target, backup>>
    /\ Goto(r, "promote")
    /\ UNCHANGED <<env, settings, bad>> /\ Keep

AfterPromote == IF client = "pi" THEN "settings" ELSE "cleanup"

\* staging.rename(target) replaces no package that has appeared meanwhile.
Promote(r) ==
    /\ pc[r] = "promote" /\ target = None
    /\ target' = r /\ Goto(r, AfterPromote)
    /\ UNCHANGED <<backup, env, settings, bad>> /\ Keep

\* Pi with --install: staged_settings.replace(settings_path).
ReplaceSettings(r) ==
    /\ pc[r] = "settings"
    /\ settings' = staged[r] /\ Goto(r, "ok")
    /\ UNCHANGED <<target, backup, env, bad>> /\ Keep

\* Pi without --install.
KeepSettings(r) ==
    /\ pc[r] = "settings"
    /\ Goto(r, "ok")
    /\ UNCHANGED <<files, bad>> /\ Keep

\* Devin: cleanup_previous_plugin; Pi retains its backups.
Cleanup(r) ==
    /\ pc[r] = "cleanup"
    /\ backup' = [backup EXCEPT ![r] = None]
    /\ Goto(r, "ok")
    /\ UNCHANGED <<target, env, settings, bad>> /\ Keep
-----------------------------------------------------------------------------
\* The rollback: what comes first, and what after a step.
Rollback(r) ==
    CASE client = "devin" /\ r \in WithToken         -> "restoreEnv"
      [] client = "pi" /\ pc[r] = "settings"         -> "demote"
      [] OTHER                                        -> "restorePackage"

After(r) ==
    CASE pc[r] = "demote"                             -> "restorePackage"
      [] pc[r] = "restoreEnv" /\ client = "devin"     -> "restorePackage"
      [] pc[r] = "restorePackage" /\ client = "pi" /\ r \in WithToken -> "restoreEnv"
      [] OTHER                                        -> "failed"

Demote(r) ==
    /\ pc[r] = "demote" /\ target # None
    /\ target' = None /\ Goto(r, After(r))
    /\ UNCHANGED <<backup, env, settings, bad>> /\ Keep

\* backup.rename(target), if the old package was moved away.
RestorePackage(r) ==
    /\ pc[r] = "restorePackage"
    /\ IF backup[r] = None THEN UNCHANGED <<target, backup>>
       ELSE /\ target = None
            /\ target' = backup[r] /\ backup' = [backup EXCEPT ![r] = None]
    /\ Goto(r, After(r))
    /\ UNCHANGED <<env, settings, bad>> /\ Keep

\* restore_credential
RestoreEnv(r) ==
    /\ pc[r] = "restoreEnv"
    /\ env' = savedEnv[r] /\ Goto(r, After(r))
    /\ UNCHANGED <<target, backup, settings, bad>> /\ Keep

-----------------------------------------------------------------------------
MayTear(r) ==
    \/ UNCHANGED env
    \/ pc[r] \in {"credential", "restoreEnv"} /\ env' = "empty"

\* A package cannot be renamed over another one, nor one that is not there.
Blocked(r) ==
    \/ pc[r] = "moveAway" /\ HasBackup(r) /\ target = None
    \/ pc[r] = "promote" /\ target # None
    \/ pc[r] = "demote" /\ target = None
    \/ pc[r] = "restorePackage" /\ backup[r] # None /\ target # None

\* An operation fails.  Devin goes on with the rest of its rollback, and only
\* warns about a backup left over; Pi stops.
Fails(r) ==
    /\ Active(r)
    /\ \/ failures < MaxFailures /\ failures' = failures + 1
          /\ bad' = [bad EXCEPT ![r] = @ + 1]
       \/ Blocked(r) /\ UNCHANGED <<failures, bad>>
    /\ Goto(r, CASE pc[r] = "building" -> "failed"
                 [] pc[r] = "cleanup"  -> "ok"
                 [] pc[r] \in {"credential", "moveAway", "promote", "settings"} -> Rollback(r)
                 [] OTHER -> IF client = "devin" THEN After(r) ELSE "failed")
    /\ MayTear(r)
    /\ UNCHANGED <<target, backup, settings, savedEnv, staged, before, alone, kills, edits>>

Kill(r) ==
    /\ Active(r)
    /\ kills < MaxKills /\ kills' = kills + 1
    /\ Goto(r, "dead")
    /\ MayTear(r)
    /\ UNCHANGED <<target, backup, settings, savedEnv, staged, before, alone, bad, failures, edits>>

\* The user changes something else in settings.json.
Edit ==
    /\ edits < MaxEdits /\ edits' = edits + 1
    /\ settings' = [settings EXCEPT !.edits = @ + 1]
    /\ UNCHANGED <<target, backup, env, own, failures, kills>>

Step(r) ==
    \/ Begin(r) \/ Build(r) \/ WriteToken(r) \/ MoveAway(r) \/ Promote(r)
    \/ ReplaceSettings(r) \/ KeepSettings(r) \/ Cleanup(r)
    \/ Demote(r) \/ RestorePackage(r) \/ RestoreEnv(r)

Next == UNCHANGED client /\ ((\E r \in Runs : Step(r) \/ Fails(r) \/ Kill(r)) \/ Edit)

Spec == Init /\ [][Next]_vars

-----------------------------------------------------------------------------
\* docs/devin-plugin.md: "Promotion and credential-write failures restore the
\* previous package and the credential file's exact contents".  README.md says the
\* same of Pi.  One failure, that is: not another one in the rollback.
FailureRestores ==
    [][\A r \in Runs :
        pc[r] # "failed" /\ pc'[r] = "failed" /\ alone'[r] /\ bad'[r] <= 1
            => target' = before[r].target /\ env' = before[r].env]_vars

\* A run that succeeds undisturbed leaves its own package in place, with its own
\* credential, whatever runs that died before it left behind.
SuccessIsComplete ==
    [][\A r \in Runs :
        pc[r] # "ok" /\ pc'[r] = "ok" /\ alone'[r]
            => target' = r /\ (r \in WithToken => env' = r)]_vars

\* The package of the last successful installation is never lost, whatever fails,
\* dies or overlaps: until another run succeeds it is in place or in a backup.
\* Except when a run of Pi overlaps others and fails: it removes whatever package it
\* finds in place, and that may be the one another run has restored.
PackageKept ==
    (\E r \in Runs : before[r].target = Old)
    /\ (client = "devin" \/ \A r \in Runs : alone[r] \/ bad[r] = 0)
        => \/ Old \in {target} \cup {backup[r] : r \in Runs}
           \/ \E r \in Runs : pc[r] = "ok"
==============================================================================
