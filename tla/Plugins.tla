------------------------------- MODULE Plugins --------------------------------
(***************************************************************************)
(* What runs on the user's machine, side by side: the source installers of *)
(* Codex and OpenCode (SourceInstall), those of Devin and Pi               *)
(* (PluginPromotion), the capture policy of the OpenCode plugin            *)
(* (CapturePolicy) and the client of the Pi plugin (PiClient).  Their      *)
(* models share no variable: a step of the system is a step of one of them.*)
(***************************************************************************)
EXTENDS Integers, Sequences

CONSTANTS
    Runs, WithToken, None, Torn,
    Hosts, NameOf, VarOf, WithHooks, NoBuild, WithInstall, Changed, SourceFaults,
    Clients, MaxFailures, MaxKills, MaxEdits, Old,
    Processes, AppOf, SessionOf, Requested, Texts, SessionLimit, DailyLimit, HashLimit,
    LastDay, PolicyFaults, Corrupt, Nobody,
    PiCallers, PiCalls, PiMemories, PageSize, AppIds, PiFaults

VARIABLES
    host, plugin, files, registered, status, todo, seen, sourceAlone, sourceFaults,
    client, target, backup, env, settings, pc, savedEnv, staged, before, alone, bad,
    failures, kills, edits,
    policyPc, mode, text, now, state, grant, file, lock, today, claims, captured, policyFaults,
    memory, stored, call, piPc, cursor, seenCursors, previous, page, sent, reply, confirmed,
    executed, touched, lasting, piFaults

Source == INSTANCE SourceInstall WITH
    MaxFaults <- SourceFaults, alone <- sourceAlone, faults <- sourceFaults
Promotion == INSTANCE PluginPromotion
Policy == INSTANCE CapturePolicy WITH
    MaxFaults <- PolicyFaults, pc <- policyPc, faults <- policyFaults
Pi == INSTANCE PiClient WITH
    Callers <- PiCallers, CallsOf <- PiCalls, MaxMemories <- PiMemories, MaxFaults <- PiFaults,
    pc <- piPc, seen <- seenCursors, faults <- piFaults

ASSUME InstallAssumption == Source!SourceAssumption
ASSUME PromoteAssumption == Promotion!PromotionAssumption
ASSUME CaptureAssumption == Policy!PolicyAssumption
ASSUME ClientAssumption == Pi!PiAssumption

sourceVars == <<host, plugin, files, registered, status, todo, seen, sourceAlone, sourceFaults>>
promotionVars == <<client, target, backup, env, settings, pc, savedEnv, staged, before, alone,
                   bad, failures, kills, edits>>
policyVars == <<policyPc, mode, text, now, state, grant, file, lock, today, claims, captured,
                policyFaults>>
piVars == <<memory, stored, call, piPc, cursor, seenCursors, previous, page, sent, reply,
            confirmed, executed, touched, lasting, piFaults>>
allVars == <<sourceVars, promotionVars, policyVars, piVars>>

-----------------------------------------------------------------------------
PluginsInit == Source!Init /\ Promotion!Init /\ Policy!Init /\ Pi!Init

SourceStep == Source!Next /\ UNCHANGED <<promotionVars, policyVars, piVars>>
PromotionStep == Promotion!Next /\ UNCHANGED <<sourceVars, policyVars, piVars>>
PolicyStep == Policy!Next /\ UNCHANGED <<sourceVars, promotionVars, piVars>>
PiStep == Pi!Next /\ UNCHANGED <<sourceVars, promotionVars, policyVars>>

PluginsNext == SourceStep \/ PromotionStep \/ PolicyStep \/ PiStep

PluginsSpec == PluginsInit /\ [][PluginsNext]_allVars

-----------------------------------------------------------------------------
\* The properties of SourceInstall, PluginPromotion, CapturePolicy and PiClient;
\* see there for what they say of the code.

\* An undisturbed run of a source installer that succeeds leaves all that belongs
\* to its plugin its own, whatever earlier runs left behind, and none is refused for
\* what they left, unless it is a marketplace.json or hooks.json that does not load.
RerunRefreshes == Source!SuccessRefreshes /\ Source!RerunNotRefused

\* From a file that it shares with the user and other instances, a source installer
\* takes nothing but its own entries, the line of its token variable, the marketplace's
\* name and the user's hooks in entries of its plugin.
OthersKept == Source!OthersKept

\* A plugin that the host loads is whole unless a run of its name has not ended
\* well or has left out the build (source installers); the installed package is
\* never lost, whatever fails, dies or overlaps, except by failing runs of the Pi
\* installer that overlap (Devin, Pi).
PluginsUsable == Source!BrokenMeansUnfinished /\ Promotion!PackageKept

\* A failed promotion restores the package and the credential file, and one that
\* succeeds undisturbed leaves its own package and credential.
PromotionAtomic == Promotion!FailureRestores /\ Promotion!SuccessIsComplete

\* One process at a time is between taking and leaving the lock.
OneInside == Policy!OneInside

\* Every capture that is granted is in the file, and the counts in the file are
\* those of the claims made.
CapturesCounted == Policy!CapturesClaimed /\ Policy!ClaimsCounted

\* Between two changes of an app's date no session and no app has more claims than its
\* limit; the date turns back at most once per process and day; and the state keeps its
\* type (its lists stay within their lengths).
QuotasKept == Policy!LimitsKept /\ Policy!LateOnce /\ Policy!TypeOK

\* README.md: bounded capture has "per-session/per-day limits".  A session that goes on
\* over midnight gets its limit once more (appState).
SessionLimitKept == Policy!SessionLimitKept

\* No text is captured twice while its hash is remembered.
NoDuplicates == Policy!NoDuplicates

\* An operation of the Pi client changes only memories that were in its scope at some
\* time of the call (requireScopedMemory).
MutatesInScope == Pi!MutatesInScope

\* What an operation of the Pi client confirms has been done, and at most one more;
\* a deleteAll that succeeds has left nothing that was there all the time
\* (deleteAll, iterateAllPages, PiMcpTransport.call).
ReportKept == Pi!ConfirmedDone /\ Pi!ScopeEmptied
================================================================================
