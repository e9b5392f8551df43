---------------------------- MODULE CapturePolicy ----------------------------
(***************************************************************************)
(* The automatic capture policy of the OpenCode plugin                     *)
(* (opencode_capture_policy.ts): several OpenCode processes claim captures *)
(* from quotas kept in one state file, guarded by a lock file.  A process  *)
(* may die anywhere, file operations may fail, the date changes, and the   *)
(* state file may be damaged.                                              *)
(***************************************************************************)
EXTENDS Integers, Sequences, FiniteSets

CONSTANTS
    Processes,    \* OpenCode processes
    AppOf,        \* AppOf[p]: the app_id (project) of p
    SessionOf,    \* SessionOf[p]: its session
    Requested,    \* Requested[p]: MEM0_OSS_AUTO_CAPTURE_MODE of p
    Texts,        \* normalized texts, that is their hashes
    SessionLimit, DailyLimit, HashLimit,
    LastDay,      \* bound on the days of a run
    MaxFaults,    \* bound on deaths, failing file operations and damage
    Corrupt,      \* a state file that does not parse
    Nobody

\* What the constants have to be.
PolicyAssumption ==
    /\ SessionLimit \in Nat /\ DailyLimit \in Nat /\ HashLimit \in Nat \ {0}
    /\ LastDay \in Nat \ {0} /\ MaxFaults \in Nat
    /\ Nobody \notin Processes
    /\ \A p \in Processes : Requested[p] \in {"explicit", "bounded", "legacy"}

Apps == {AppOf[p] : p \in Processes}
Sessions == {SessionOf[p] : p \in Processes}

VARIABLES
    pc,       \* process -> where its claimCapture call is
    mode,     \* process -> CapturePolicy.mode
    text,     \* process -> the text it wants to capture
    now,      \* process -> the date its call was made with
    state,    \* process -> the state it has loaded or changed
    grant,    \* process -> claimCapture will answer "eligible"
    file,     \* opencode-capture-state.json
    lock,     \* opencode-capture-state.lock: who created it, Nobody if there is none
    today,
    claims,   \* the claims that reached the file, in order
    captured, \* the captures that claimCapture has granted, in order
    faults

local == <<pc, mode, text, now, state, grant>>
vars == <<local, file, lock, today, claims, captured, faults>>

\* An app that the state does not mention yet.
NewApp == [date |-> 0, count |-> 0, sessions |-> [s \in Sessions |-> 0], hashes |-> <<>>]
EmptyState == [a \in Apps |-> NewApp]

Init ==
    /\ pc = [p \in Processes |-> "stopped"]
    /\ mode = [p \in Processes |-> "explicit"]
    /\ text \in [Processes -> Texts]
    /\ now = [p \in Processes |-> 1]
    /\ state = [p \in Processes |-> EmptyState]
    /\ grant = [p \in Processes |-> FALSE]
    /\ file = EmptyState
    /\ lock = Nobody
    /\ today = 1
    /\ claims = <<>>
    /\ captured = <<>>
    /\ faults = 0

Fault == faults < MaxFaults /\ faults' = faults + 1

\* What p would claim or capture.
Item(p) ==
    [process |-> p, app |-> AppOf[p], session |-> SessionOf[p], text |-> text[p], day |-> now[p]]

-----------------------------------------------------------------------------
\* isCaptureState, after JSON.parse.
Valid(contents) == contents # Corrupt

\* fromEnv: a state that is not valid turns bounded capture off.
Start(p) ==
    /\ pc[p] = "stopped"
    /\ mode' = [mode EXCEPT ![p] =
          IF Requested[p] = "bounded" /\ ~Valid(file) THEN "explicit" ELSE Requested[p]]
    /\ pc' = [pc EXCEPT ![p] = "idle"]
    /\ UNCHANGED <<text, now, state, grant, file, lock, today, claims, captured, faults>>

\* claimCapture up to the lock.  Refusals by mode, size, emptiness or interval
\* change nothing; in legacy mode there is nothing to claim.
Offer(p, t) ==
    /\ pc[p] = "idle"
    /\ mode[p] = "bounded"
    /\ text' = [text EXCEPT ![p] = t]
    /\ now' = [now EXCEPT ![p] = today]
    /\ pc' = [pc EXCEPT ![p] = "opening"]
    /\ UNCHANGED <<mode, state, grant, file, lock, today, claims, captured, faults>>

OpenLock_Overwrite(p) ==
    /\ pc[p] = "opening"
    /\ lock' = p
    /\ pc' = [pc EXCEPT ![p] = "deciding"]
    /\ UNCHANGED <<mode, text, now, state, grant, file, today, claims, captured, faults>>

\* openSync(lockPath, "wx"), then chmodSync.
OpenLock(p) ==
    /\ pc[p] = "opening"
    /\ lock = Nobody
    /\ lock' = p
    /\ pc' = [pc EXCEPT ![p] = "deciding"]
    /\ UNCHANGED <<mode, text, now, state, grant, file, today, claims, captured, faults>>

\* The lock exists, or chmodSync fails after it was created: no capture, and in
\* the second case nobody removes the lock.
LockUnavailable(p) ==
    /\ pc[p] = "opening"
    /\ \/ lock # Nobody /\ UNCHANGED <<lock, faults>>
       \/ lock = Nobody /\ lock' = p /\ Fault
    /\ pc' = [pc EXCEPT ![p] = "idle"]
    /\ UNCHANGED <<mode, text, now, state, grant, file, today, claims, captured>>

\* A new day starts the counters again; the hashes stay.
AppState(s, p) ==
    LET app == s[AppOf[p]] IN
    IF app.date = now[p] THEN app
    ELSE [app EXCEPT !.date = now[p], !.count = 0, !.sessions = [x \in Sessions |-> 0]]

Eligible_SessionOffByOne(app, p) ==
    /\ app.sessions[SessionOf[p]] <= SessionLimit
    /\ app.count < DailyLimit
    /\ \A i \in DOMAIN app.hashes : app.hashes[i] # text[p]

Eligible_AnyText(app, p) ==
    /\ app.sessions[SessionOf[p]] < SessionLimit
    /\ app.count < DailyLimit

Eligible(app, p) ==
    /\ app.sessions[SessionOf[p]] < SessionLimit
    /\ app.count < DailyLimit
    /\ \A i \in DOMAIN app.hashes : app.hashes[i] # text[p]

\* slice(-n)
LastOf(s, n) == IF Len(s) <= n THEN s ELSE SubSeq(s, Len(s) - n + 1, Len(s))

Counted_OldCount(app, p) ==
    [app EXCEPT !.sessions[SessionOf[p]] = @ + 1,
                !.hashes = LastOf(Append(@, text[p]), HashLimit)]

Counted(app, p) ==
    [app EXCEPT !.count = @ + 1,
                !.sessions[SessionOf[p]] = @ + 1,
                !.hashes = LastOf(Append(@, text[p]), HashLimit)]

\* reloadState, then the limits, then the claim in memory.
Decide(p) ==
    LET app == AppState(file, p) IN
    /\ pc[p] = "deciding"
    /\ IF Valid(file) /\ Eligible(app, p)
       THEN /\ state' = [state EXCEPT ![p] = [file EXCEPT ![AppOf[p]] = Counted(app, p)]]
            /\ grant' = [grant EXCEPT ![p] = TRUE]
            /\ pc' = [pc EXCEPT ![p] = "persisting"]
       ELSE /\ pc' = [pc EXCEPT ![p] = "leaving"]
            /\ UNCHANGED <<state, grant>>
    /\ UNCHANGED <<mode, text, now, file, lock, today, claims, captured, faults>>

\* persist: a temporary file, renamed.
Persist(p) ==
    /\ pc[p] = "persisting"
    /\ file' = state[p]
    /\ claims' = Append(claims, Item(p))
    /\ pc' = [pc EXCEPT ![p] = "leaving"]
    /\ UNCHANGED <<mode, text, now, state, grant, lock, today, captured, faults>>

\* persist throws, before the rename or, from its last chmodSync, after it; so does
\* claimCapture, after the finally clause.
PersistFails(p) ==
    /\ pc[p] = "persisting"
    /\ Fault
    /\ \/ UNCHANGED <<file, claims>>
       \/ file' = state[p] /\ claims' = Append(claims, Item(p))
    /\ grant' = [grant EXCEPT ![p] = FALSE]
    /\ pc' = [pc EXCEPT ![p] = "leaving"]
    /\ UNCHANGED <<mode, text, now, state, lock, today, captured>>

\* finally: unlinkSync removes whatever lock file there is.
Unlock(p) ==
    /\ pc[p] = "leaving"
    /\ lock' = Nobody
    /\ captured' = IF grant[p] THEN Append(captured, Item(p)) ELSE captured
    /\ grant' = [grant EXCEPT ![p] = FALSE]
    /\ pc' = [pc EXCEPT ![p] = "idle"]
    /\ UNCHANGED <<mode, text, now, state, file, today, claims, faults>>

\* The lock cannot be removed: claimCapture throws.
UnlockFails(p) ==
    /\ pc[p] = "leaving"
    /\ Fault
    /\ grant' = [grant EXCEPT ![p] = FALSE]
    /\ pc' = [pc EXCEPT ![p] = "idle"]
    /\ UNCHANGED <<mode, text, now, state, file, lock, today, claims, captured>>

Die(p) ==
    /\ Fault
    /\ pc[p] # "stopped"
    /\ pc' = [pc EXCEPT ![p] = "stopped"]
    /\ grant' = [grant EXCEPT ![p] = FALSE]
    /\ state' = [state EXCEPT ![p] = EmptyState]
    /\ UNCHANGED <<mode, text, now, file, lock, today, claims, captured>>

Damage ==
    /\ Fault
    /\ file # Corrupt
    /\ file' = Corrupt
    /\ UNCHANGED <<local, lock, today, claims, captured>>

Midnight ==
    /\ today < LastDay
    /\ today' = today + 1
    /\ UNCHANGED <<local, file, lock, claims, captured, faults>>

Call(p) ==
    \/ OpenLock(p) \/ LockUnavailable(p) \/ Decide(p)
    \/ Persist(p) \/ PersistFails(p) \/ Unlock(p) \/ UnlockFails(p)

Next ==
    \/ \E p \in Processes : Start(p) \/ Call(p) \/ Die(p)
    \/ \E p \in Processes, t \in Texts : Offer(p, t)
    \/ Damage
    \/ Midnight

Spec == Init /\ [][Next]_vars

-----------------------------------------------------------------------------
AppStates ==
    [date : 0..LastDay, count : 0..DailyLimit, sessions : [Sessions -> 0..SessionLimit],
     hashes : UNION {[1..n -> Texts] : n \in 0..HashLimit}]
States == [Apps -> AppStates]
Items ==
    [process : Processes, app : Apps, session : Sessions, text : Texts, day : 1..LastDay]

\* Positions, states, the lock and the histories have their shapes; no state, in
\* memory or in the file, grows past the quotas and the number of hashes kept.
TypeOK ==
    /\ pc \in [Processes -> {"stopped", "idle", "opening", "deciding", "persisting", "leaving"}]
    /\ mode \in [Processes -> {"explicit", "bounded", "legacy"}]
    /\ text \in [Processes -> Texts]
    /\ now \in [Processes -> 1..LastDay]
    /\ state \in [Processes -> States]
    /\ grant \in [Processes -> BOOLEAN]
    /\ file \in States \cup {Corrupt}
    /\ lock \in Processes \cup {Nobody}
    /\ today \in 1..LastDay
    /\ claims \in Seq(Items)
    /\ captured \in Seq(Items)
    /\ faults \in 0..MaxFaults

Inside(p) == pc[p] \in {"deciding", "persisting", "leaving"}

\* Two processes are never between taking and removing the lock at once, not
\* even after one has died or could not remove its lock.
OneInside == \A p, q \in Processes : Inside(p) /\ Inside(q) => p = q

\* The claims of app a, as positions.
ClaimsOf(a) == {i \in DOMAIN claims : claims[i].app = a}

\* The claims of a since its date changed last.
SinceReset(a) ==
    {i \in ClaimsOf(a) : \A j \in ClaimsOf(a) : j >= i => claims[j].day = claims[i].day}

\* No claim is lost: the counter in the file is the number of claims since the
\* date last changed, whatever other processes claimed for this or another app
\* in between, died or failed (claimCapture reloads and persists under the lock).
ClaimsCounted ==
    file # Corrupt =>
        \A a \in Apps :
            /\ file[a].count = Cardinality(SinceReset(a))
            /\ \A s \in Sessions :
                  file[a].sessions[s] = Cardinality({i \in SinceReset(a) : claims[i].session = s})

\* Among the claims of an app that follow one another with the same date, no session
\* has more than SessionLimit and all sessions no more than DailyLimit.  A claim of
\* another date ends such a block (appState clears both counters).
LimitsKept ==
    \A a \in Apps, i, j \in DOMAIN claims :
        LET block == ClaimsOf(a) \cap (i..j) IN
        (\A k, l \in block : claims[k].day = claims[l].day) =>
            /\ Cardinality(block) <= DailyLimit
            /\ \A s \in Sessions :
                  Cardinality({k \in block : claims[k].session = s}) <= SessionLimit

\* The date turns back, and a block ends early, at most once per process and day: after
\* a claim of some day a process makes at most one more claim dated before it, the one
\* it had begun before midnight.
LateOnce ==
    \A i, j, k \in DOMAIN claims :
        /\ i < j /\ j < k
        /\ claims[j].process = claims[k].process
        /\ claims[j].day < claims[i].day
        => claims[k].day >= claims[i].day

\* README.md: "per-session/per-day limits".  What the words say of a session.
SessionLimitKept ==
    \A a \in Apps, s \in Sessions :
        Cardinality({i \in ClaimsOf(a) : claims[i].session = s}) <= SessionLimit

\* A text is claimed again only after HashLimit other claims of its app: its
\* duplicates are suppressed across processes, sessions and days.
NoDuplicates ==
    \A i, j \in DOMAIN claims :
        /\ i < j
        /\ claims[i].app = claims[j].app
        /\ claims[i].text = claims[j].text
        => Cardinality(ClaimsOf(claims[i].app) \cap (i..j)) >= HashLimit + 2

Times(s, x) == Cardinality({i \in DOMAIN s : s[i] = x})

\* A capture is granted only for a claim that is on disk: a death or a failure
\* may waste quota, and never exceeds it.
CapturesClaimed ==
    \A i \in DOMAIN captured : Times(captured, captured[i]) <= Times(claims, captured[i])
=============================================================================
