# TLA+ specifications of mem0-oss-mcp

Specifications, model-checking runs and machine-checked proofs for the parts of
this repository whose correctness depends on order, failure and concurrency: the
MCP bridge (`src/mem0_oss_mcp/`), the processes that a host starts for it, and
the client tooling (`plugins/mem0-oss/scripts/`). Paths below are relative to the repository.

## 1. Inventory

| Component | Where | State it keeps | Operations | Hard behaviour | Module |
|---|---|---|---|---|---|
| `add_memory`, single and dual | `server.py` 542-687 | none of its own; the Sidecar's intents | one POST; for dual a preflight, a personal and a project POST | partial failure, retries, timeouts, key collisions, restarts | `BridgeAdd`, `SidecarStore` |
| events | `server.py` 146-163, 1151-1249 | `EVENTS`, process-local | `get_event_status`, `list_events` | cache against durable rows, credential scope | `BridgeAdd` |
| request slots | `server.py` 65-87 | a bounded semaphore | admit, refuse, release | leaks, double release, overload | `RequestSlots` |
| HTTP and JSON-RPC front end | `server.py` 1392-1581 | none | read, dispatch, answer | batches, notifications, failures in the middle | `McpServer` |
| authentication | `auth.py`, `caller_context.py` | configuration; principal of the thread | static tokens, Core API keys | overlapping callers, keys that change | `McpServer` |
| start and heartbeat | `server.py` 252-279, 1584-1619 | `_sidecar_healthy` | first heartbeat, loop | Sidecar goes and comes back | `McpServer` |
| direct listing | `server.py` 497-539, 763-942 | `_LIST_LIMIT_SUPPORT` | fetch, retry, probe | a verdict cached for the process | `DirectListing` |
| bulk deletion | `server.py` 1002-1072 | none | list, then delete one by one | concurrent writers, rows that stay | `BulkDelete` |
| entities | `server.py` 1075-1148 | none | list, delete several | pages of a changing collection, partial failure | `Entities` |
| stdio bridge | `oss_adapter/mem0_oss_stdio_bridge.py` | threads, output lock | forward, print | answers in any order, end of the input | `StdioBridge` |
| release installer | `install_client_release.py`, `release_state.py`, `release_host.py` | the installation root and its journal | install, update, rollback, recovery | kill at any write, failing step, second installer | `ReleaseInstall` |
| source installers | `install_codex_plugin.py`, `install_opencode_plugin.py` | plugin directory and shared files of the host | remove, copy, write, register | no lock, no undoing, runs that overlap or are repeated | `SourceInstall` |
| Devin and Pi installers | `install_devin_plugin.py`, `install_pi_plugin.py` | package, credential file, `settings.json` | stage, promote, restore | failure between renames, failure of the rollback | `PluginPromotion` |
| OpenCode capture policy | `oss_adapter/opencode_capture_policy.ts` | policy file, lock file | claim | several processes, a death with the lock, midnight | `CapturePolicy` |
| Pi client | `oss_adapter/mem0_oss_pi_*.ts` | none | update, delete, delete all | check then act, paging while deleting, late writes | `PiClient` |
| search, filters, expiry | `server.py` 290-494, 705-760 | none | normalise, match, cut | none that a unit test does not reach | not modelled |
| adapters, release building, workflows | `sitecustomize.py`, `build_*`, `.github/workflows` | | | | not modelled |

How they interact: an MCP client calls the HTTP server, which takes a slot and
runs the call in a thread; the thread authenticates the caller, and the tool
function calls the Sidecar (or the Core directly). `add_memory` and the event
queries share `EVENTS`, and every thread shares the Sidecar's durable rows. The
client plugins call the bridge (through the stdio bridge or their own transport)
and are put in place by the installers, which share the installation root and
the host's configuration with the user and with each other.

`PROJECT.json` has, for every component, how far it is modelled, and the hazards
line by line with the properties that cover them.

## 2. Modules

Every module models one component. Components that interact, such as the bridge
with its store, or the listener with its threads, are one model. `Server`, `Reads`
and `Plugins` put models that share no variable side by side: a step of the system
is a step of one of them, and a property of the system conjoins properties of its
models; the tables below name the conjuncts.

The `MC` modules give the instances for TLC. `MCServer`, `MCReads` and `MCPlugins`
extend `Server`, `Reads` and `Plugins` by a variable `watched` that says, from the
initial state on, which model takes steps, while the others stay in one initial
state. Every behaviour of theirs is one of the composition; since the models share
nothing, no interleaving is lost, and the states add up instead of multiplying.
`MCServer` and `MCReads` add the fairness and the properties that need it.

### SidecarStore and BridgeAdd: durable additions

`SidecarStore` is the external store as `server.py` uses it. Its `ledger` holds,
for each store key, the intent recorded under it: a key as the client sent it
(`PlainKey`), the key derived for the project child (`ProjectKey`, line 584), or
a name for a keyless write (`AnonKey`, a bounded supply `Anon`). A request in
`inbox` is accepted (intent first, then the Core write in `working`), replayed
against the recorded intent (same body: recorded result, or an error while
unresolved; other body: conflict), or dropped. A Core write is committed or lost; a
lost one stays pending until the operator repairs it. `Body` is what the bridge
sends for each track, with the fingerprint of the whole argument record in both
children.

`BridgeAdd` is the bridge. Every client has one request (`Args[c]`,
credential `Cred[c]`) and sends it until it has seen a receipt. `pc[c]` is the
position of the handler thread: `AddSingle`/`AddDual`, `Preflight`, then one
waiting position per POST. `SingleDone`, `PersonalDone` and `ProjectDone` are the
successful returns of `_sidecar_backend` with everything up to the next call or
to the return: the channel check, the `EVENTS` entry, the next POST. `AddFails`
is every other answer, `Timeout` giving up (the message stays on its way, no
longer `live`), `Restart` a new process with an empty cache and possibly another
`MEM0_OSS_EXTRACTION_MODE`. `EventStatus`, `ReceiptStatus` and `ListEvents` are the
answers of the queries. A handler that gives up reports "incomplete" exactly
where the code's `except` does.

`DurableAdd` is the abstract specification: per key a stage
(none, single, personal, both), its holder, and the set of clients granted a
receipt. `BridgeAdd` implements it (`ImplementsDurableAdd`).

`BridgeAddInv` states the inductive invariants; `BridgeAddProofs` and
`BridgeRefinementProofs` hold the proofs (section 5).

| Property | Says |
|---|---|
| `WrittenOnce` | a keyed request is written under one store key per track, however often it is sent |
| `ChildrenAgree` | a project child stands behind a recorded personal child of the same request and credential |
| `ReceiptSound` | a receipt names recorded writes of this request, for this credential, in the right order |
| `IncompleteMeansRecorded` | "incomplete; personal extraction is recorded" is true when said |
| `ReceiptStable` | all receipts of a keyed request are equal |
| `ReceiptQueryable` | a receipt is found by both event queries, after restarts too |
| `EventsPrivate` | cache and store answer only the credential of the event |
| `ImplementsDurableAdd` | the bridge and the store refine `DurableAdd` |
| `ProofInv` | `EventInv` and `RefinementInv`, the invariants of the proofs |
| `Completes` | repeating the request ends in a receipt |

### RequestSlots: the limit on concurrent requests

The accepting thread takes a slot without waiting or closes the connection,
starts a thread, and gives the slot back when that fails; the connection thread
gives it back at its end. `backlog` is the listen queue (`request_queue_size`).
`SlotsConserved`, `RefusedOnlyWhenFull` and `Answered` are its properties.
`RequestSlotsProofs` proves the safety part.

### McpServer: requests, callers and the heartbeat

`Main` checks the environment as `McpAuthenticator.from_env` and `main` do and
needs a first heartbeat where the Sidecar is required. `Post` is a request with a
credential and a body in a thread that has none; `Authenticate` decides by the mode,
asking the Core if it must, and binds the principal to the thread; `Read`
refuses bodies that are too large, no JSON, no object, or batches of a wrong
length; `Handle` takes one item: requests of all kinds, notifications, and tools
that succeed or fail, which run with the principal bound at that time;
`HandleRaises` is an item that makes `handle_rpc` raise. Meanwhile keys are revoked
or change their role, the Core and the Sidecar fail, and connections break.
`ran` is a history of tool runs, `valid` of who was an administrator when.

| Property of `Server` | Conjuncts | Says |
|---|---|---|
| `RunsAsItsCaller` | | a tool runs as the caller of its own request, as a key only if that was an administrator's during the request, as nobody only on a loopback listener |
| `RepliesRight` | `BatchAnswered`, `RefusedRunsNothing` | the answers of a batch, unless the connection is closed instead, are those of its items that need one, in order, each with the answer of its kind; a request that is refused has run nothing |
| `SidecarReached` (`MCServer`) | `UpMeansReached`, `HeartbeatRecovers` | the listener opens after a heartbeat where one is required; heartbeats arrive again and again |
| `OutputWhole` | `NeverMixed`, `ExitAnswered` of `StdioBridge` | no message is printed into another; at the end exactly the requests have an answer whose post was not `Lost` |
| `AnsweredOrLost` (`MCServer`) | `AnsweredOrLost`, `Ends` of `StdioBridge` | every request is answered at last or its own post is `Lost`, whatever happens to other lines, and the process ends |
| `Typed` | `TypeOK` of all three | types; a handler has no more answers than items it has come to |

`ServerProofs` proves all of these but the liveness.

### StdioBridge: one thread per line

`ReadLine` starts a thread, `Unusable`, `Reply`, `PostFails` and `PostRaises` are
the ends of its post, `Lock`, `Write`, `EndLine` and `Unlock` print its messages,
where the message and its newline are two writes. `Exit` waits for all threads.
A post is `Lost` when the HTTP bridge gives an empty body or when the thread is ended by an
exception that `handle_message` does not catch (line 152).
`ServerProofs` proves the safety properties.

### DirectListing, BulkDelete, Entities: collections that change

`DirectListing` is `get_memories` without a Sidecar. The Core is one of four kinds
(it honours a limit, rejects or caps a large one, or ignores it); a listing that
may have been cut is verified by a probe whose verdict is cached in
`_LIST_LIMIT_SUPPORT`. `BulkDelete` has the three ways of deleting many memories:
page after page with a Sidecar, one bounded listing without, or the Core's own
deletion of a scope. The store may go on listing a row that it has deleted. A page is
a set of rows that is worked off in the order of the store, newest first. `Entities`
pages through users, agents and runs and deletes several of them; each row of a listing
carries the number of the page it came with. `ReadsProofs` proves the safety
properties.

| Property of `Reads` | Conjuncts | Says |
|---|---|---|
| `ListingHonest` | `CompleteIsComplete`, `CacheRight` | a listing that is called complete has every matching row that was there all the time; the cached verdict is right unless a deletion has undermined its probe |
| `DeletionHonest` | `DoneMeansGone`, `ReportExact` | a deletion that succeeds with a Sidecar, or leaves the scope to the Core, leaves nothing that the store listed for it before; reports name what was deleted |
| `DeletionEnds` (`MCReads`) | `Ends`, `StuckOnlyByStore` | a bulk deletion ends; it gives up only on a store that returns what is deleted |
| `EntitiesRight` | `MissingOnlyIfRemoved`, `TwiceOnlyIfAppeared`, `DeletedIsPrefix` | what a listing over changing pages may miss or repeat; where a failed deletion stopped |
| `Typed` | | types; no window is negative, no page too long |

### ReleaseInstall: the release installer

`disk`, `current`, `versions`, `journal` and `lock` are the installation root,
the other variables the locals of an invocation. One action per write or read of
`run_transaction`, in its order; `RestoreFile`/`RestoreLink` are `restore` and
`select_package`, shared by recovery (`recover*`) and the `except` clause
(`undo*`). Writes that use `atomic_write` are one step; the marketplace file is
not, so it has two. `StepFails` is an exception inside the `try`, `OtherFails`
one outside it, `Crash` a kill at any point. The host configuration is abstracted
to how far the plugin is registered and how many edits of the user it holds; the
plugin copy that Codex keeps for itself is outside the model.

`AtomicInstall` is the abstract specification: one indivisible switch.
`ReleaseInstall` implements it, reading an open transaction as one that has not
happened (`ImplementsAtomicInstall`). `Settled` says what a root without an open
transaction looks like, `PreviousUsable` that the release to roll back to is
another one and still there, `InterruptedSwitchSettles` that recovery ends.
`ReleaseInstallInv` states the inductive invariant `InstallInv`, `ReleaseInstallProofs`
proves the safety properties and the refinement from it.

### SourceInstall: installers that write in place

Codex and OpenCode from the sources: the plan of a run is its sequence of steps for
its options; each part of the plugin is absent, torn, or some run's. A shared file is a
function from keys to sequences of entries by who wrote them; it is read, changed in memory,
truncated and written. The keys are what the code looks entries up by: the plugin's
name in `marketplace.json` and `hooks.json` (`Entry`), the token variable in the dotenv file of
`--env-file` (`Line`), the marketplace's name (`Title`), `codex_hooks` (`Feature`), the user's
hooks that stand in a hooks entry of the plugin (`Mixed`), and all else of the user (`Own`).
`Upsert` replaces what stands under a key whoever wrote it, `Strip` drops a hooks entry as a
whole, with the user's hooks in it. `Reach` names the keys that a run may change; instances and
users that share a variable are within each other's reach. The files may hold what an
installation from another directory has left (`Earlier`). One dotenv file stands for those
of all runs; the order between entries of different keys and `--no-enable-codex-hooks` are left
out.
`Fault` stops a run at any step and may leave what it was writing torn; runs are
repeated and may overlap.

### PluginPromotion: staging and renames

Devin and Pi: build in a staging directory, write the credential, rename the old
package away, rename the new one in, write `settings.json` (Pi), clean up (Devin). A
failure starts the rollback of that installer, in its own order, which may fail as
well; a kill stops it anywhere. Renames fail where the target exists or is missing,
so overlapping runs collide as on a file system.

### CapturePolicy: captures counted in one file

Processes claim captures: `OpenLock` creates the lock file or the claim is refused,
`Decide` reloads and applies the limits, `Persist` renames the new state into place,
`Unlock` removes the lock. `appState` starts the counters again whenever the date of a claim
differs from the recorded one. `Die`, `LockUnavailable` and `UnlockFails` leave the lock
behind, after which nobody captures until the user removes it (which is not
modelled). `Damage` is a file that does not
parse.

### PiClient: operations on memories that others change

An operation checks the memory's scope in one call and writes in another
(`Check`, `Execute`); a timeout or an abort ends the operation, while its write may
still be carried out. `deleteAll` reads page after page, each a set of memories worked off
newest first, and deletes in between; a scan may start over. Updates move memories between apps. `touched` and `lasting` are
histories: what was in an operation's scope at some time, and all the time.

| Property of `Plugins` | Conjuncts | Says |
|---|---|---|
| `RerunRefreshes` | `SuccessRefreshes`, `RerunNotRefused` | a repeated run leaves every part, entry and registration its own, whatever runs before it left, and is not refused for it, unless `marketplace.json` or `hooks.json` does not load |
| `OthersKept` | | in a shared file a run changes nothing out of its `Reach`, as long as runs do not overlap |
| `PluginsUsable` | `BrokenMeansUnfinished`, `PackageKept` | a registered plugin is whole unless a run of its name has not ended well; the old package of Devin or Pi is not lost, unless overlapping runs of Pi fail |
| `PromotionAtomic` | `FailureRestores`, `SuccessIsComplete` | one failure restores package and credential; a success leaves its own |
| `OneInside` | | one process at a time has the lock |
| `CapturesCounted` | `CapturesClaimed`, `ClaimsCounted` | what is captured was counted on disk; the counters are those of the claims |
| `QuotasKept` | `LimitsKept`, `LateOnce`, `TypeOK` | the limits hold among the claims between two changes of the app's date; the date turns back at most once per process and day; bounded lists |
| `NoDuplicates` | | a text is not captured twice while its hash is kept |
| `MutatesInScope` | | only memories that were in scope during the call are changed |
| `ReportKept` | `ConfirmedDone`, `ScopeEmptied` | what is confirmed is done; a `deleteAll` that succeeds leaves nothing that was in scope all the time |

`BrokenMeansUnfinished` speaks of the runs of one name: while none overlaps another, is
running or has failed, every part that each of those which ended well writes is there. (A
rerun without the hooks takes the adapter of an earlier run away.)

`PluginInstallProofs` and `PluginsProofs` prove all of these.

### Mutants

An operator named `<definition>_<fault>` is what the definition would be if the
code had that fault: a missing check, a skipped file, a key that is not passed
on. No action uses one. Replacing the definition by it makes TLC find the
property violated that `PROJECT.json` pairs it with, so every property is
sensitive to a fault of the code.

## 3. Runs

| Run | Instance | Shows |
|---|---|---|
| `add_collide` | 3 dual clients on one key (same payload, other agent, other credential), 2 faults; 147,510 states | all safety properties of additions, refinement of `DurableAdd` |
| `add_modes` | a keyed client whose mode the server decides, restarts with another mode, a keyless client; 2 faults; 184,058 states | `ProofInv`: the invariants of the proofs, with single and dual writes under one key |
| `add_live` | 2 dual clients with own keys, authentication off, 2 faults | `Completes` under `FairSpec` |
| `server` | 4 connections on 2 slots; 2 threads, 1 key, 10 environments, 34 bodies, 1 failure; 3 lines, the last a request, with up to 2 messages; 67,784 states | slots, callers, batches, heartbeat, stdio bridge |
| `reads` | 2 callers, 3 rows, limits 0 to 3, 4 kinds of Core, 1 failure; 4 rows to delete in pages of 2; 2 ids of each kind of entity in pages of 1, 2 changes; 824,728 states | listing, bulk deletion, entities |
| `plugins` | 2 runs of each installer with 1 fault (source) or 2 failures, 1 kill and 1 edit (promotion); 2 capturing processes, 2 texts, 2 days, 1 fault; 2 Pi callers, 3 memories, 2 apps, 1 fault; 1,157,580 states | installers, capture policy, Pi client |
| `install_codex` | 1 invocation at a time, 2 packages, 2 endpoints, 1 host edit, 3 faults; 220,226 states | `Settled`, `PreviousUsable`, `ImplementsAtomicInstall`; recovery, also of a failing recovery, ends (`InterruptedSwitchSettles`) |
| `install_opencode` | 2 invocations, 3 packages, 1 fault; 239,958 states | `InstallInv`, the invariant of the proofs; the lock and the order of three installations, by `ImplementsAtomicInstall` |
| `add_mode_change` | as `add_modes` | violation of `NoSelfConflict` (finding 1) |
| `install_host_edit` | 1 edit, 1 fault | violation of `HostEditsKept` (finding 2) |
| `install_restored_message` | 1 fault | violation of `RestoredMeansRestored` (finding 3) |
| `plugins_session_limit` | as `plugins` | violation of `SessionLimitKept` (finding 4) |

Bounds. Two faults allow a failure and a failure of its retry or rollback; three in the
release installer allow a failing step, a failing restoration and a failing recovery.
Three clients on one key give every relation two requests can have (equal, other
arguments, other credential), at once. Four connections on two slots fill,
overfill and drain the server. Two threads are needed, and enough, to mistake one
caller for another. `McpServer` is watched in three ways: both threads with two bodies
in the environments of all modes; one thread with all kinds of items in either place of
a batch of the largest size, and one item more; and one thread next to a Sidecar whose
heartbeats fail and expire. Three lines wait for
the output at once while the input ends. The listing limits lie below, at and above the
window of the Core and the number of rows; the retry limit 1 and two rows make both sides
of each comparison occur. A page of two and four rows make a second page necessary and
leave a row that the bridge's own filter hides. Three packages are needed to tell the
previous release from the one before. Both source runs write a token: for
Codex under two variables, for OpenCode under one that they share. Two days and a
limit of two let a counter be used up, reset and used again. Three memories in
pages of two give `deleteAll` a second page. `Anon` bounds the keyless writes. Clients,
invocations and runs are not symmetric in these instances (they have different requests
or options), so no symmetry set is used.

`CHECK_DEADLOCK FALSE` where the system may rest: every client has its receipt,
no request is left, every run has ended or every bound is used up.

Fairness. In `BridgeAdd`: handler threads and the store go on (weak fairness per
client and per request), the operator repairs and re-enables, and clients repeat
their request, which is what `docs/plugin-parity.md` asks of them; faults and
policy changes are bounded. In `RequestSlots`: the accepting thread and the
connection threads go on, since sockets and backend calls have timeouts. In
`McpServer`: the heartbeat thread, which no failure ends, goes on; nothing is
assumed of the Sidecar beyond a bounded number of failures. In `StdioBridge`: every
thread ends its post (60 seconds) and the host sends its lines and closes the
input. In `BulkDelete`: a handler goes on to its return. In
`ReleaseInstall`: a running invocation goes on and the installer is run again,
"recovers interrupted switches on the next invocation". The other models state no
liveness: a repeated source installation, in particular, is shown never to be refused
for what earlier runs left (`RerunNotRefused`), not to end.

## 4. Findings

1. `README.md:14` promises that reusing a key with the same payload returns the
   recorded result. When the server's default extraction mode changed in
   between, the same payload conflicts with itself (`server.py:545`).
2. `docs/client-release-packages.md:36` promises that existing model
   configuration is preserved. Recovery writes back the bytes it found before
   the interruption and drops what the user changed since
   (`install_client_release.py:69`).
3. `install_client_release.py:213` reports "prior installation restored" also
   when the switch stands (the final `unlink` failed) or when the restoration
   itself failed.
4. `README.md:377-378` promises "per-session/per-day limits". The counts of all sessions are
   cleared at each change of the date (`opencode_capture_policy.ts:217`), so a
   session over midnight (UTC) gets its limit twice.

### Known divergences and limits

What the models show next to the code's documents, without a run of its own; the
properties are stated with these exceptions, so they hold:

- The day limit of the capture policy does not hold around midnight either: a claim that took
  its date before midnight and the lock after another process's first claim of the new day
  sets the date, and with it the counters, back (`opencode_capture_policy.ts:214`), and the day
  may see more captures than `README.md:377-378` says. `LimitsKept` is stated between two
  changes of the date, `LateOnce` says how often it can turn back.
- `README.md:144` promises a capability heartbeat "during health checks". A health
  check (`server.py:1459`) asks only whether the Sidecar is ready (`Health`), so a lease that
  ran out stays so until the loop comes round.
- A request of the stdio bridge whose forwarding raises an exception other than those of
  line 152 (`http.client.IncompleteRead`, a `ValueError` for an invalid URL), or whose answer is
  an empty body, is never answered: the thread ends, and the host waits (`Lost`).
- A source installer replaces the line of its token variable in the dotenv file, whoever
  wrote it (`install_codex_plugin.py:215`, `install_opencode_plugin.py:194`): instances of
  different hosts or names that share an `--env-file` share the default variable, too. It drops
  the user's hooks that stand in one entry with its own (`install_codex_plugin.py:450-467`), and
  gives the marketplace its own name (`install_codex_plugin.py:328`). `Reach` names all three.
- Without a Sidecar, deleting the memories of an app goes through one bounded listing
  (`server.py:1054`): what lies beyond the window stays, and the answer does not say so.
  `DoneMeansGone` leaves this path out.
- The probe of the listing (`server.py:522-541`) takes one row or none as the sign
  that a limit is honoured. If the rows are deleted between the listing and the probe, a Core
  that ignores limits is taken for one that honours them, and the verdict is kept for the
  process, although such listings are to be marked incomplete (`tests/test_server.py:728`).
  `undermined` marks this case.
- A tool name that is a list or an object raises out of `handle_rpc`
  (`server.py:1414`): the connection closes, and the other items of the batch, some of which
  have run, get no answer. `tests/test_server_http_auth.py:364` has a batch answered
  around an invalid item.
- Pi reads `settings.json` before the build and writes it after the promotion
  (`install_pi_plugin.py:139`, 226): an edit made in between is lost, where
  `README.md:437` says that other settings are preserved.
- A memory whose `metadata.app_id` differs from its `app_id` is hidden from listings by
  `_matches`, so a bulk deletion leaves it (`Shown` in `BulkDelete`).
- Two Pi installations that overlap and both fail can lose the old package: the second one
  removes what the first has restored. `PackageKept` leaves this case out.
- After a kill during the write of `hooks.json` or `marketplace.json` the
  source installer refuses to run until the user repairs the file; a refresh with `--no-build`
  after `dist` was deleted fails if it is to register the plugin, and otherwise leaves
  the loader on a plugin without a build.
- A release installation that changes `--token-env-var` without giving the token keeps
  `credentials.env` under the old variable (`install_client_release.py:151-153`). The model
  leaves out this option, `--env-file` and `--host-dir`.
- An update by the Pi client that gives metadata writes back the metadata it has read and so
  undoes a move that happened in between.

## 5. Proofs

All theorems hold for every value of the constants that satisfies the
assumptions stated with them; none is a theorem about the small instances of
section 3.

Every safety and action property that a passing run checks is one of them; only
liveness is left to TLC.

**`BridgeAddProofs`, `BridgeRefinementProofs`** (any clients, keys, requests,
credentials, modes and any bound on faults). Assumed: `ArgsAssumption` (an
idempotency key is a key or absent, `infer` a Boolean, the mode a known one),
`CredAssumption` (authentication is on for everybody or off for everybody, as
`MEM0_MCP_AUTH_MODE` has it), `FaultsAssumption`, `ServerModesAssumption`, and the
behaviour of the external store in `SidecarStore`.

| Theorem | From |
|---|---|
| `TypeOK`, `WrittenOnce`, `ChildrenAgree`, `ReceiptSound`, `IncompleteMeansRecorded`, `ReceiptStable` | `IInv` |
| `EventsPrivate`, `ReceiptQueryable` | `EventInv` = `IInv` with `EventIds` and `CacheFits` |
| `ImplementsDurableAdd` | `RefinementInv` = `IInv` with `SplitFits` |
| `ProofInv` | `EventInv` and `RefinementInv` |

None of these properties is inductive. `ReceiptSound` needs to know what stands
behind an answer before the handler has turned it into a receipt (`RepliesFit`),
and what the handler of a dual request remembers of its first child
(`HandlersFit`). An answer that reaches a handler is the answer to *its* current
request only because a handler has one live request at a time (`OneLive`) and
late ones of an abandoned attempt are not read; `MessagesFit` says that a
live message is the request its handler waits for, and that each message is
filed under the store key its client and track call for. A project child is
always behind a recorded personal one because the message that creates it was only
sent then (`ProjectBacked`, part of `MessagesFit` and `CellsFit`), and because an
intent is never taken back (`Grows`, the lemma that carries everything about the
ledger over a step). `WorkingOwned` says that the Core write in progress is
that of the recorded intent. The proof has one lemma per group of actions of
the store and one per action of the bridge, with one step per conjunct
that the action can disturb.

The event queries need more: a cached event is a recorded one with its channel
(`CacheFits`), and event ids are unique (`EventIds`), else a query could answer
about somebody else's intent. For the refinement it must be known that raw
memories are never split (`SplitFits`). There, `Commit` and `Repair` map to
`RecordFirst` or `RecordSecond`, according to the form of the store key (or stutter,
for a keyless write or an intent settled by a repair before), the first receipt of a
client to `Grant`, and everything else, restarts and lost messages included, to a
stuttering step.

**`ReleaseInstallProofs`** (both hosts, any invocations, packages, endpoints and tokens, any
bound on faults and edits). Assumed: `ClientAssumption`, `BoundsAssumption` and
`NoArgAssumption` (absent is not the name of anything). `Settled` speaks of a root without an
open transaction only, so its invariant `InstallInv` has to say how every position of a run
relates to the root, the journal and the run's own copies. With a journal, the journal is the
installation (`BaseLink`, `BaseFiles`), and it is whole (`BaseWhole`); a run inside its
transaction has changed the files it has passed and nothing else (`Switches`), one that
undoes a transaction has put back those it has passed (`Restores`), one before its
transaction has read what is still there (`Prepares`). `LockHeld` makes all of these facts
about one run at a time. The commit point is the removal of the journal: there
the new files become the installation in one step, which is the `Switch` of
`AtomicInstall`; every other step, kills and recoveries included, maps to a stutter.

**`RequestSlotsProofs`** (any finite set of connections, any positive number of
slots): `SlotsConserved`, `RefusedOnlyWhenFull` and the types. The invariant adds
to the types and `SlotsConserved` which position goes with being in the backlog or
being started (`Positions`): without it a failing thread start could give back a
slot that its connection does not own.

**`ServerProofs`** (any threads, environments, keys, bodies, lines, messages and any bound
on failures) proves the properties of `McpServer` and `StdioBridge` under their own
specifications and carries them, with those of the slots, over to `Server`: a step of the
composition is a step or a stutter of each. Assumed: `McpAssumption` (above
all, the static token, the keys and "anonymous" are told apart) and `LinesAssumption`.

- `RunsAsItsCaller` speaks of tools that have run; `CallerInv` says the same of the principal
  bound to every thread past authentication, and that a key that is an administrator's
  while its request is being authenticated has been noted as such. It is carried by
  `MayRunAs`, which depends on the environment, the request and the history only, so that
  what other threads and the administrators do cannot disturb it.
- `RepliesRight` needs that no tool has run before a request is read (`RefusedInv`), and
  that the answers so far are those of the items so far, which an item in the middle that
  raises leaves so (`AnswersInv`).
- `OutputWhole` needs that the thread that prints has the lock and that a half-written
  message belongs to it (`LockHeld`), and for each line what has been printed and what
  is left related to what its post brought (`Due`); at the end nothing is left. What stays
  without an answer is `Lost`.
- `UpMeansReached` is the safety part of `SidecarReached`, and `Typed` the types of all three.

**`PluginInstallProofs`** (any runs, names, options and any bounds). Assumed:
`InstallAssumption` and `PromoteAssumption` (options are those of runs, owners and markers
are told apart).

- Source installers. Nothing protects a run from another one, so the invariants speak of
  undisturbed runs. `SourceInv`: such a run owns every part that it no longer has to write, and
  where the last runs of a name ended well, one of them is whole (`LastWhole`), which gives
  `BrokenMeansUnfinished`. `OrderInv`: what is left of a plan keeps its order, and between
  removing and copying the directory is gone; this gives `RerunNotRefused`, since a run
  then never meets a part it does not expect. `RefreshInv`: what a run has written to a shared
  file is there, no key holds more than one entry, and what it has read is what is still
  there; this gives `SuccessRefreshes` and `OthersKept`, for a stale copy is
  how an entry of somebody else would be lost. `UpdateOne` is what both need of the update
  itself: one entry under the run's key, and nothing changed out of its reach.
- Devin and Pi. `PromotionInv` says for each position of an undisturbed run what has been
  moved, written and undone, up to one failure (`Progress`, `Undoing`); `FailureRestores` and
  `SuccessIsComplete` are what it says at the end. `PackageKept` is about overlapping runs,
  where these facts fail: `HeldInv` says only that the package is in place or in somebody's
  backup, or that a run has succeeded.

**`PluginsProofs`** (any processes, texts, limits, callers, memories, apps, page size and
faults) proves `CapturePolicy` and `PiClient` and puts all parts of `Plugins` together.
Assumed: `CaptureAssumption`, `ClientAssumption` (limits are numbers, a page is not empty,
markers are told apart).

- `OneInside` is not inductive: the lock file must be the one that the process inside has
  created (`LockOwned`), although others die and leave theirs. For `CapturesClaimed`,
  `GrantsClaimed` says that a process that leaves with a grant has one more claim on disk than
  captures.
- `QuotasKept`, `NoDuplicates` and `ClaimsCounted` come from `SharedInv`: the claims on
  disk keep the limits and repeat nothing remembered, the file agrees with them unless it
  was damaged, and so will what a process is about to rename into place, which nobody
  outdates while it has the lock. Counters that are reset at a change of the date, and a
  list of hashes that drops its oldest, are related to a history of claims by lemmas on
  counting and on appending. `LateOnce` needs that a process which has made a claim takes
  the date of its next one afterwards, and so not before the claims it has seen (`LateInv`).
- `MutatesInScope`: whatever is in a running operation's scope now has been noted in
  `touched`, and every write on its way, also one whose operation has ended, names a
  memory noted there (`ScopeInv`). `ReportKept`: an operation has at most one write that it
  has not heard of (`ReportInv`), and what a `deleteAll` still has to look at is on its
  page or older than its cursor (`SweepInv`).

**`ReadsProofs`** (any callers, rows, limits, page sizes and bounds; any finite set of
entity ids). Assumed: `ListAssumption`, `DeleteAssumption`, `EntitiesAssumption`.

- `ListingHonest`: `ListingInv` says what a listing has received so far relates to the rows that
  were there all the time (with a window that the Core honours, caps or ignores), and what
  the verdict rests on (`Verdict`): a probe has at least two rows to be told about, unless a
  deletion undermines it.
- `DeletionHonest`: `Deleting` says for each call that what it still has on its page is not
  what it has reported, that it reports no id twice, and only rows that are gone or fading.
  A page shorter than its size that shows nothing new proves that nothing is left, which is
  a fact about the newest n of a finite set.
- `EntitiesRight`: what a listing has not collected is on the pages to come (`ToCome`), unless
  something before it was removed, and what it has collected is on pages it has passed
  (`Passed`), unless something before it appeared: both compare an entity's rank with
  the number of the next page. `InOrder` is the same for deletions.
- `StuckOnlyByStore` is the safety part of `DeletionEnds`.

Where a property counts or orders what a long list holds, the models use sets, functions
from keys to entries, and ranks instead of operators that recurse over sequences: what
a recursive definition computes for every input needs an induction over data, whose
theorems in the library take an operator as a parameter and so cannot be applied here.

Only model-checked: liveness (`Completes`, `Answered`, `InterruptedSwitchSettles`,
`AnsweredOrLost`, `HeartbeatRecovers` in `SidecarReached`, `Ends` in `DeletionEnds`), because
fairness needs `ENABLED`, which the prover does not handle.

## 6. Not modelled

- The Sidecar's and the Core's internals, Codex's own plugin cache, the contents of
  memories, archives and configuration files.
- Direct Core writes of `add_memory` (they have neither keys nor durable events), the
  iteration of `list_events` over the local cache while other threads insert, and the
  validation of arguments.
- `get_memory`, `update_memory`, `delete_memory`, `search_memories`: one call, no state. Filters,
  expiry and cut-offs are pure functions over JSON, which the unit tests compare value by
  value; a model of them would repeat the code.
- The generated layouts and source patches of the plugins: one step that succeeds or
  fails. The environment set-up of the Devin and native adapters.
- Release building and the publishing workflows: scripts that run once, on a
  hosting service. The promotion of `latest` by two runs at once would be the part to model.

What would come next: the workflow runs, with the promotion of `latest` by two releases at
once; `list_events` over a cache that changes while it is read; and the order between the
entries of different keys in a shared file, if a reader should come to depend on it.
