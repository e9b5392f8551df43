---------------------------- MODULE SourceInstall ----------------------------
(***************************************************************************)
(* The installers that work from the sources (install_codex_plugin.py,     *)
(* install_opencode_plugin.py).  They delete and write the plugin in its   *)
(* place, step by step, and update files that they share with the user and *)
(* with other instances: each is read, changed in memory, truncated and    *)
(* written.  There is no lock, no backup and no undoing: after a failure   *)
(* or a kill the user runs the installer again.                            *)
(***************************************************************************)
EXTENDS Naturals, Sequences

CONSTANTS
    Runs,       \* invocations with fixed options
    Hosts,      \* "codex", "opencode"
    NameOf,     \* NameOf[h][r]: the plugin name that r is given for host h
    VarOf,      \* VarOf[h][r]: its token variable, in the dotenv file of --env-file
    WithToken, WithHooks, NoBuild, WithInstall,  \* the runs with these options
    Changed,    \* the runs whose upstream sources lack an expected anchor
    MaxFaults,  \* bound on kills and failing operations
    None, Torn  \* nothing there; truncated and not written

Names == {NameOf[h][r] : h \in Hosts, r \in Runs}
Variables == {VarOf[h][r] : h \in Hosts, r \in Runs}

\* What the constants have to be.
SourceAssumption ==
    /\ Hosts \subseteq {"codex", "opencode"}
    /\ WithToken \cup WithHooks \cup NoBuild \cup WithInstall \cup Changed \subseteq Runs
    /\ MaxFaults \in Nat
    /\ {None, Torn} \cap Runs = {}

\* What the dotenv file, marketplace.json, hooks.json and config.toml are looked up by:
\* the catalog or hooks entries of a plugin, the user's hooks inside hooks entries of a
\* plugin, a token variable, the marketplace's name, codex_hooks, all else of the user.
Entry(n) == <<"plugin", n>>
Mixed(n) == <<"mixed", n>>
Line(v) == <<"variable", v>>
Title == <<"file", "name">>
Feature == <<"file", "codex_hooks">>
Own == <<"file", "own">>
Keys == {Entry(n) : n \in Names} \cup {Mixed(n) : n \in Names}
        \cup {Line(v) : v \in Variables} \cup {Title, Feature, Own}

\* A file has under each key what stands there, by who wrote it, with None for the user
\* and for other installations.  Files read as text are empty when truncated; JSON does
\* not load.
Having(keys) == [k \in Keys |-> IF k \in keys THEN <<None>> ELSE <<>>]
Empty == Having({})
Shared == {"token", "catalog", "hooks", "config"}
Text == {"token", "config"}

VARIABLES
    host,        \* the installer that is used
    plugin,      \* name -> part of its directory -> who wrote it
    files,       \* shared file -> key -> entries, or Torn
    registered,  \* name -> who made the host load it (plugin add, loader)
    status,      \* run -> "idle", "running", "ok", "failed" (or killed)
    todo,        \* run -> the steps still to do
    seen,        \* run -> what it has read of the shared file it is updating
    alone,       \* run -> no other run was running during its last attempt
    faults

vars == <<host, plugin, files, registered, status, todo, seen, alone, faults>>

Name(r) == NameOf[host][r]

Opt(S, r, step) == IF r \in S THEN <<step>> ELSE <<>>

\* main of either installer.
CodexPlan(r) ==
    <<"remove", "copy">> \o Opt(WithHooks \cup WithToken, r, "adapter") \o Opt(WithToken, r, "token")
    \o <<"manifest", "mcp", "catalog">>
    \o (IF r \in WithHooks THEN <<"hooks", "config">> ELSE <<>>) \o Opt(WithInstall, r, "register")

OpenCodePlan(r) ==
    <<"remove", "copy", "adapter">> \o Opt(WithToken, r, "token") \o <<"patch", "package">>
    \o Opt(Runs \ NoBuild, r, "build") \o Opt(WithInstall, r, "register")

Plan(r) == IF host = "codex" THEN CodexPlan(r) ELSE OpenCodePlan(r)

Parts == {"copy", "adapter", "manifest", "mcp", "patch", "package", "build"}
StepsOf(plan) == {plan[i] : i \in DOMAIN plan}
PartsOf(r) == StepsOf(Plan(r)) \cap Parts

Gone == [part \in Parts |-> None]

\* What an installation from another directory has left, and the user has added to.
Earlier(f) ==
    CASE f = "token"   -> {Line(v) : v \in Variables}
      [] f = "catalog" -> {Title}
      [] f = "hooks"   -> {Entry(n) : n \in Names} \cup {Mixed(n) : n \in Names}
      [] f = "config"  -> {Feature}

Init ==
    /\ host \in Hosts
    /\ plugin = [n \in Names |-> Gone]
    /\ \/ files = [f \in Shared |-> Having({Own})]
       \/ files = [f \in Shared |-> Having({Own} \cup Earlier(f))]
    /\ registered = [n \in Names |-> None]
    /\ status = [r \in Runs |-> "idle"]
    /\ todo = [r \in Runs |-> <<>>]
    /\ seen = [r \in Runs |-> None]
    /\ alone = [r \in Runs |-> TRUE]
    /\ faults = 0

Running(r) == status[r] = "running"
At(r, step) == Running(r) /\ todo[r] # <<>> /\ Head(todo[r]) = step
Done(r) == todo' = [todo EXCEPT ![r] = Tail(@)] /\ UNCHANGED <<status, alone, faults>>

-----------------------------------------------------------------------------
\* The user runs the installer, or runs it again.
Begin(r) ==
    /\ ~Running(r)
    /\ status' = [status EXCEPT ![r] = "running"]
    /\ todo' = [todo EXCEPT ![r] = Plan(r)]
    /\ seen' = [seen EXCEPT ![r] = None]
    /\ alone' = [q \in Runs |-> IF q = r THEN \A p \in Runs : ~Running(p)
                                ELSE alone[q] /\ ~Running(q)]
    /\ UNCHANGED <<plugin, files, registered, faults>>

\* copy_plugin: rmtree of the old directory.
RemoveOld(r) ==
    /\ At(r, "remove") /\ Done(r)
    /\ plugin' = [plugin EXCEPT ![Name(r)] = Gone]
    /\ UNCHANGED <<files, registered, seen>>

\* A step that cannot be done on the directory as it is: copytree into one that
\* exists, an edit of a file that does not, an anchor that is missing.
Impossible(r) ==
    LET here == plugin[Name(r)] IN
    \/ At(r, "copy") /\ here # Gone
    \/ At(r, "adapter") /\ host = "codex" /\ r \in Changed \cap WithHooks
    \/ At(r, "patch") /\ r \in Changed
    \/ \E step \in {"manifest", "patch", "package", "build", "hooks"} : At(r, step) /\ here["copy"] = None
    \/ At(r, "register") /\ host = "opencode" /\ here["build"] = None

Put(r, part) ==
    /\ At(r, part) /\ ~Impossible(r) /\ Done(r)
    /\ plugin' = [plugin EXCEPT ![Name(r)][part] = r]
    /\ UNCHANGED <<files, registered, seen>>

CopyPlugin(r) == Put(r, "copy")
WriteAdapter(r) == Put(r, "adapter")
UpdateManifest(r) == Put(r, "manifest")
WriteMcpConfig(r) == Put(r, "mcp")
PatchSource(r) == Put(r, "patch")
UpdatePackage(r) == Put(r, "package")
Build(r) == Put(r, "build")

Readable(f) == files[f] # Torn \/ f \in Text
Loaded(f) == IF files[f] = Torn THEN Empty ELSE files[f]

Read(r, f) ==
    /\ At(r, f) /\ seen[r] = None /\ Readable(f)
    /\ seen' = [seen EXCEPT ![r] = Loaded(f)]
    /\ UNCHANGED <<plugin, files, registered, status, todo, alone, faults>>

Strip_Foreign(entries, n) == entries

\* strip_owned_hooks: an entry goes as a whole as soon as one hook in it is the
\* plugin's, with the user's hooks in it (is_owned_hook_entry).
Strip(entries, n) == [entries EXCEPT ![Entry(n)] = <<>>, ![Mixed(n)] = <<>>]

\* merge_hooks appends the entries of the template.
Merge(entries, n, r) == [entries EXCEPT ![Entry(n)] = Append(@, r)]

Upsert_Rewrite(entries, key, r) == [Empty EXCEPT ![key] = <<r>>]

\* Replace what stands under the key, whoever wrote it, or append.
Upsert(entries, key, r) ==
    [entries EXCEPT ![key] = IF @ = <<>> THEN <<r>> ELSE [i \in DOMAIN @ |-> r]]

\* write_token_env_file goes by the variable, update_marketplace by the plugin's name,
\* enable_codex_hooks_feature by codex_hooks.
KeyOf(r, f) ==
    CASE f = "token"  -> Line(VarOf[host][r])
      [] f = "config" -> Feature
      [] OTHER        -> Entry(Name(r))

\* update_marketplace also gives the marketplace the name of r's.
Updated(r, f) ==
    CASE f = "hooks"   -> Merge(Strip(seen[r], Name(r)), Name(r), r)
      [] f = "catalog" -> Upsert([seen[r] EXCEPT ![Title] = <<r>>], KeyOf(r, f), r)
      [] OTHER         -> Upsert(seen[r], KeyOf(r, f), r)

Write(r, f) ==
    /\ At(r, f) /\ seen[r] # None /\ ~Impossible(r) /\ Done(r)
    /\ files' = [files EXCEPT ![f] = Updated(r, f)]
    /\ seen' = [seen EXCEPT ![r] = None]
    /\ UNCHANGED <<plugin, registered>>

WriteToken(r) == Read(r, "token") \/ Write(r, "token")
UpdateMarketplace(r) == Read(r, "catalog") \/ Write(r, "catalog")
InstallHooks(r) == Read(r, "hooks") \/ Write(r, "hooks")
EnableHooks(r) == Read(r, "config") \/ Write(r, "config")

\* codex plugin add, or install_local_loader.
Register(r) ==
    /\ At(r, "register") /\ ~Impossible(r) /\ Done(r)
    /\ registered' = [registered EXCEPT ![Name(r)] = r]
    /\ UNCHANGED <<plugin, files, seen>>

Succeed(r) ==
    /\ Running(r) /\ todo[r] = <<>>
    /\ status' = [status EXCEPT ![r] = "ok"]
    /\ UNCHANGED <<plugin, files, registered, todo, seen, alone, faults>>

\* The run fails or is killed at its current step, which may have destroyed what it
\* was writing.  A tree that rmtree was removing has lost any of its parts.
Stop(r) ==
    /\ status' = [status EXCEPT ![r] = "failed"]
    /\ \/ UNCHANGED <<plugin, files, registered>>
       \/ /\ At(r, "remove")
          /\ \E lost \in SUBSET {p \in Parts : plugin[Name(r)][p] # None} :
                plugin' = [plugin EXCEPT ![Name(r)] =
                             [p \in Parts |-> IF p \in lost THEN None ELSE @[p]]]
          /\ UNCHANGED <<files, registered>>
       \/ /\ \E p \in Parts : At(r, p) /\ plugin' = [plugin EXCEPT ![Name(r)][p] = Torn]
          /\ UNCHANGED <<files, registered>>
       \/ /\ \E f \in Shared : At(r, f) /\ seen[r] # None /\ files' = [files EXCEPT ![f] = Torn]
          /\ UNCHANGED <<plugin, registered>>
       \/ /\ At(r, "register") /\ registered' = [registered EXCEPT ![Name(r)] = Torn]
          /\ UNCHANGED <<plugin, files>>
    /\ UNCHANGED <<todo, seen, alone>>

\* An operation fails, or the installer is killed.
Fault(r) ==
    /\ Running(r) /\ todo[r] # <<>>
    /\ faults < MaxFaults /\ faults' = faults + 1
    /\ Stop(r)

\* What the run finds makes it fail before it writes anything.
Refused(r) ==
    /\ Impossible(r) \/ \E f \in Shared : At(r, f) /\ seen[r] = None /\ ~Readable(f)
    /\ status' = [status EXCEPT ![r] = "failed"]
    /\ UNCHANGED <<plugin, files, registered, todo, seen, alone, faults>>

Step(r) ==
    \/ RemoveOld(r) \/ CopyPlugin(r) \/ WriteAdapter(r) \/ UpdateManifest(r)
    \/ WriteMcpConfig(r) \/ PatchSource(r) \/ UpdatePackage(r) \/ Build(r)
    \/ WriteToken(r) \/ UpdateMarketplace(r) \/ InstallHooks(r) \/ EnableHooks(r)
    \/ Register(r) \/ Succeed(r) \/ Refused(r)

Next == UNCHANGED host /\ \E r \in Runs : Begin(r) \/ Step(r) \/ Fault(r)

Spec == Init /\ [][Next]_vars

-----------------------------------------------------------------------------
\* "Then rerun ... so the generated local marketplace copy and hook paths are
\* refreshed" (README.md): whatever earlier runs left behind, an undisturbed run
\* that succeeds leaves every part, the line of its token variable and the registration
\* its own, one catalog entry of its name and one group of its hooks.
SuccessRefreshes ==
    [][\A r \in Runs :
        LET n == Name(r) IN
        Running(r) /\ status'[r] = "ok" /\ alone[r] =>
            /\ \A part \in PartsOf(r) : plugin'[n][part] = r
            /\ r \in WithInstall => registered'[n] = r
            /\ host = "codex" => files'["catalog"][Entry(n)] = <<r>>
            /\ host = "codex" /\ r \in WithHooks => files'["hooks"][Entry(n)] = <<r>>
            /\ r \in WithToken => files'["token"][Line(VarOf[host][r])] = <<r>>]_vars

\* What r may take from others: the line of its token variable, from whoever else uses
\* that variable; the marketplace's name; and the user's hooks in entries of its plugin.
Reach(r, f) ==
    CASE f = "token"   -> {Line(VarOf[host][r])}
      [] f = "catalog" -> {Entry(Name(r)), Title}
      [] f = "hooks"   -> {Entry(Name(r)), Mixed(Name(r))}
      [] f = "config"  -> {Feature}

\* Beyond its reach an installer takes nothing: as long as runs do not overlap, whatever
\* else the user or another instance has in a shared file stays there as it is, except
\* where a write was cut short.
OthersKept ==
    [][\A f \in Shared, r \in Runs :
        (\A q \in Runs : Running(q) => alone[q]) /\ Running(r) /\ Torn \notin {files[f], files'[f]} =>
            \A k \in Keys \ Reach(r, f) : files'[f][k] = files[f][k]]_vars

Unbuilt(r) == host = "opencode" /\ r \in NoBuild \ WithInstall

\* A plugin that the host loads is whole unless a run of that name has not ended
\* well: with no other run at the same time, a broken plugin is the sign of a failed
\* one, or of a refresh with --no-build that left the loader alone.  Whole means all
\* that every run of the name which has ended well writes: one without the hooks
\* takes away the adapter of an earlier one.
BrokenMeansUnfinished ==
    \A n \in Names :
        LET mine == {r \in Runs : Name(r) = n}
            ended == {r \in mine : status[r] = "ok"} IN
        /\ registered[n] \in Runs
        /\ \A r \in mine : alone[r] /\ (status[r] = "idle" \/ (r \in ended /\ ~Unbuilt(r)))
        => \A part \in Parts :
              (\A r \in ended : part \in PartsOf(r)) \/ (host = "opencode" /\ part = "build")
              => plugin[n][part] \notin {None, Torn}

\* Repeating a run is not refused for what an earlier one left behind, wherever it
\* failed or was killed: undisturbed and without a fault of its own, a run fails
\* only on changed sources, on a catalog or hooks that do not load any more, or if
\* it is to register a plugin that it does not build.
RerunNotRefused ==
    [][\A r \in Runs :
        Running(r) /\ alone[r] /\ status'[r] = "failed" /\ faults' = faults =>
            \/ r \in Changed
            \/ host = "codex" /\ Torn \in {files["catalog"], files["hooks"]}
            \/ host = "opencode" /\ r \in NoBuild \cap WithInstall]_vars
==============================================================================
