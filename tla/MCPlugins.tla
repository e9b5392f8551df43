------------------------------- MODULE MCPlugins -------------------------------
(***************************************************************************)
(* A small instance of Plugins.  Its four models share no variable, so a   *)
(* behaviour watches one of them while the others rest.  Every behaviour   *)
(* here is one of PluginsSpec.                                             *)
(***************************************************************************)
EXTENDS Plugins

CONSTANTS r1, r2, p1, p2

VARIABLE watched

\* Two instances for Codex, and an update of one for OpenCode.
MCNameOf == [codex |-> [r \in Runs |-> IF r = r1 THEN "home" ELSE "work"],
             opencode |-> [r \in Runs |-> "home"]]

\* They share one dotenv file, each with a variable of its own; the update has its own.
MCVarOf == [codex |-> [r \in Runs |-> IF r = r1 THEN "HOME_TOKEN" ELSE "WORK_TOKEN"],
            opencode |-> [r \in Runs |-> "HOME_TOKEN"]]

\* Two sessions of one project.
MCAppOf == [p \in Processes |-> "app"]
MCSessionOf == [p \in Processes |-> IF p = p1 THEN "s1" ELSE "s2"]
MCRequested == [p \in Processes |-> "bounded"]

\* Of two operations of the Pi client one is narrowed to an app.
MCCallers == {"narrow", "wide"}
PiScope == [c \in MCCallers |-> IF c = "narrow" THEN "x" ELSE "any"]
MCCalls ==
    [c \in MCCallers |->
       {[kind |-> "all", scope |-> PiScope[c], id |-> 0, app |-> "none"]}
       \cup [kind : {"delete"}, scope : {PiScope[c]}, id : {1, 2}, app : {"none"}]
       \cup [kind : {"update"}, scope : {PiScope[c]}, id : {1, 2}, app : AppIds \cup {"none", "any"}]]

-----------------------------------------------------------------------------
\* What is not watched stays in one initial state.  Codex's files have been written to
\* by an installation from another directory, OpenCode's have not.  Devin's or Pi's
\* plugin is installed with its credential before, or not at all.
WatchedInit ==
    /\ watched \in {"source", "promotion", "policy", "pi"}
    /\ PluginsInit
    /\ watched # "source" => host = "codex"
    /\ (host = "codex") <=> (files["config"] # Source!Having({Source!Own}))
    /\ env = target
    /\ watched # "promotion" => client = "devin" /\ target = None
    /\ watched # "policy" => \A p \in Processes : text[p] = "t1"
    /\ watched # "pi" => stored = 1 /\ memory[1] = "x"

WatchedNext ==
    /\ UNCHANGED watched
    /\ \/ watched = "source" /\ SourceStep
       \/ watched = "promotion" /\ PromotionStep
       \/ watched = "policy" /\ PolicyStep
       \/ watched = "pi" /\ PiStep

WatchedSpec == WatchedInit /\ [][WatchedNext]_<<watched, allVars>>
================================================================================
