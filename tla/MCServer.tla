------------------------------- MODULE MCServer -------------------------------
(***************************************************************************)
(* Small instances of Server.  Its three models share no variable, so a    *)
(* behaviour watches one of them while the others rest; McpServer is       *)
(* watched three times: for several callers, for all kinds of batches, and *)
(* next to a Sidecar.  Every behaviour here is one of ServerSpec.          *)
(***************************************************************************)
EXTENDS Server

CONSTANTS c1, c2, c3, c4, t1, t2

VARIABLE watched

Direct == [mode |-> "static", token |-> TRUE, url |-> TRUE, loopback |-> FALSE,
           sidecar |-> FALSE, required |-> FALSE, operator |-> FALSE]
Hybrid == [Direct EXCEPT !.mode = "hybrid"]

\* One environment of each mode, right and wrong, and those with a Sidecar.
ModeEnvironments ==
    {[Direct EXCEPT !.mode = m] : m \in {"disabled", "static", "core_api_key"}}
    \cup {[Direct EXCEPT !.mode = "disabled", !.loopback = TRUE]}
    \cup {[Hybrid EXCEPT !.token = t] : t \in BOOLEAN}
SidecarEnvironments ==
    {[Direct EXCEPT !.mode = "unset", !.sidecar = TRUE, !.required = r, !.operator = o] :
        r, o \in BOOLEAN}
MCEnvironments == ModeEnvironments \cup SidecarEnvironments

Body(shape, items) == [shape |-> shape, items |-> items]

\* Bodies of overlapping requests, and bodies that meet every kind of item.
CallerBodies == {Body("single", <<"tool">>), Body("batch", <<"tool", "tool">>)}
ItemKinds == {"initialize", "tool", "failing", "unknown", "notification", "invalid",
              "notObject", "unhashable"}
BatchBodies ==
    {Body("batch", <<i, j>>) : i \in {"tool", "failing"}, j \in ItemKinds}
    \cup {Body("batch", <<i, "tool">>) : i \in ItemKinds}
    \cup {Body("single", <<i>>) : i \in ItemKinds \ {"notObject"}}
    \cup {Body("batch", <<>>), Body("batch", <<"tool", "tool", "tool">>),
          Body("large", <<"tool">>), Body("scalar", <<>>), Body("garbage", <<>>)}
MCBodies == CallerBodies \cup BatchBodies

-----------------------------------------------------------------------------
\* What is not watched stays in one initial state.  The last line that the stdio
\* bridge reads is a request.
WatchedInit ==
    /\ watched \in {"slots", "callers", "batches", "heartbeat", "stdio"}
    /\ ServerInit
    /\ env \in CASE watched = "callers"   -> ModeEnvironments
                 [] watched = "heartbeat" -> SidecarEnvironments
                 [] OTHER                 -> {Hybrid}
    /\ watched \notin {"callers", "batches"} => \A k \in Keys : standing[k] = "admin"
    /\ kind[NumLines] = "request"
    /\ watched # "stdio" => address = "set" /\ \A l \in Stdio!Lines : kind[l] = "request"

\* Overlapping requests of both threads; all kinds of batches for one; requests of
\* one next to a Sidecar.
CallersNext ==
    \/ Mcp!Serving
    \/ \E t \in Threads, c \in Mcp!Credentials, b \in CallerBodies : Mcp!Post(t, c, b)

BatchesNext == Mcp!Serving \/ \E c \in Mcp!Credentials, b \in BatchBodies : Mcp!Post(t1, c, b)

HeartbeatNext ==
    Mcp!Running \/ \E c \in Mcp!Credentials, b \in CallerBodies : Mcp!Post(t1, c, b)

WatchedNext ==
    /\ UNCHANGED watched
    /\ \/ watched = "slots" /\ SlotsStep
       \/ watched = "callers" /\ CallersNext /\ UNCHANGED <<vars, stdioVars>>
       \/ watched = "batches" /\ BatchesNext /\ UNCHANGED <<vars, stdioVars>>
       \/ watched = "heartbeat" /\ HeartbeatNext /\ UNCHANGED <<vars, stdioVars>>
       \/ watched = "stdio" /\ StdioStep

WatchedSpec == WatchedInit /\ [][WatchedNext]_<<watched, allVars>>

\* The fairness of each model, while it is watched.
WatchedFairSpec ==
    /\ WatchedSpec
    /\ WF_vars(watched = "slots" /\ (Admit \/ Refuse))
    /\ WF_vars(watched = "slots" /\ (StartThread \/ StartFails))
    /\ \A c \in Conns : WF_vars(watched = "slots" /\ (Handled(c) \/ Leave(c)))
    /\ WF_mcpVars(watched = "heartbeat" /\ Mcp!Heartbeat)
    /\ WF_stdioVars(watched = "stdio" /\ (Stdio!ReadLine \/ Stdio!EndOfInput \/ Stdio!Exit))
    /\ \A l \in Stdio!Lines : WF_stdioVars(watched = "stdio" /\ Stdio!Work(l))

-----------------------------------------------------------------------------
\* The listener opens only after a required Sidecar has been reached (main), and the
\* Sidecar has a current heartbeat again and again (_heartbeat_loop).
SidecarReached == UpMeansReached /\ Mcp!HeartbeatRecovers

\* A request that the stdio bridge has read is answered at last, unless its own post
\* brought an empty body or ended its thread by an exception that handle_message does
\* not catch; the bridge ends after its input has ended all the same
\* (handle_message, main).
AnsweredOrLost == Stdio!AnsweredOrLost /\ (watched = "stdio" => Stdio!Ends)
===============================================================================
