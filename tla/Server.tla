-------------------------------- MODULE Server --------------------------------
(***************************************************************************)
(* The processes that serve a host, side by side: the listener's request   *)
(* slots (RequestSlots), the handlers and the heartbeat (McpServer) and    *)
(* the stdio bridge (StdioBridge).  Their models share no variable: a step *)
(* of the system is a step of one of them.                                 *)
(***************************************************************************)
EXTENDS RequestSlots

CONSTANTS
    Threads, Environments, Keys, Bodies, MaxBatch, MaxFailures, Static, Nothing,
    NumLines, MaxMessages, None

VARIABLES
    env, server, healthy, lease, health, standing, pc, request, principal, next,
    answers, reply, ran, valid, failures,
    address, kind, main, read, worker, left, outcome, lock, half, cut, answered

mcpVars == <<env, server, healthy, lease, health, standing, pc, request, principal, next,
             answers, reply, ran, valid, failures>>
stdioVars == <<address, kind, main, read, worker, left, outcome, lock, half, cut, answered>>
allVars == <<vars, mcpVars, stdioVars>>

Mcp == INSTANCE McpServer
Stdio == INSTANCE StdioBridge

ASSUME McpAssumption == Mcp!ServerAssumption
ASSUME LinesAssumption == Stdio!StdioAssumption

-----------------------------------------------------------------------------
ServerInit == Init /\ Mcp!Init /\ Stdio!Init

SlotsStep == Next /\ UNCHANGED <<mcpVars, stdioVars>>
McpStep == Mcp!Next /\ UNCHANGED <<vars, stdioVars>>
StdioStep == Stdio!Next /\ UNCHANGED <<vars, mcpVars>>

ServerNext == SlotsStep \/ McpStep \/ StdioStep

ServerSpec == ServerInit /\ [][ServerNext]_allVars

-----------------------------------------------------------------------------
\* The properties of McpServer and StdioBridge; see there for what they say of
\* the code.

\* The slots, the handlers and the bridge keep their types; above all no handler has
\* more answers or runs than items it has come to (do_POST).
Typed == TypeOK /\ Mcp!TypeOK /\ Stdio!TypeOK

\* Each tool runs as the caller of its own request (server.py, auth.py).
RunsAsItsCaller == Mcp!RunsAsItsCaller

\* What is sent for a batch answers it item by item, in order, and a request that is
\* refused has run nothing (do_POST checks the body before it runs any item).  A
\* connection that is closed by an exception of handle_rpc has no answer at all.
RepliesRight == Mcp!BatchAnswered /\ Mcp!RefusedRunsNothing

\* A required Sidecar has been reached before the listener opens (main).
UpMeansReached == Mcp!UpMeansReached

\* No message begins on the output while another one is half written, and when the
\* stdio bridge ends, exactly the requests have an answer whose post was not lost to an
\* empty body or to an exception that ended its thread (handle_message, main).
OutputWhole == Stdio!NeverMixed /\ Stdio!ExitAnswered
===============================================================================
