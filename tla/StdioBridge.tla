----------------------------- MODULE StdioBridge -----------------------------
(***************************************************************************)
(* The stdio bridge that Codex and Devin start                             *)
(* (mem0_oss_stdio_bridge.py): each line of the host becomes a thread that *)
(* posts it to the HTTP bridge and prints what comes back.  Answers arrive *)
(* in any order, and the process waits for all threads when the input ends.*)
(***************************************************************************)
EXTENDS Integers, Sequences, FiniteSets

CONSTANTS
    NumLines,     \* lines that the host sends before it closes the input
    MaxMessages,  \* bound on the messages in one answer of the HTTP bridge
    None          \* nobody holds the output lock

Lines == 1..NumLines

\* What the constants have to be.
StdioAssumption == NumLines \in Nat /\ MaxMessages \in Nat \ {0} /\ None \notin Lines

VARIABLES
    address,  \* MEM0_OSS_MCP_URL and a token: "set" or "missing"
    kind,     \* line -> "request", "notification" or "junk"
    main,     \* "reading", "joining", "exited"
    read,     \* lines read so far
    worker,   \* line -> "none", "posting", "waiting", "printing", "done", "raised"
    left,     \* line -> messages still to print
    outcome,  \* line -> what the post brought: "none", "some", "empty", "failed" or "raised"
    lock,     \* output_lock
    half,     \* the line whose message is written, but not its newline yet; else None
    cut,      \* lines of which a message was half written when another one began
    answered  \* line -> messages printed for it

vars == <<address, kind, main, read, worker, left, outcome, lock, half, cut, answered>>

Init ==
    /\ address \in {"set", "missing"}
    /\ kind \in [Lines -> {"request", "notification", "junk"}]
    /\ main = "reading" /\ read = 0
    /\ worker = [l \in Lines |-> "none"]
    /\ left = [l \in Lines |-> 0]
    /\ outcome = [l \in Lines |-> "none"]
    /\ lock = None /\ half = None /\ cut = {}
    /\ answered = [l \in Lines |-> 0]

-----------------------------------------------------------------------------
\* main: junk is reported on stderr only.
ReadLine ==
    /\ main = "reading" /\ read < NumLines
    /\ read' = read + 1
    /\ worker' = [worker EXCEPT ![read + 1] = IF kind[read + 1] = "junk" THEN "done" ELSE "posting"]
    /\ UNCHANGED <<address, kind, main, left, outcome, lock, half, cut, answered>>

EndOfInput ==
    /\ main = "reading" /\ read = NumLines
    /\ main' = "joining"
    /\ UNCHANGED <<address, kind, read, worker, left, outcome, lock, half, cut, answered>>

Exit ==
    /\ main = "joining"
    /\ \A l \in Lines : worker[l] \in {"done", "raised"}
    /\ main' = "exited"
    /\ UNCHANGED <<address, kind, read, worker, left, outcome, lock, half, cut, answered>>

ToPrint(l, n) ==
    /\ left' = [left EXCEPT ![l] = n]
    /\ worker' = [worker EXCEPT ![l] = IF n = 0 THEN "done" ELSE "waiting"]
    /\ UNCHANGED <<address, kind, main, read, lock, half, cut, answered>>

\* The bridge's own error answer, for a line that has an id.
ErrorAnswer(l) == IF kind[l] = "request" THEN 1 ELSE 0

\* handle_message without URL or token.
Unusable(l) ==
    /\ worker[l] = "posting" /\ address = "missing"
    /\ ToPrint(l, ErrorAnswer(l)) /\ UNCHANGED outcome

\* proxy_message and response_messages: an empty body, one message, or events.
Reply(l, n) ==
    /\ worker[l] = "posting" /\ address = "set"
    /\ outcome' = [outcome EXCEPT ![l] = IF n = 0 THEN "empty" ELSE "some"]
    /\ ToPrint(l, n)

\* Refused, reset, timed out, or an HTTP error status.
PostFails_Silent(l) ==
    /\ worker[l] = "posting" /\ address = "set"
    /\ outcome' = [outcome EXCEPT ![l] = "failed"]
    /\ ToPrint(l, 0)

PostFails(l) ==
    /\ worker[l] = "posting" /\ address = "set"
    /\ outcome' = [outcome EXCEPT ![l] = "failed"]
    /\ ToPrint(l, ErrorAnswer(l))

\* An exception that handle_message does not catch, which is any that is not an
\* OSError (a truncated body, a malformed URL), ends the thread without a message.
PostRaises(l) ==
    /\ worker[l] = "posting" /\ address = "set"
    /\ worker' = [worker EXCEPT ![l] = "raised"]
    /\ outcome' = [outcome EXCEPT ![l] = "raised"]
    /\ UNCHANGED <<address, kind, main, read, left, lock, half, cut, answered>>

Lock_Unlocked(l) ==
    /\ worker[l] = "waiting"
    /\ lock' = l
    /\ worker' = [worker EXCEPT ![l] = "printing"]
    /\ UNCHANGED <<address, kind, main, read, left, outcome, half, cut, answered>>

Lock(l) ==
    /\ worker[l] = "waiting" /\ lock = None
    /\ lock' = l
    /\ worker' = [worker EXCEPT ![l] = "printing"]
    /\ UNCHANGED <<address, kind, main, read, left, outcome, half, cut, answered>>

\* emit: print writes the message, then the newline, then flushes.
Write(l) ==
    /\ worker[l] = "printing" /\ left[l] > 0 /\ half # l
    /\ cut' = cut \cup ({half} \ {None})
    /\ half' = l
    /\ UNCHANGED <<address, kind, main, read, worker, left, outcome, lock, answered>>

EndLine(l) ==
    /\ worker[l] = "printing" /\ half = l
    /\ half' = None
    /\ left' = [left EXCEPT ![l] = @ - 1]
    /\ answered' = [answered EXCEPT ![l] = @ + 1]
    /\ UNCHANGED <<address, kind, main, read, worker, outcome, lock, cut>>

Unlock(l) ==
    /\ worker[l] = "printing" /\ left[l] = 0
    /\ lock' = None
    /\ worker' = [worker EXCEPT ![l] = "done"]
    /\ UNCHANGED <<address, kind, main, read, left, outcome, half, cut, answered>>

Work(l) ==
    \/ Unusable(l) \/ (\E n \in 0..MaxMessages : Reply(l, n))
    \/ PostFails(l) \/ PostRaises(l)
    \/ Lock(l) \/ Write(l) \/ EndLine(l) \/ Unlock(l)

Next == ReadLine \/ EndOfInput \/ Exit \/ \E l \in Lines : Work(l)

Spec == Init /\ [][Next]_vars

\* Posts time out after 60 seconds, so every thread ends its post; each thread takes
\* the lock once.
FairSpec ==
    /\ Spec
    /\ WF_vars(ReadLine) /\ WF_vars(EndOfInput) /\ WF_vars(Exit)
    /\ \A l \in Lines : WF_vars(Work(l))

-----------------------------------------------------------------------------
\* Threads, counters and the lock have their types.
TypeOK ==
    /\ address \in {"set", "missing"}
    /\ kind \in [Lines -> {"request", "notification", "junk"}]
    /\ main \in {"reading", "joining", "exited"}
    /\ read \in 0..NumLines
    /\ worker \in [Lines -> {"none", "posting", "waiting", "printing", "done", "raised"}]
    /\ left \in [Lines -> Nat]
    /\ outcome \in [Lines -> {"none", "some", "empty", "failed", "raised"}]
    /\ lock \in Lines \cup {None}
    /\ half \in Lines \cup {None}
    /\ cut \subseteq Lines
    /\ answered \in [Lines -> Nat]

\* No message is cut in two by another one, whatever the order of the answers
\* (output_lock around every emit).
NeverMixed == cut = {}

\* The posts whose line the host never hears of again: the HTTP bridge gave an empty
\* body, or the thread was ended by an exception.
Lost(l) == outcome[l] \in {"empty", "raised"}

\* When the process ends, exactly the requests whose post is not lost have an answer,
\* and what is no request has one only if the HTTP bridge gave it.
ExitAnswered ==
    main = "exited" =>
        /\ half = None
        /\ \A l \in Lines :
              /\ kind[l] = "request" => (answered[l] > 0 <=> ~Lost(l))
              /\ kind[l] # "request" /\ outcome[l] # "some" => answered[l] = 0

\* The process ends after its input has ended, also when threads were ended by an
\* exception.
Ends == <>(main = "exited")

\* A request is answered at last, by the HTTP bridge or by an error of the stdio
\* bridge, or its own post is lost: what happens to other lines never keeps it waiting.
AnsweredOrLost ==
    \A l \in Lines :
        worker[l] = "posting" /\ kind[l] = "request" ~> answered[l] > 0 \/ Lost(l)
==============================================================================
