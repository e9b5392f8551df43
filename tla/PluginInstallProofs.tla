------------------------- MODULE PluginInstallProofs -------------------------
(***************************************************************************)
(* Proofs about Plugins: the installers, SourceInstall and                 *)
(* PluginPromotion, for any runs, names and options.                       *)
(***************************************************************************)
EXTENDS Plugins, SequenceTheorems, TLAPS

-----------------------------------------------------------------------------
\* SourceInstall, for any runs, names and options.

\* What a run has to do, as a set of steps.
Steps == Source!Parts \cup Source!Shared \cup {"remove", "register"}

\* A plan begins by removing the old directory and copying the new one, and does so
\* once.
Opens(plan) ==
    /\ plan \in Seq(Steps) /\ plan # <<>> /\ Head(plan) = "remove"
    /\ \A i \in DOMAIN plan : plan[i] = "remove" => i = 1
    /\ Len(plan) > 1 /\ plan[2] = "copy"
    /\ \A i \in DOMAIN plan : plan[i] = "copy" => i = 2

\* A plan registers the plugin after everything else.
RegistersLast(plan) == \A i \in DOMAIN plan : plan[i] = "register" => i = Len(plan)

\* What may follow in a plan.
Later == Steps \ {"remove", "copy"}

LEMMA PlanGrows ==
    ASSUME NEW plan, Opens(plan), NEW more \in Seq(Later)
    PROVE  /\ Opens(plan \o more)
           /\ Source!StepsOf(plan \o more) = Source!StepsOf(plan) \cup Source!StepsOf(more)
<1>0. more \in Seq(Steps) /\ \A i \in 1..Len(more) : more[i] # "remove" /\ more[i] # "copy"
  <2>1. \A i \in 1..Len(more) : more[i] \in Later
    OBVIOUS
  <2> QED
    BY <2>1 DEF Later
<1>1. plan \in Seq(Steps) /\ plan \o more \in Seq(Steps)
  BY <1>0 DEF Opens
<1>2. /\ Len(plan \o more) = Len(plan) + Len(more)
      /\ \A i \in 1..Len(plan) : (plan \o more)[i] = plan[i]
      /\ \A i \in 1..Len(more) : (plan \o more)[Len(plan) + i] = more[i]
  BY <1>0, <1>1
<1>3. /\ Len(plan) \in Nat \ {0} /\ Len(more) \in Nat
      /\ DOMAIN plan = 1..Len(plan) /\ DOMAIN more = 1..Len(more)
      /\ DOMAIN (plan \o more) = 1..(Len(plan) + Len(more))
  BY <1>0, <1>1, <1>2 DEF Opens
<1>4. \A i \in DOMAIN (plan \o more) :
        \/ i \in DOMAIN plan /\ (plan \o more)[i] = plan[i]
        \/ i - Len(plan) \in DOMAIN more /\ (plan \o more)[i] = more[i - Len(plan)]
  <2> SUFFICES ASSUME NEW i \in DOMAIN (plan \o more), ~(i \in DOMAIN plan)
               PROVE  i - Len(plan) \in DOMAIN more /\ (plan \o more)[i] = more[i - Len(plan)]
    BY <1>2, <1>3
  <2>1. i \in Int /\ i - Len(plan) \in 1..Len(more) /\ Len(plan) + (i - Len(plan)) = i
    BY <1>3
  <2> QED
    BY <1>2, <1>3, <2>1
<1>5. Opens(plan \o more)
  <2>1. plan \o more # <<>> /\ Head(plan \o more) = plan[1] /\ plan[1] = "remove"
    BY <1>1, <1>2, <1>3 DEF Opens
  <2>2. \A i \in DOMAIN (plan \o more) : (plan \o more)[i] = "remove" => i = 1
    BY <1>0, <1>3, <1>4 DEF Opens
  <2>3. /\ Len(plan \o more) > 1 /\ (plan \o more)[2] = "copy"
        /\ \A i \in DOMAIN (plan \o more) : (plan \o more)[i] = "copy" => i = 2
    BY <1>0, <1>2, <1>3, <1>4 DEF Opens
  <2> QED
    BY <1>1, <2>1, <2>2, <2>3 DEF Opens
<1>6. Source!StepsOf(plan \o more) = Source!StepsOf(plan) \cup Source!StepsOf(more)
  <2>1. Source!StepsOf(plan \o more) \subseteq Source!StepsOf(plan) \cup Source!StepsOf(more)
    BY <1>4 DEF Source!StepsOf
  <2>2. \A i \in DOMAIN plan : i \in DOMAIN (plan \o more) /\ (plan \o more)[i] = plan[i]
    BY <1>2, <1>3
  <2>3. \A i \in DOMAIN more :
          Len(plan) + i \in DOMAIN (plan \o more) /\ (plan \o more)[Len(plan) + i] = more[i]
    BY <1>2, <1>3
  <2>4. Source!StepsOf(plan) \subseteq Source!StepsOf(plan \o more)
    BY <2>2 DEF Source!StepsOf
  <2>5. Source!StepsOf(more) \subseteq Source!StepsOf(plan \o more)
    BY <2>3 DEF Source!StepsOf
  <2> QED
    BY <2>1, <2>4, <2>5
<1> QED
  BY <1>5, <1>6

LEMMA OptSteps ==
    ASSUME NEW S, NEW r, NEW step \in Later
    PROVE  /\ Source!Opt(S, r, step) \in Seq(Later)
           /\ Source!StepsOf(Source!Opt(S, r, step)) = IF r \in S THEN {step} ELSE {}
<1>1. <<step>> \in Seq(Later) /\ << >> \in Seq(Later)
  OBVIOUS
<1>2. Source!StepsOf(<<step>>) = {step} /\ Source!StepsOf(<< >>) = {}
  BY DEF Source!StepsOf
<1> QED
  BY <1>1, <1>2 DEF Source!Opt

LEMMA RegisterAdded ==
    ASSUME NEW plan \in Seq(Steps), "register" \notin Source!StepsOf(plan), NEW r
    PROVE  RegistersLast(plan \o Source!Opt(WithInstall, r, "register"))
<1>1. \A i \in DOMAIN plan : plan[i] # "register"
  BY DEF Source!StepsOf
<1>2. CASE r \in WithInstall
  <2> DEFINE long == plan \o <<"register">>
  <2>1. "register" \in Steps
    BY DEF Steps
  <2>2. Len(plan) \in Nat /\ DOMAIN plan = 1..Len(plan) /\ Len(<<"register">>) = 1
    OBVIOUS
  <2>3. /\ long \in Seq(Steps) /\ Len(long) = Len(plan) + 1
        /\ \A i \in 1..Len(plan) : long[i] = plan[i]
    BY <2>1
  <2>4. DOMAIN long = 1..(Len(plan) + 1)
    BY <2>3
  <2>5. RegistersLast(long)
    BY <1>1, <2>2, <2>3, <2>4 DEF RegistersLast
  <2> QED
    BY <1>2, <2>5 DEF Source!Opt
<1>3. CASE r \notin WithInstall
  <2>1. plan \o <<>> = plan
    OBVIOUS
  <2> QED
    BY <1>1, <1>3, <2>1 DEF Source!Opt, RegistersLast
<1> QED
  BY <1>2, <1>3

\* The steps of a plan, for either host.
LEMMA PlanShape ==
    ASSUME host \in {"codex", "opencode"}, NEW r \in Runs
    PROVE  /\ Opens(Source!Plan(r))
           /\ r \in WithToken => "token" \in Source!StepsOf(Source!Plan(r))
           /\ r \in WithInstall => "register" \in Source!StepsOf(Source!Plan(r))
           /\ host = "codex" => "catalog" \in Source!StepsOf(Source!Plan(r))
           /\ host = "codex" /\ r \in WithHooks => "hooks" \in Source!StepsOf(Source!Plan(r))
           /\ host = "opencode" =>
                 /\ ("build" \in Source!StepsOf(Source!Plan(r))) <=> (r \notin NoBuild)
                 /\ ("register" \in Source!StepsOf(Source!Plan(r))) <=> (r \in WithInstall)
                 /\ RegistersLast(Source!Plan(r))
                 /\ {"catalog", "hooks"} \cap Source!StepsOf(Source!Plan(r)) = {}
<1>1. Opens(<<"remove", "copy">>) /\ Source!StepsOf(<<"remove", "copy">>) = {"remove", "copy"}
  BY DEF Opens, Source!StepsOf, Steps, Source!Parts, Source!Shared
<1>2. CASE host = "codex"
  <2> DEFINE a == Source!Opt(WithHooks \cup WithToken, r, "adapter")
             b == Source!Opt(WithToken, r, "token")
             c == <<"manifest", "mcp", "catalog">>
             d == IF r \in WithHooks THEN <<"hooks", "config">> ELSE <<>>
             e == Source!Opt(WithInstall, r, "register")
  <2>1. \A s \in {a, b, c, d, e} : s \in Seq(Later)
    <3>1. \A s \in {a, b, e} : s \in Seq(Later)
      BY OptSteps DEF Later, Steps, Source!Parts, Source!Shared
    <3>2. c \in Seq(Later) /\ d \in Seq(Later)
      <4>1. /\ "manifest" \in Later /\ "mcp" \in Later /\ "catalog" \in Later
            /\ "hooks" \in Later /\ "config" \in Later
        BY DEF Later, Steps, Source!Parts, Source!Shared
      <4> QED
        BY <4>1
    <3> QED
      BY <3>1, <3>2
  <2>8. /\ r \in WithToken => "token" \in Source!StepsOf(b)
        /\ "catalog" \in Source!StepsOf(c)
        /\ r \in WithHooks => "hooks" \in Source!StepsOf(d)
        /\ r \in WithInstall => "register" \in Source!StepsOf(e)
    <3>1. "token" \in Later /\ "register" \in Later
      BY DEF Later, Steps, Source!Shared
    <3>2. r \in WithHooks => d = <<"hooks", "config">>
      OBVIOUS
    <3>3. "hooks" \in Source!StepsOf(<<"hooks", "config">>)
      BY DEF Source!StepsOf
    <3>4. "catalog" \in Source!StepsOf(c)
      BY DEF Source!StepsOf
    <3>5. /\ r \in WithToken => "token" \in Source!StepsOf(b)
          /\ r \in WithInstall => "register" \in Source!StepsOf(e)
      BY <3>1, OptSteps
    <3> QED
      BY <3>2, <3>3, <3>4, <3>5
  <2> HIDE DEF a, b, c, d, e
  <2>2. Opens(<<"remove", "copy">> \o a)
    BY <1>1, <2>1, PlanGrows
  <2>3. /\ Opens(<<"remove", "copy">> \o a \o b)
        /\ Source!StepsOf(b) \subseteq Source!StepsOf(<<"remove", "copy">> \o a \o b)
    BY <2>1, <2>2, PlanGrows
  <2>4. /\ Opens(<<"remove", "copy">> \o a \o b \o c)
        /\ Source!StepsOf(b) \cup Source!StepsOf(c)
              \subseteq Source!StepsOf(<<"remove", "copy">> \o a \o b \o c)
    BY <2>1, <2>3, PlanGrows
  <2>5. /\ Opens(<<"remove", "copy">> \o a \o b \o c \o d)
        /\ Source!StepsOf(b) \cup Source!StepsOf(c) \cup Source!StepsOf(d)
              \subseteq Source!StepsOf(<<"remove", "copy">> \o a \o b \o c \o d)
    BY <2>1, <2>4, PlanGrows
  <2>6. /\ Opens(<<"remove", "copy">> \o a \o b \o c \o d \o e)
        /\ Source!StepsOf(b) \cup Source!StepsOf(c) \cup Source!StepsOf(d) \cup Source!StepsOf(e)
              \subseteq Source!StepsOf(<<"remove", "copy">> \o a \o b \o c \o d \o e)
    BY <2>1, <2>5, PlanGrows
  <2>7. Source!Plan(r) = <<"remove", "copy">> \o a \o b \o c \o d \o e
    BY <1>2 DEF Source!Plan, Source!CodexPlan, a, b, c, d, e
  <2> QED
    BY <1>2, <2>6, <2>7, <2>8
<1>3. CASE host = "opencode"
  <2> DEFINE a == <<"remove", "copy", "adapter">>
             b == Source!Opt(WithToken, r, "token")
             c == <<"patch", "package">>
             d == Source!Opt(Runs \ NoBuild, r, "build")
             e == Source!Opt(WithInstall, r, "register")
  <2>1. \A s \in {b, c, d, e} : s \in Seq(Later)
    <3>1. \A s \in {b, d, e} : s \in Seq(Later)
      BY OptSteps DEF Later, Steps, Source!Parts, Source!Shared
    <3>2. c \in Seq(Later)
      BY DEF Later, Steps, Source!Parts, Source!Shared
    <3> QED
      BY <3>1, <3>2
  <2>2. Opens(a) /\ "build" \notin Source!StepsOf(a) /\ "register" \notin Source!StepsOf(a)
    BY DEF Opens, Source!StepsOf, Steps, Source!Parts, Source!Shared, a
  <2>10. Source!StepsOf(a) = {"remove", "copy", "adapter"}
    BY DEF Source!StepsOf, a
  <2>3. /\ {"build", "register", "catalog", "hooks"} \cap (Source!StepsOf(b) \cup Source!StepsOf(c)) = {}
        /\ "build" \notin Source!StepsOf(b) /\ "register" \notin Source!StepsOf(b)
        /\ "build" \notin Source!StepsOf(c) /\ "register" \notin Source!StepsOf(c)
    <3>1. Source!StepsOf(c) = {"patch", "package"}
      BY DEF Source!StepsOf
    <3>2. Source!StepsOf(b) \subseteq {"token"}
      BY OptSteps DEF Later, Steps, Source!Parts, Source!Shared
    <3> QED
      BY <3>1, <3>2
  <2>4. /\ Source!StepsOf(d) = IF r \in NoBuild THEN {} ELSE {"build"}
        /\ Source!StepsOf(e) = IF r \in WithInstall THEN {"register"} ELSE {}
    <3>1. "build" \in Later /\ "register" \in Later
      BY DEF Later, Steps, Source!Parts, Source!Shared
    <3>2. Source!StepsOf(d) = IF r \in Runs \ NoBuild THEN {"build"} ELSE {}
      BY <3>1, OptSteps
    <3>3. Source!StepsOf(e) = IF r \in WithInstall THEN {"register"} ELSE {}
      BY <3>1, OptSteps
    <3> QED
      BY <3>2, <3>3
  <2>13. r \in WithToken => "token" \in Source!StepsOf(b)
    <3>1. "token" \in Later
      BY DEF Later, Steps, Source!Shared
    <3> QED
      BY <3>1, OptSteps
  <2> HIDE DEF a, b, c, d, e
  <2>5. Opens(a \o b) /\ Source!StepsOf(a \o b) = Source!StepsOf(a) \cup Source!StepsOf(b)
    BY <2>1, <2>2, PlanGrows
  <2>6. /\ Opens(a \o b \o c)
        /\ Source!StepsOf(a \o b \o c) = Source!StepsOf(a \o b) \cup Source!StepsOf(c)
    BY <2>1, <2>5, PlanGrows
  <2>7. /\ Opens(a \o b \o c \o d)
        /\ Source!StepsOf(a \o b \o c \o d) = Source!StepsOf(a \o b \o c) \cup Source!StepsOf(d)
    BY <2>1, <2>6, PlanGrows
  <2>8. /\ Opens(a \o b \o c \o d \o e)
        /\ Source!StepsOf(a \o b \o c \o d \o e) = Source!StepsOf(a \o b \o c \o d) \cup Source!StepsOf(e)
    BY <2>1, <2>7, PlanGrows
  <2>9. Source!Plan(r) = a \o b \o c \o d \o e
    BY <1>3 DEF Source!Plan, Source!OpenCodePlan, a, b, c, d, e
  <2>11. RegistersLast(Source!Plan(r))
    <3>1. "register" \notin Source!StepsOf(a \o b \o c \o d)
      BY <2>2, <2>3, <2>4, <2>5, <2>6, <2>7
    <3>2. a \o b \o c \o d \in Seq(Steps)
      BY <2>7 DEF Opens
    <3>3. RegistersLast((a \o b \o c \o d) \o Source!Opt(WithInstall, r, "register"))
      BY <3>1, <3>2, RegisterAdded
    <3> QED
      BY <2>9, <3>3 DEF e
  <2>12. {"catalog", "hooks"} \cap Source!StepsOf(Source!Plan(r)) = {}
    BY <2>3, <2>4, <2>5, <2>6, <2>7, <2>8, <2>9, <2>10
  <2>14. r \in WithToken => "token" \in Source!StepsOf(Source!Plan(r))
    BY <2>5, <2>6, <2>7, <2>8, <2>9, <2>13
  <2> QED
    BY <1>3, <2>2, <2>3, <2>4, <2>5, <2>6, <2>7, <2>8, <2>9, <2>11, <2>12, <2>14
<1> QED
  BY <1>2, <1>3

\* Taking the first step off a list of steps.
LEMMA StepTaken ==
    ASSUME NEW plan \in Seq(Steps), plan # <<>>
    PROVE  /\ Head(plan) \in Steps /\ Tail(plan) \in Seq(Steps)
           /\ Source!StepsOf(plan) = {Head(plan)} \cup Source!StepsOf(Tail(plan))
           /\ Opens(plan) => "remove" \notin Source!StepsOf(Tail(plan))
<1>1. /\ Len(plan) \in Nat \ {0} /\ DOMAIN plan = 1..Len(plan)
      /\ DOMAIN Tail(plan) = 1..(Len(plan) - 1)
      /\ \A i \in 1..(Len(plan) - 1) : Tail(plan)[i] = plan[i + 1]
      /\ Head(plan) = plan[1] /\ Head(plan) \in Steps /\ Tail(plan) \in Seq(Steps)
  <2>1. Len(plan) \in Nat \ {0} /\ DOMAIN plan = 1..Len(plan)
    OBVIOUS
  <2>2. Tail(plan) \in Seq(Steps) /\ Len(Tail(plan)) = Len(plan) - 1
        /\ \A i \in 1..(Len(plan) - 1) : Tail(plan)[i] = plan[i + 1]
    BY HeadTailProperties
  <2>3. Head(plan) = plan[1] /\ Head(plan) \in Steps
    BY <2>1
  <2> QED
    BY <2>1, <2>2, <2>3
<1>2. \A i \in DOMAIN plan : i = 1 \/ (i - 1 \in DOMAIN Tail(plan) /\ Tail(plan)[i - 1] = plan[i])
  <2> SUFFICES ASSUME NEW i \in 1..Len(plan), i # 1
               PROVE  i - 1 \in 1..(Len(plan) - 1) /\ Tail(plan)[i - 1] = plan[i]
    BY <1>1
  <2>1. i - 1 \in 1..(Len(plan) - 1) /\ (i - 1) + 1 = i
    BY <1>1
  <2> QED
    BY <1>1, <2>1
<1>3. \A i \in DOMAIN Tail(plan) : i + 1 \in DOMAIN plan /\ i + 1 # 1 /\ Tail(plan)[i] = plan[i + 1]
  BY <1>1
<1>4. Source!StepsOf(plan) = {Head(plan)} \cup Source!StepsOf(Tail(plan))
  <2>1. \A i \in DOMAIN plan : plan[i] \in {Head(plan)} \cup Source!StepsOf(Tail(plan))
    BY <1>1, <1>2 DEF Source!StepsOf
  <2>2. Source!StepsOf(Tail(plan)) \subseteq Source!StepsOf(plan)
    BY <1>3 DEF Source!StepsOf
  <2>3. Head(plan) \in Source!StepsOf(plan)
    BY <1>1 DEF Source!StepsOf
  <2>4. Source!StepsOf(plan) \subseteq {Head(plan)} \cup Source!StepsOf(Tail(plan))
    BY <2>1 DEF Source!StepsOf
  <2> QED
    BY <2>2, <2>3, <2>4
<1>5. ASSUME Opens(plan) PROVE "remove" \notin Source!StepsOf(Tail(plan))
  BY <1>3, <1>5 DEF Source!StepsOf, Opens
<1> QED
  BY <1>1, <1>4, <1>5

-----------------------------------------------------------------------------
SourceTyped ==
    /\ host \in {"codex", "opencode"}
    /\ plugin \in [Source!Names -> [Source!Parts -> Runs \cup {None, Torn}]]
    /\ registered \in [Source!Names -> Runs \cup {None, Torn}]
    /\ status \in [Runs -> {"idle", "running", "ok", "failed"}]
    /\ todo \in [Runs -> Seq(Steps)]
    /\ sourceAlone \in [Runs -> BOOLEAN]

\* A run that overlaps with none and has removed the old directory owns each part
\* that it does not still have to write; it is still to register a plugin that it
\* does not build, and cannot.
Written(r) ==
    /\ "remove" \notin Source!StepsOf(todo[r])
    /\ \A part \in Source!PartsOf(r) :
          part \in Source!StepsOf(todo[r]) \/ plugin[Source!Name(r)][part] = r
    /\ host = "opencode" /\ r \in NoBuild \cap WithInstall =>
          /\ plugin[Source!Name(r)]["build"] = None
          /\ "build" \notin Source!StepsOf(todo[r]) /\ "register" \in Source!StepsOf(todo[r])

Undisturbed(r) ==
    Source!Running(r) /\ sourceAlone[r] =>
        /\ \A q \in Runs \ {r} : ~Source!Running(q)
        /\ todo[r] = Source!Plan(r) \/ Written(r)

\* The run which has ended last owns all that it writes.
Whole(r) ==
    /\ status[r] = "ok"
    /\ \A part \in Source!PartsOf(r) : plugin[Source!Name(r)][part] = r
    /\ ~(host = "opencode" /\ r \in NoBuild \cap WithInstall)

\* All runs of the name of r have ended well, or never begun.
EndedWell(r) ==
    \A q \in Runs :
        Source!Name(q) = Source!Name(r) => sourceAlone[q] /\ status[q] \in {"idle", "ok"}

LastWhole(r) ==
    EndedWell(r) /\ status[r] = "ok" => \E q \in Runs : Source!Name(q) = Source!Name(r) /\ Whole(q)

RegisteredByRun ==
    \A n \in Source!Names : registered[n] \in Runs =>
        Source!Name(registered[n]) = n /\ status[registered[n]] # "idle"

SourceInv ==
    /\ SourceTyped /\ RegisteredByRun
    /\ \A r \in Runs : Undisturbed(r) /\ LastWhole(r)

LEMMA NamesTyped ==
    ASSUME Source!SourceAssumption, host \in Hosts, NEW r \in Runs
    PROVE  Source!Name(r) \in Source!Names
BY DEF Source!Name, Source!Names

\* As long as the host stays, so do the plans.
LEMMA PlansStay ==
    ASSUME host' = host
    PROVE  \A q \in Runs : /\ Source!Name(q)' = Source!Name(q) /\ Source!Plan(q)' = Source!Plan(q)
                           /\ Source!PartsOf(q)' = Source!PartsOf(q)
BY DEF Source!Name, Source!Plan, Source!CodexPlan, Source!OpenCodePlan, Source!PartsOf,
       Source!StepsOf

-----------------------------------------------------------------------------
\* What a step of r does to the others' state and to its own.
OnlyRun(r) ==
    /\ \A q \in Runs \ {r} : status'[q] = status[q] /\ todo'[q] = todo[q]
    /\ \A q \in Runs :
          Source!Name(q) # Source!Name(r) => plugin'[Source!Name(q)] = plugin[Source!Name(q)]
    /\ \A n \in Source!Names :
          registered'[n] # registered[n] => n = Source!Name(r) /\ registered'[n] \in {r, Torn}

LEMMA OthersGoOn ==
    ASSUME Source!SourceAssumption, SourceInv, NEW r \in Runs, Source!Running(r), OnlyRun(r),
           sourceAlone' = sourceAlone, host' = host,
           status'[r] \in {"running", "failed"}
    PROVE  /\ \A q \in Runs \ {r} : Undisturbed(q)'
           /\ \A q \in Runs : LastWhole(q)'
           /\ RegisteredByRun'
<1>1. \A q \in Runs : /\ Source!Name(q)' = Source!Name(q) /\ Source!Plan(q)' = Source!Plan(q)
                      /\ Source!PartsOf(q)' = Source!PartsOf(q)
  BY PlansStay
<1>2. ASSUME NEW q \in Runs \ {r} PROVE Undisturbed(q)'
  <2>1. ~(Source!Running(q) /\ sourceAlone[q])
    BY DEF SourceInv, Undisturbed
  <2>2. ~(Source!Running(q) /\ sourceAlone[q])'
    BY <2>1 DEF OnlyRun, Source!Running
  <2> QED
    BY <2>2 DEF Undisturbed
<1>3. ASSUME NEW q \in Runs PROVE LastWhole(q)'
  <2>1. CASE Source!Name(q) = Source!Name(r)
    <3>1. ~EndedWell(q)'
      BY <1>1, <2>1 DEF EndedWell
    <3> QED
      BY <3>1 DEF LastWhole
  <2>2. CASE Source!Name(q) # Source!Name(r)
    <3> SUFFICES ASSUME EndedWell(q)', status'[q] = "ok"
                 PROVE  \E p \in Runs : Source!Name(p)' = Source!Name(q)' /\ Whole(p)'
      BY DEF LastWhole
    <3>1. \A p \in Runs : Source!Name(p) = Source!Name(q) => p # r /\ status'[p] = status[p]
      BY <2>2 DEF OnlyRun
    <3>2. EndedWell(q) /\ status[q] = "ok"
      BY <1>1, <3>1 DEF EndedWell
    <3>3. PICK p \in Runs : Source!Name(p) = Source!Name(q) /\ Whole(p)
      BY <3>2 DEF SourceInv, LastWhole
    <3>4. plugin'[Source!Name(p)] = plugin[Source!Name(p)]
      BY <2>2, <3>3 DEF OnlyRun
    <3>5. Whole(p)'
      BY <1>1, <3>1, <3>3, <3>4 DEF Whole
    <3> QED
      BY <1>1, <3>3, <3>5
  <2> QED
    BY <2>1, <2>2
<1>4. RegisteredByRun'
  <2> SUFFICES ASSUME NEW n \in Source!Names, NEW m \in Runs, registered'[n] = m
               PROVE  Source!Name(m) = n /\ status'[m] # "idle"
    BY <1>1 DEF RegisteredByRun, Source!Name
  <2>1. CASE registered[n] = m
    <3>1. Source!Name(m) = n /\ status[m] # "idle"
      BY <2>1 DEF SourceInv, RegisteredByRun
    <3> QED
      BY <3>1 DEF OnlyRun
  <2>2. CASE registered[n] # m
    <3>1. n = Source!Name(r) /\ m \in {r, Torn}
      BY <2>2 DEF OnlyRun
    <3>2. m = r
      BY <3>1 DEF Source!SourceAssumption
    <3> QED
      BY <3>1, <3>2
  <2> QED
    BY <2>1, <2>2
<1> QED
  BY <1>2, <1>3, <1>4

\* r takes a step off its list, after it has removed the old directory.
LEMMA StepDone ==
    ASSUME SourceInv, NEW r \in Runs, Source!Running(r), todo[r] # <<>>, Head(todo[r]) # "remove",
           host' = host, todo'[r] = Tail(todo[r]), OnlyRun(r), sourceAlone' = sourceAlone,
           \A part \in Source!Parts :
               plugin'[Source!Name(r)][part] =
                   IF part = Head(todo[r]) THEN r ELSE plugin[Source!Name(r)][part],
           Head(todo[r]) = "register" =>
               ~(host = "opencode" /\ plugin[Source!Name(r)]["build"] = None)
    PROVE  Undisturbed(r)'
<1> SUFFICES ASSUME Source!Running(r)', sourceAlone'[r]
             PROVE  /\ \A q \in Runs \ {r} : ~Source!Running(q)'
                    /\ Written(r)'
  BY DEF Undisturbed
<1>1. /\ Source!Name(r)' = Source!Name(r) /\ Source!Plan(r)' = Source!Plan(r)
      /\ Source!PartsOf(r)' = Source!PartsOf(r)
  BY PlansStay
<1>2. /\ \A q \in Runs \ {r} : ~Source!Running(q)
      /\ todo[r] = Source!Plan(r) \/ Written(r)
  BY DEF SourceInv, Undisturbed
<1>3. Written(r)
  <2>1. Opens(Source!Plan(r))
    BY PlanShape DEF SourceInv, SourceTyped
  <2> QED
    BY <1>2, <2>1 DEF Opens
<1>4. /\ Head(todo[r]) \in Steps
      /\ Source!StepsOf(todo[r]) = {Head(todo[r])} \cup Source!StepsOf(Tail(todo[r]))
  BY StepTaken DEF SourceInv, SourceTyped
<1>5. "remove" \notin Source!StepsOf(todo'[r])
  BY <1>3, <1>4 DEF Written
<1>6. ASSUME NEW part \in Source!PartsOf(r)
      PROVE  part \in Source!StepsOf(todo'[r]) \/ plugin'[Source!Name(r)][part] = r
  <2>1. /\ part \in Source!Parts
        /\ part \in Source!StepsOf(todo[r]) \/ plugin[Source!Name(r)][part] = r
    BY <1>3 DEF Written, Source!PartsOf
  <2> QED
    BY <1>4, <2>1
<1>7. ASSUME host = "opencode", r \in NoBuild \cap WithInstall
      PROVE  /\ plugin'[Source!Name(r)]["build"] = None
             /\ "build" \notin Source!StepsOf(todo'[r]) /\ "register" \in Source!StepsOf(todo'[r])
  <2>1. /\ plugin[Source!Name(r)]["build"] = None
        /\ "build" \notin Source!StepsOf(todo[r]) /\ "register" \in Source!StepsOf(todo[r])
    BY <1>3, <1>7 DEF Written
  <2>2. Head(todo[r]) # "register" /\ Head(todo[r]) # "build"
    BY <1>4, <1>7, <2>1
  <2>3. "build" \in Source!Parts
    BY DEF Source!Parts
  <2> QED
    BY <1>4, <2>1, <2>2, <2>3
<1>8. Written(r)'
  <2>1. Source!StepsOf(todo[r])' = Source!StepsOf(todo'[r])
    BY DEF Source!StepsOf
  <2> QED
    BY <1>1, <1>5, <1>6, <1>7, <2>1 DEF Written
<1>9. \A q \in Runs \ {r} : ~Source!Running(q)'
  BY <1>2 DEF OnlyRun, Source!Running
<1> QED
  BY <1>8, <1>9

-----------------------------------------------------------------------------
\* One lemma for each kind of step.
LEMMA BeginStep ==
    ASSUME Source!SourceAssumption, SourceInv, host' = host, NEW r \in Runs, Source!Begin(r)
    PROVE  SourceInv'
<1>1. \A q \in Runs : /\ Source!Name(q)' = Source!Name(q) /\ Source!Plan(q)' = Source!Plan(q)
                      /\ Source!PartsOf(q)' = Source!PartsOf(q)
  BY PlansStay
<1>2. Source!Plan(r) \in Seq(Steps)
  BY PlanShape DEF SourceInv, SourceTyped, Opens
<1>3. SourceTyped'
  BY <1>2 DEF SourceInv, SourceTyped, Source!Begin, Source!Running
<1>4. /\ \A q \in Runs \ {r} : /\ sourceAlone'[q] => sourceAlone[q] /\ ~Source!Running(q)
                               /\ status'[q] = status[q]
      /\ sourceAlone'[r] => \A p \in Runs : ~Source!Running(p)
      /\ todo'[r] = Source!Plan(r) /\ status'[r] = "running" /\ ~Source!Running(r)
      /\ plugin' = plugin /\ registered' = registered
  BY DEF Source!Begin, SourceInv, SourceTyped
<1>5. RegisteredByRun'
  <2> SUFFICES ASSUME NEW n \in Source!Names, NEW m \in Runs, registered[n] = m
               PROVE  Source!Name(m) = n /\ status'[m] # "idle"
    BY <1>1, <1>4 DEF RegisteredByRun, Source!Name
  <2>1. Source!Name(m) = n /\ status[m] # "idle"
    BY DEF SourceInv, RegisteredByRun
  <2> QED
    BY <1>4, <2>1
<1>6. ASSUME NEW q \in Runs PROVE Undisturbed(q)'
  <2>1. CASE q = r
    BY <1>1, <1>4, <2>1 DEF Undisturbed, Source!Running
  <2>2. CASE q # r
    <3>1. ~(Source!Running(q)' /\ sourceAlone'[q])
      BY <1>4, <2>2 DEF Source!Running
    <3> QED
      BY <3>1 DEF Undisturbed
  <2> QED
    BY <2>1, <2>2
<1>7. ASSUME NEW q \in Runs PROVE LastWhole(q)'
  <2> SUFFICES ASSUME EndedWell(q)', status'[q] = "ok"
               PROVE  \E p \in Runs : Source!Name(p)' = Source!Name(q)' /\ Whole(p)'
    BY DEF LastWhole
  <2>1. \A p \in Runs : Source!Name(p) = Source!Name(q) =>
                          p # r /\ status'[p] = status[p] /\ sourceAlone[p]
    <3>1. Source!Name(q) # Source!Name(r)
      BY <1>1, <1>4 DEF EndedWell
    <3> QED
      BY <1>1, <1>4, <3>1 DEF EndedWell
  <2>2. EndedWell(q) /\ status[q] = "ok"
    BY <1>1, <2>1 DEF EndedWell
  <2>3. PICK p \in Runs : Source!Name(p) = Source!Name(q) /\ Whole(p)
    BY <2>2 DEF SourceInv, LastWhole
  <2>4. Whole(p)'
    BY <1>1, <1>4, <2>1, <2>3 DEF Whole
  <2> QED
    BY <1>1, <2>3, <2>4
<1> QED
  BY <1>3, <1>5, <1>6, <1>7 DEF SourceInv

LEMMA RemoveStep ==
    ASSUME Source!SourceAssumption, SourceInv, host' = host, host \in Hosts, NEW r \in Runs,
           Source!RemoveOld(r)
    PROVE  SourceInv'
<1>1. /\ Source!Name(r) \in Source!Names /\ Source!Running(r)
      /\ todo[r] \in Seq(Steps) /\ todo[r] # <<>>
  BY NamesTyped DEF Source!RemoveOld, Source!At, SourceInv, SourceTyped
<1>2. /\ Head(todo[r]) = "remove" /\ todo' = [todo EXCEPT ![r] = Tail(@)] /\ status' = status
      /\ sourceAlone' = sourceAlone /\ registered' = registered
      /\ plugin' = [plugin EXCEPT ![Source!Name(r)] = Source!Gone]
      /\ todo'[r] = Tail(todo[r])
  BY DEF Source!RemoveOld, Source!At, Source!Done, SourceInv, SourceTyped
<1>3. Tail(todo[r]) \in Seq(Steps)
  BY <1>1, StepTaken
<1>4. SourceTyped'
  <2>1. Source!Gone \in [Source!Parts -> Runs \cup {None, Torn}]
    BY DEF Source!Gone
  <2>2. plugin' \in [Source!Names -> [Source!Parts -> Runs \cup {None, Torn}]]
    BY <1>2, <2>1 DEF SourceInv, SourceTyped
  <2>3. todo' \in [Runs -> Seq(Steps)]
    BY <1>2, <1>3 DEF SourceInv, SourceTyped
  <2> QED
    BY <1>2, <2>2, <2>3 DEF SourceInv, SourceTyped
<1>5. /\ plugin'[Source!Name(r)] = Source!Gone
      /\ \A n \in Source!Names \ {Source!Name(r)} : plugin'[n] = plugin[n]
  BY <1>1, <1>2 DEF SourceInv, SourceTyped
<1>6. OnlyRun(r)
  <2>1. \A q \in Runs : Source!Name(q) \in Source!Names
    BY NamesTyped
  <2> QED
    BY <1>2, <1>5, <2>1 DEF OnlyRun, SourceInv, SourceTyped
<1>7. status'[r] = "running"
  BY <1>1, <1>2 DEF Source!Running
<1>8. Undisturbed(r)'
  <2> SUFFICES ASSUME sourceAlone[r]
               PROVE  /\ \A q \in Runs \ {r} : ~Source!Running(q)'
                      /\ Written(r)'
    BY <1>2 DEF Undisturbed
  <2>1. /\ Source!Name(r)' = Source!Name(r) /\ Source!Plan(r)' = Source!Plan(r)
        /\ Source!PartsOf(r)' = Source!PartsOf(r)
    BY PlansStay
  <2>2. (\A q \in Runs \ {r} : ~Source!Running(q)) /\ (todo[r] = Source!Plan(r) \/ Written(r))
    BY <1>1 DEF SourceInv, Undisturbed
  <2>3. Source!StepsOf(todo[r]) = {"remove"} \cup Source!StepsOf(Tail(todo[r]))
    BY <1>1, <1>2, StepTaken
  <2>4. todo[r] = Source!Plan(r) /\ Opens(Source!Plan(r))
    BY <2>2, <2>3, PlanShape DEF Written, SourceInv, SourceTyped
  <2>5. "remove" \notin Source!StepsOf(todo'[r])
    BY <1>1, <1>2, <2>4, StepTaken
  <2>6. \A part \in Source!PartsOf(r) : part \in Source!StepsOf(todo'[r])
    BY <1>2, <2>3, <2>4 DEF Source!PartsOf, Source!Parts
  <2>7. ASSUME host = "opencode", r \in NoBuild \cap WithInstall
        PROVE  /\ plugin'[Source!Name(r)]["build"] = None
               /\ "build" \notin Source!StepsOf(todo'[r]) /\ "register" \in Source!StepsOf(todo'[r])
    <3>1. /\ "build" \notin Source!StepsOf(Source!Plan(r))
          /\ "register" \in Source!StepsOf(Source!Plan(r))
      BY <2>7, PlanShape
    <3> QED
      BY <1>2, <1>5, <2>3, <2>4, <3>1 DEF Source!Gone, Source!Parts
  <2>8. Source!StepsOf(todo[r])' = Source!StepsOf(todo'[r])
    BY DEF Source!StepsOf
  <2>9. Written(r)'
    BY <2>1, <2>5, <2>6, <2>7, <2>8 DEF Written
  <2> QED
    BY <1>2, <2>2, <2>9 DEF Source!Running
<1>9. /\ \A q \in Runs \ {r} : Undisturbed(q)'
      /\ \A q \in Runs : LastWhole(q)'
      /\ RegisteredByRun'
  BY <1>1, <1>2, <1>6, <1>7, OthersGoOn
<1> QED
  BY <1>4, <1>8, <1>9 DEF SourceInv

\* A step that takes its head off the list of r, but for the first one.
LEMMA TakeStep ==
    ASSUME Source!SourceAssumption, SourceInv, host' = host, host \in Hosts, NEW r \in Runs,
           Source!Running(r), todo[r] # <<>>, Head(todo[r]) # "remove", Source!Done(r),
           plugin' = IF Head(todo[r]) \in Source!Parts
                     THEN [plugin EXCEPT ![Source!Name(r)][Head(todo[r])] = r] ELSE plugin,
           registered' = IF Head(todo[r]) = "register"
                         THEN [registered EXCEPT ![Source!Name(r)] = r] ELSE registered,
           ~(Head(todo[r]) = "register" /\ Source!Impossible(r))
    PROVE  SourceInv'
<1>1. Source!Name(r) \in Source!Names /\ todo[r] \in Seq(Steps)
  BY NamesTyped DEF SourceInv, SourceTyped
<1>2. /\ todo' = [todo EXCEPT ![r] = Tail(@)] /\ status' = status /\ sourceAlone' = sourceAlone
      /\ todo'[r] = Tail(todo[r])
  BY DEF Source!Done, SourceInv, SourceTyped
<1>3. Tail(todo[r]) \in Seq(Steps)
  BY <1>1, StepTaken
<1>4. SourceTyped'
  <2>1. plugin' \in [Source!Names -> [Source!Parts -> Runs \cup {None, Torn}]]
    BY <1>1 DEF SourceInv, SourceTyped
  <2>2. todo' \in [Runs -> Seq(Steps)]
    BY <1>2, <1>3 DEF SourceInv, SourceTyped
  <2>3. registered' \in [Source!Names -> Runs \cup {None, Torn}]
    BY <1>1 DEF SourceInv, SourceTyped
  <2> QED
    BY <1>2, <2>1, <2>2, <2>3 DEF SourceInv, SourceTyped
<1>5. \A n \in Source!Names \ {Source!Name(r)} :
        plugin'[n] = plugin[n] /\ registered'[n] = registered[n]
  BY <1>1 DEF SourceInv, SourceTyped
<1>6. registered'[Source!Name(r)] \in {r, registered[Source!Name(r)]}
  BY <1>1 DEF SourceInv, SourceTyped
<1>7. OnlyRun(r)
  <2>1. \A q \in Runs : Source!Name(q) \in Source!Names
    BY NamesTyped
  <2>2. \A q \in Runs \ {r} : status'[q] = status[q] /\ todo'[q] = todo[q]
    BY <1>2 DEF SourceInv, SourceTyped
  <2>3. \A n \in Source!Names :
          registered'[n] # registered[n] => n = Source!Name(r) /\ registered'[n] \in {r, Torn}
    BY <1>5, <1>6
  <2> QED
    BY <1>5, <2>1, <2>2, <2>3 DEF OnlyRun
<1>8. status'[r] = "running"
  BY <1>2 DEF Source!Running
<1>9. \A part \in Source!Parts :
        plugin'[Source!Name(r)][part] =
            IF part = Head(todo[r]) THEN r ELSE plugin[Source!Name(r)][part]
  <2>1. plugin[Source!Name(r)] \in [Source!Parts -> Runs \cup {None, Torn}]
    BY <1>1 DEF SourceInv, SourceTyped
  <2>2. CASE Head(todo[r]) \in Source!Parts
    <3>1. plugin'[Source!Name(r)] = [plugin[Source!Name(r)] EXCEPT ![Head(todo[r])] = r]
      BY <1>1, <2>2 DEF SourceInv, SourceTyped
    <3> QED
      BY <2>1, <3>1
  <2>3. CASE Head(todo[r]) \notin Source!Parts
    <3>1. plugin' = plugin
      BY <2>3
    <3>2. \A part \in Source!Parts : part # Head(todo[r])
      BY <2>3
    <3> QED
      BY <3>1, <3>2
  <2> QED
    BY <2>2, <2>3
<1>10. Head(todo[r]) = "register" => ~(host = "opencode" /\ plugin[Source!Name(r)]["build"] = None)
  BY DEF Source!Impossible, Source!At
<1>11. Undisturbed(r)'
  BY <1>2, <1>7, <1>9, <1>10, StepDone
<1>12. /\ \A q \in Runs \ {r} : Undisturbed(q)'
       /\ \A q \in Runs : LastWhole(q)'
       /\ RegisteredByRun'
  BY <1>2, <1>7, <1>8, OthersGoOn
<1> QED
  BY <1>4, <1>11, <1>12 DEF SourceInv

\* What a run has read of a shared file is its own business.
LEMMA SameState ==
    ASSUME SourceInv, UNCHANGED <<host, plugin, registered, status, todo, sourceAlone>>
    PROVE  SourceInv'
<1>1. \A q \in Runs : /\ Source!Name(q)' = Source!Name(q) /\ Source!Plan(q)' = Source!Plan(q)
                      /\ Source!PartsOf(q)' = Source!PartsOf(q)
                      /\ Source!StepsOf(todo[q])' = Source!StepsOf(todo[q])
                      /\ Source!Running(q)' = Source!Running(q)
  BY PlansStay DEF Source!StepsOf, Source!Running
<1>2. SourceTyped'
  BY DEF SourceInv, SourceTyped
<1>3. RegisteredByRun'
  <2> SUFFICES ASSUME NEW n \in Source!Names, NEW m \in Runs, registered[n] = m
               PROVE  Source!Name(m) = n /\ status[m] # "idle"
    BY <1>1 DEF RegisteredByRun, Source!Name
  <2> QED
    BY DEF SourceInv, RegisteredByRun
<1>4. ASSUME NEW q \in Runs PROVE Undisturbed(q)' /\ LastWhole(q)'
  <2>1. Undisturbed(q) /\ LastWhole(q)
    BY DEF SourceInv
  <2>2. Undisturbed(q)'
    <3>1. Written(q) => Written(q)'
      BY <1>1 DEF Written
    <3> QED
      BY <1>1, <2>1, <3>1 DEF Undisturbed
  <2>3. LastWhole(q)'
    <3>1. EndedWell(q)' => EndedWell(q)
      BY <1>1 DEF EndedWell
    <3>2. \A p \in Runs : Whole(p) => Whole(p)'
      BY <1>1 DEF Whole
    <3> QED
      BY <1>1, <2>1, <3>1, <3>2 DEF LastWhole
  <2> QED
    BY <2>2, <2>3
<1> QED
  BY <1>2, <1>3, <1>4 DEF SourceInv

LEMMA StopStep ==
    ASSUME Source!SourceAssumption, SourceInv, host' = host, host \in Hosts, NEW r \in Runs,
           Source!Running(r),
           Source!Stop(r) \/ Source!Refused(r)
    PROVE  SourceInv'
<1>1. Source!Name(r) \in Source!Names
  BY NamesTyped
<1>2. status' = [status EXCEPT ![r] = "failed"] /\ todo' = todo /\ sourceAlone' = sourceAlone
  BY DEF Source!Stop, Source!Refused
<1>3. /\ plugin' \in [Source!Names -> [Source!Parts -> Runs \cup {None, Torn}]]
      /\ \A n \in Source!Names \ {Source!Name(r)} : plugin'[n] = plugin[n]
  <2> DEFINE Copies == [Source!Parts -> Runs \cup {None, Torn}]
  <2>1. CASE plugin' = plugin
    BY <2>1 DEF SourceInv, SourceTyped
  <2>2. ASSUME NEW part \in Source!Parts, plugin' = [plugin EXCEPT ![Source!Name(r)][part] = Torn]
        PROVE  /\ plugin' \in [Source!Names -> Copies]
               /\ \A n \in Source!Names \ {Source!Name(r)} : plugin'[n] = plugin[n]
    BY <1>1, <2>2 DEF SourceInv, SourceTyped
  <2>3. ASSUME NEW lost,
               plugin' = [plugin EXCEPT ![Source!Name(r)] =
                            [p \in Source!Parts |-> IF p \in lost THEN None ELSE @[p]]]
        PROVE  /\ plugin' \in [Source!Names -> Copies]
               /\ \A n \in Source!Names \ {Source!Name(r)} : plugin'[n] = plugin[n]
    <3>1. [p \in Source!Parts |-> IF p \in lost THEN None ELSE plugin[Source!Name(r)][p]] \in Copies
      BY <1>1 DEF SourceInv, SourceTyped
    <3> QED
      BY <1>1, <2>3, <3>1 DEF SourceInv, SourceTyped
  <2> QED
    BY <2>1, <2>2, <2>3 DEF Source!Stop, Source!Refused
<1>4. /\ registered' \in [Source!Names -> Runs \cup {None, Torn}]
      /\ \A n \in Source!Names :
            registered'[n] # registered[n] => n = Source!Name(r) /\ registered'[n] = Torn
  BY <1>1 DEF Source!Stop, Source!Refused, SourceInv, SourceTyped
<1>5. SourceTyped' /\ status'[r] = "failed"
  BY <1>2, <1>3, <1>4 DEF SourceInv, SourceTyped
<1>6. OnlyRun(r)
  <2>1. \A q \in Runs : Source!Name(q) \in Source!Names
    BY NamesTyped
  <2>2. \A q \in Runs \ {r} : status'[q] = status[q] /\ todo'[q] = todo[q]
    BY <1>2 DEF SourceInv, SourceTyped
  <2> QED
    BY <1>3, <1>4, <2>1, <2>2 DEF OnlyRun
<1>7. Undisturbed(r)'
  BY <1>5 DEF Undisturbed, Source!Running
<1>8. /\ \A q \in Runs \ {r} : Undisturbed(q)'
      /\ \A q \in Runs : LastWhole(q)'
      /\ RegisteredByRun'
  BY <1>2, <1>5, <1>6, OthersGoOn
<1> QED
  BY <1>5, <1>7, <1>8 DEF SourceInv

\* A run that has come to its end has written all that it writes.
LEMMA SucceedStep ==
    ASSUME Source!SourceAssumption, SourceInv, host' = host, NEW r \in Runs, Source!Succeed(r)
    PROVE  SourceInv'
<1>1. /\ status' = [status EXCEPT ![r] = "ok"] /\ Source!Running(r) /\ todo[r] = <<>>
      /\ UNCHANGED <<plugin, registered, todo, sourceAlone>>
  BY DEF Source!Succeed
<1>2. \A q \in Runs : /\ Source!Name(q)' = Source!Name(q) /\ Source!Plan(q)' = Source!Plan(q)
                      /\ Source!PartsOf(q)' = Source!PartsOf(q)
  BY PlansStay
<1>3. SourceTyped' /\ status'[r] = "ok" /\ \A q \in Runs \ {r} : status'[q] = status[q]
  BY <1>1 DEF SourceInv, SourceTyped
<1>4. RegisteredByRun'
  <2> SUFFICES ASSUME NEW n \in Source!Names, NEW m \in Runs, registered[n] = m
               PROVE  Source!Name(m) = n /\ status'[m] # "idle"
    BY <1>1, <1>2 DEF RegisteredByRun, Source!Name
  <2>1. Source!Name(m) = n /\ status[m] # "idle"
    BY DEF SourceInv, RegisteredByRun
  <2> QED
    BY <1>3, <2>1
<1>5. ASSUME NEW q \in Runs PROVE Undisturbed(q)'
  <2>1. CASE q = r
    BY <1>3, <2>1 DEF Undisturbed, Source!Running
  <2>2. CASE q # r
    <3>1. ~(Source!Running(q) /\ sourceAlone[q])
      BY <1>1, <2>2 DEF SourceInv, Undisturbed
    <3> QED
      BY <1>1, <1>3, <2>2, <3>1 DEF Undisturbed, Source!Running
  <2> QED
    BY <2>1, <2>2
<1>6. ASSUME sourceAlone[r] PROVE Whole(r)'
  <2>1. Source!StepsOf(todo[r]) = {}
    BY <1>1 DEF Source!StepsOf
  <2>2. Opens(Source!Plan(r))
    BY PlanShape DEF SourceInv, SourceTyped
  <2>3. Written(r)
    BY <1>1, <1>6, <2>2 DEF SourceInv, Undisturbed, Opens
  <2> QED
    BY <1>1, <1>2, <1>3, <2>1, <2>3 DEF Whole, Written
<1>7. ASSUME NEW q \in Runs PROVE LastWhole(q)'
  <2> SUFFICES ASSUME EndedWell(q)', status'[q] = "ok"
               PROVE  \E p \in Runs : Source!Name(p)' = Source!Name(q)' /\ Whole(p)'
    BY DEF LastWhole
  <2>1. CASE Source!Name(q) = Source!Name(r)
    <3>1. sourceAlone[r]
      BY <1>1, <1>2, <2>1 DEF EndedWell
    <3> QED
      BY <1>2, <1>6, <2>1, <3>1
  <2>2. CASE Source!Name(q) # Source!Name(r)
    <3>1. \A p \in Runs : Source!Name(p) = Source!Name(q) => p # r /\ status'[p] = status[p]
      BY <1>3, <2>2
    <3>2. EndedWell(q) /\ status[q] = "ok"
      BY <1>1, <1>2, <3>1 DEF EndedWell
    <3>3. PICK p \in Runs : Source!Name(p) = Source!Name(q) /\ Whole(p)
      BY <3>2 DEF SourceInv, LastWhole
    <3>4. Whole(p)'
      BY <1>1, <1>2, <3>1, <3>3 DEF Whole
    <3> QED
      BY <1>2, <3>3, <3>4
  <2> QED
    BY <2>1, <2>2
<1> QED
  BY <1>3, <1>4, <1>5, <1>7 DEF SourceInv

LEMMA SourceInvInit == Source!SourceAssumption /\ Source!Init => SourceInv
<1> SUFFICES ASSUME Source!SourceAssumption, Source!Init PROVE SourceInv
  OBVIOUS
<1>1. SourceTyped
  <2>1. plugin \in [Source!Names -> [Source!Parts -> Runs \cup {None, Torn}]]
    BY DEF Source!Init, Source!Gone
  <2>2. todo \in [Runs -> Seq(Steps)]
    BY DEF Source!Init
  <2> QED
    BY <2>1, <2>2 DEF Source!Init, SourceTyped, Source!SourceAssumption
<1> QED
  BY <1>1
    DEF Source!Init, SourceInv, RegisteredByRun, Undisturbed, LastWhole, Source!Running,
        Source!SourceAssumption

LEMMA SourceInvStep ==
    Source!SourceAssumption /\ host \in Hosts /\ SourceInv /\ [Source!Next]_(Source!vars) => SourceInv'
<1> SUFFICES ASSUME Source!SourceAssumption, host \in Hosts, SourceInv, [Source!Next]_(Source!vars)
             PROVE  SourceInv'
  OBVIOUS
<1>1. CASE UNCHANGED Source!vars
  BY <1>1, SameState DEF Source!vars
<1>2. ASSUME NEW r \in Runs, host' = host, Source!Begin(r) PROVE SourceInv'
  BY <1>2, BeginStep
<1>3. ASSUME NEW r \in Runs, host' = host, Source!Fault(r) PROVE SourceInv'
  BY <1>3, StopStep DEF Source!Fault
<1>4. ASSUME NEW r \in Runs, host' = host, Source!Step(r) PROVE SourceInv'
  <2>1. CASE Source!RemoveOld(r)
    BY <1>4, <2>1, RemoveStep
  <2>2. ASSUME NEW part \in Source!Parts, Source!Put(r, part) PROVE SourceInv'
    <3>1. /\ Source!Running(r) /\ todo[r] # <<>> /\ Head(todo[r]) = part /\ Source!Done(r)
          /\ plugin' = [plugin EXCEPT ![Source!Name(r)][part] = r] /\ registered' = registered
      BY <2>2 DEF Source!Put, Source!At
    <3>2. part # "remove" /\ part # "register"
      BY DEF Source!Parts
    <3> QED
      BY <1>4, <3>1, <3>2, TakeStep
  <2>3. ASSUME NEW f \in Source!Shared, Source!Read(r, f) PROVE SourceInv'
    BY <1>4, <2>3, SameState DEF Source!Read
  <2>4. ASSUME NEW f \in Source!Shared, Source!Write(r, f) PROVE SourceInv'
    <3>1. /\ Source!Running(r) /\ todo[r] # <<>> /\ Head(todo[r]) = f /\ Source!Done(r)
          /\ plugin' = plugin /\ registered' = registered
      BY <2>4 DEF Source!Write, Source!At
    <3>2. f # "remove" /\ f # "register" /\ f \notin Source!Parts
      BY DEF Source!Parts, Source!Shared
    <3> QED
      BY <1>4, <3>1, <3>2, TakeStep
  <2>5. CASE Source!Register(r)
    <3>1. /\ Source!Running(r) /\ todo[r] # <<>> /\ Head(todo[r]) = "register" /\ Source!Done(r)
          /\ plugin' = plugin /\ registered' = [registered EXCEPT ![Source!Name(r)] = r]
          /\ ~Source!Impossible(r)
      BY <2>5 DEF Source!Register, Source!At
    <3>2. "register" \notin Source!Parts
      BY DEF Source!Parts
    <3> QED
      BY <1>4, <3>1, <3>2, TakeStep
  <2>6. CASE Source!Succeed(r)
    BY <1>4, <2>6, SucceedStep
  <2>7. CASE Source!Refused(r)
    <3>1. Source!Running(r)
      BY <2>7 DEF Source!Refused, Source!Impossible, Source!At
    <3> QED
      BY <1>4, <2>7, <3>1, StopStep
  <2>8. {"copy", "adapter", "manifest", "mcp", "patch", "package", "build"} \subseteq Source!Parts
    BY DEF Source!Parts
  <2>9. \A f \in {"token", "catalog", "hooks", "config"} : f \in Source!Shared
    BY DEF Source!Shared
  <2>10. CASE \E part \in Source!Parts : Source!Put(r, part)
    BY <2>2, <2>10
  <2>11. CASE \E f \in Source!Shared : Source!Read(r, f) \/ Source!Write(r, f)
    BY <2>3, <2>4, <2>11
  <2>12. \/ Source!RemoveOld(r) \/ Source!Register(r) \/ Source!Succeed(r) \/ Source!Refused(r)
         \/ \E part \in Source!Parts : Source!Put(r, part)
         \/ \E f \in Source!Shared : Source!Read(r, f) \/ Source!Write(r, f)
    BY <1>4, <2>8, <2>9
      DEF Source!Step, Source!CopyPlugin, Source!WriteAdapter, Source!UpdateManifest,
          Source!WriteMcpConfig, Source!PatchSource,
       Source!UpdatePackage, Source!Build, Source!WriteToken, Source!UpdateMarketplace,
           Source!InstallHooks, Source!EnableHooks
  <2> QED
    BY <2>1, <2>5, <2>6, <2>7, <2>10, <2>11, <2>12
<1> QED
  BY <1>1, <1>2, <1>3, <1>4 DEF Source!Next

\* The directory of a name belongs to the undisturbed run that has emptied it.
LEMMA SourceInvTheorem ==
    ASSUME Source!SourceAssumption
    PROVE  Source!Spec => [](host \in Hosts /\ SourceInv)
<1>1. Source!Init => host \in Hosts /\ SourceInv
  BY SourceInvInit DEF Source!Init
<1>2. host \in Hosts /\ SourceInv /\ [Source!Next]_(Source!vars) => (host \in Hosts /\ SourceInv)'
  BY SourceInvStep DEF Source!Next, Source!vars
<1> QED
  BY <1>1, <1>2, PTL DEF Source!Spec

\* A plugin that a host loads is whole unless a run of its name has not ended well
\* or has left out the build.
THEOREM BrokenMeansUnfinishedTheorem ==
    ASSUME Source!SourceAssumption
    PROVE  Source!Spec => []Source!BrokenMeansUnfinished
<1>1. host \in Hosts /\ SourceInv => Source!BrokenMeansUnfinished
  <2> SUFFICES ASSUME host \in Hosts, SourceInv, NEW n \in Source!Names, registered[n] \in Runs,
                      \A r \in Runs : Source!Name(r) = n =>
                          /\ sourceAlone[r]
                          /\ status[r] = "idle" \/ (status[r] = "ok" /\ ~Source!Unbuilt(r)),
                      NEW part \in Source!Parts,
                      \/ \A r \in Runs :
                            Source!Name(r) = n /\ status[r] = "ok" => part \in Source!PartsOf(r)
                      \/ host = "opencode" /\ part = "build"
               PROVE  plugin[n][part] \notin {None, Torn}
    BY DEF Source!BrokenMeansUnfinished
  <2>1. Source!Name(registered[n]) = n /\ status[registered[n]] = "ok"
    BY DEF SourceInv, RegisteredByRun
  <2>2. EndedWell(registered[n])
    BY <2>1 DEF EndedWell
  <2>3. PICK q \in Runs : Source!Name(q) = n /\ Whole(q)
    BY <2>1, <2>2 DEF SourceInv, LastWhole
  <2>4. part \in Source!PartsOf(q)
    <3>1. CASE host = "opencode" /\ part = "build"
      <4>1. q \notin NoBuild
        BY <2>3, <3>1 DEF Whole, Source!Unbuilt
      <4> QED
        BY <3>1, <4>1, PlanShape DEF Source!PartsOf, SourceInv, SourceTyped
    <3> QED
      BY <2>3, <3>1 DEF Whole
  <2>5. plugin[n][part] = q
    BY <2>3, <2>4 DEF Whole
  <2> QED
    BY <2>5 DEF Source!SourceAssumption
<1> QED
  BY <1>1, SourceInvTheorem, PTL

-----------------------------------------------------------------------------
\* What is left of a run's plan keeps its order.
Ordered(r) ==
    /\ Source!StepsOf(todo[r]) \subseteq Source!StepsOf(Source!Plan(r))
    /\ \A i \in DOMAIN todo[r] :
          todo[r][i] = "copy" => i = 1 \/ (i = 2 /\ todo[r][1] = "remove")
    /\ host = "opencode" => RegistersLast(todo[r])

\* Between removing and copying, an undisturbed run finds the directory gone.
Emptied(r) ==
    /\ Source!Running(r) /\ sourceAlone[r]
    /\ "copy" \in Source!StepsOf(todo[r]) /\ "remove" \notin Source!StepsOf(todo[r])
    => plugin[Source!Name(r)] = Source!Gone

OrderInv ==
    /\ SourceInv /\ sourceFaults \in Nat
    /\ \A r \in Runs : Ordered(r) /\ Emptied(r)

\* A list of steps that has lost its first one.
LEMMA StillOrdered ==
    ASSUME SourceInv, NEW r \in Runs, Ordered(r), todo[r] # <<>>, todo'[r] = Tail(todo[r]),
           host' = host
    PROVE  /\ Ordered(r)'
           /\ Head(todo[r]) # "remove" => "copy" \notin Source!StepsOf(todo'[r])
<1>1. /\ todo[r] \in Seq(Steps) /\ Len(todo[r]) \in Nat \ {0} /\ DOMAIN todo[r] = 1..Len(todo[r])
      /\ Head(todo[r]) = todo[r][1]
  BY DEF SourceInv, SourceTyped
<1>2. /\ Len(todo'[r]) = Len(todo[r]) - 1 /\ DOMAIN todo'[r] = 1..(Len(todo[r]) - 1)
      /\ \A i \in 1..(Len(todo[r]) - 1) : todo'[r][i] = todo[r][i + 1]
  <2>1. Tail(todo[r]) \in Seq(Steps) /\ Len(Tail(todo[r])) = Len(todo[r]) - 1
        /\ \A i \in 1..(Len(todo[r]) - 1) : Tail(todo[r])[i] = todo[r][i + 1]
    BY <1>1, HeadTailProperties
  <2> QED
    BY <2>1
<1>3. Source!Plan(r)' = Source!Plan(r) /\ Source!StepsOf(todo[r])' = Source!StepsOf(todo'[r])
      /\ Source!StepsOf(Source!Plan(r))' = Source!StepsOf(Source!Plan(r))
  BY PlansStay DEF Source!StepsOf
<1>4. Source!StepsOf(todo'[r]) \subseteq Source!StepsOf(todo[r])
  BY <1>1, StepTaken
<1>5. ASSUME NEW i \in DOMAIN todo'[r], todo'[r][i] = "copy"
      PROVE  i = 1 /\ Head(todo[r]) = "remove"
  <2>1. i \in 1..(Len(todo[r]) - 1) /\ i + 1 \in DOMAIN todo[r] /\ todo[r][i + 1] = "copy"
    BY <1>1, <1>2, <1>5
  <2>2. i + 1 = 1 \/ (i + 1 = 2 /\ todo[r][1] = "remove")
    BY <2>1 DEF Ordered
  <2> QED
    BY <1>1, <2>1, <2>2
<1>6. ASSUME RegistersLast(todo[r]) PROVE RegistersLast(todo'[r])
  <2> SUFFICES ASSUME NEW i \in DOMAIN todo'[r], todo'[r][i] = "register"
               PROVE  i = Len(todo'[r])
    BY DEF RegistersLast
  <2>1. i \in 1..(Len(todo[r]) - 1) /\ i + 1 \in DOMAIN todo[r] /\ todo[r][i + 1] = "register"
    BY <1>1, <1>2
  <2>2. i + 1 = Len(todo[r])
    BY <1>6, <2>1 DEF RegistersLast
  <2> QED
    BY <1>1, <1>2, <2>1, <2>2
<1>7. Ordered(r)'
  <2>1. RegistersLast(todo[r])' = RegistersLast(todo'[r])
    BY DEF RegistersLast
  <2> QED
    BY <1>3, <1>4, <1>5, <1>6, <2>1 DEF Ordered
<1>8. Head(todo[r]) # "remove" => "copy" \notin Source!StepsOf(todo'[r])
  BY <1>5 DEF Source!StepsOf
<1> QED
  BY <1>7, <1>8

\* A step of a run that goes on with its plan.
Advance(r) ==
    /\ Source!Running(r) /\ UNCHANGED <<status, sourceAlone, sourceFaults>>
    /\ \/ todo' = todo /\ plugin' = plugin
       \/ /\ todo[r] # <<>> /\ todo' = [todo EXCEPT ![r] = Tail(@)]
          /\ Head(todo[r]) = "remove" => plugin' = [plugin EXCEPT ![Source!Name(r)] = Source!Gone]

\* A step at which a run ends.
Finish(r) ==
    /\ Source!Running(r) /\ todo' = todo /\ sourceAlone' = sourceAlone
    /\ \E s \in {"ok", "failed"} : status' = [status EXCEPT ![r] = s]
    /\ sourceFaults' \in {sourceFaults, sourceFaults + 1}

LEMMA RunSteps ==
    ASSUME NEW r \in Runs
    PROVE  /\ Source!Step(r) => Advance(r) \/ Source!Succeed(r) \/ Source!Refused(r)
           /\ Source!Succeed(r) \/ Source!Refused(r) \/ Source!Fault(r) => Finish(r)
<1>1. ASSUME NEW part \in Source!Parts, Source!Put(r, part) PROVE Advance(r)
  <2>1. part # "remove"
    BY DEF Source!Parts
  <2> QED
    BY <1>1, <2>1 DEF Source!Put, Source!At, Source!Done, Advance
<1>2. ASSUME NEW f \in Source!Shared, Source!Read(r, f) \/ Source!Write(r, f) PROVE Advance(r)
  <2>1. f # "remove"
    BY DEF Source!Shared
  <2> QED
    BY <1>2, <2>1 DEF Source!Read, Source!Write, Source!At, Source!Done, Advance
<1>3. ASSUME Source!RemoveOld(r) PROVE Advance(r)
  BY <1>3 DEF Source!RemoveOld, Source!At, Source!Done, Advance
<1>4. ASSUME Source!Register(r) PROVE Advance(r)
  BY <1>4 DEF Source!Register, Source!At, Source!Done, Advance
<1>5. ASSUME Source!Succeed(r) PROVE Finish(r)
  BY <1>5 DEF Source!Succeed, Finish
<1>6. ASSUME Source!Refused(r) PROVE Finish(r)
  <2>1. Source!Running(r)
    BY <1>6 DEF Source!Refused, Source!Impossible, Source!At
  <2> QED
    BY <1>6, <2>1 DEF Source!Refused, Finish
<1>7. ASSUME Source!Fault(r) PROVE Finish(r)
  BY <1>7 DEF Source!Fault, Source!Stop, Finish
<1>8. {"copy", "adapter", "manifest", "mcp", "patch", "package", "build"} \subseteq Source!Parts
  BY DEF Source!Parts
<1>9. {"token", "catalog", "hooks", "config"} \subseteq Source!Shared
  BY DEF Source!Shared
<1> QED
  BY <1>1, <1>2, <1>3, <1>4, <1>5, <1>6, <1>7, <1>8, <1>9
    DEF Source!Step, Source!CopyPlugin, Source!WriteAdapter, Source!UpdateManifest,
        Source!WriteMcpConfig, Source!PatchSource, Source!UpdatePackage, Source!Build,
        Source!WriteToken, Source!UpdateMarketplace, Source!InstallHooks, Source!EnableHooks

\* Whoever goes on undisturbed is the only one to take steps.
LEMMA OrderStep ==
    Source!SourceAssumption /\ host \in Hosts /\ OrderInv /\ [Source!Next]_(Source!vars) => OrderInv'
<1> SUFFICES ASSUME Source!SourceAssumption, host \in Hosts, OrderInv, [Source!Next]_(Source!vars)
             PROVE  OrderInv'
  OBVIOUS
<1>1. SourceInv /\ SourceInv' /\ host' = host /\ DOMAIN todo = Runs /\ DOMAIN status = Runs
      /\ DOMAIN plugin = Source!Names
  BY SourceInvStep DEF OrderInv, SourceInv, SourceTyped, Source!Next, Source!vars
<1>2. \A q \in Runs : /\ Source!Name(q)' = Source!Name(q) /\ Source!Plan(q)' = Source!Plan(q)
                      /\ Source!Name(q) \in Source!Names
  BY <1>1, PlansStay, NamesTyped
<1>3. ASSUME NEW q \in Runs, todo'[q] = todo[q] PROVE Ordered(q)'
  BY <1>1, <1>2, <1>3 DEF OrderInv, Ordered, Source!StepsOf, RegistersLast
<1>4. ASSUME NEW q \in Runs, todo'[q] = todo[q], Source!Running(q)' => Source!Running(q),
             sourceAlone'[q] => sourceAlone[q],
             plugin'[Source!Name(q)] = plugin[Source!Name(q)]
      PROVE  Emptied(q)'
  BY <1>1, <1>2, <1>4 DEF OrderInv, Emptied, Source!StepsOf, Source!Gone
<1>5. ASSUME UNCHANGED Source!vars PROVE OrderInv'
  BY <1>1, <1>3, <1>4, <1>5 DEF OrderInv, Source!vars, Source!Running
<1>6. ASSUME NEW r \in Runs, Source!Begin(r), NEW q \in Runs PROVE Ordered(q)' /\ Emptied(q)'
  <2>1. CASE q = r
    <3>1. todo'[q] = Source!Plan(q) /\ Opens(Source!Plan(q))
      BY <1>1, <1>6, <2>1, PlanShape DEF Source!Begin, SourceInv, SourceTyped
    <3>2. "remove" \in Source!StepsOf(todo'[q])
      BY <3>1 DEF Opens, Source!StepsOf
    <3>3. Emptied(q)'
      BY <3>2 DEF Emptied, Source!StepsOf
    <3>4. \A i \in DOMAIN todo'[q] :
            todo'[q][i] = "copy" => i = 1 \/ (i = 2 /\ todo'[q][1] = "remove")
      BY <3>1 DEF Opens
    <3>5. host = "opencode" => RegistersLast(todo'[q])
      BY <1>1, <3>1, PlanShape DEF SourceInv, SourceTyped
    <3>6. Ordered(q)'
      BY <1>1, <1>2, <3>1, <3>4, <3>5 DEF Ordered, Source!StepsOf, RegistersLast
    <3> QED
      BY <3>3, <3>6
  <2>2. CASE q # r
    <3>1. todo'[q] = todo[q] /\ plugin' = plugin /\ (Source!Running(q)' => Source!Running(q))
          /\ (sourceAlone'[q] => sourceAlone[q])
      BY <1>1, <1>6, <2>2 DEF Source!Begin, Source!Running
    <3> QED
      BY <1>3, <1>4, <3>1
  <2> QED
    BY <2>1, <2>2
<1>7. ASSUME NEW r \in Runs, Finish(r), NEW q \in Runs PROVE Ordered(q)' /\ Emptied(q)'
  <2>1. Ordered(q)'
    BY <1>3, <1>7 DEF Finish
  <2>2. ~(Source!Running(q)' /\ sourceAlone'[q])
    <3>1. Source!Running(q)' => Source!Running(q) /\ q # r
      BY <1>1, <1>7 DEF Finish, Source!Running
    <3> QED
      BY <1>1, <1>7, <3>1 DEF SourceInv, Undisturbed, Finish
  <2> QED
    BY <2>1, <2>2 DEF Emptied
<1>8. ASSUME NEW r \in Runs, Advance(r), NEW q \in Runs PROVE Ordered(q)' /\ Emptied(q)'
  <2>1. CASE todo' = todo /\ plugin' = plugin
    BY <1>3, <1>4, <1>8, <2>1 DEF Advance, Source!Running
  <2>2. CASE q = r /\ todo[q] # <<>> /\ todo'[q] = Tail(todo[q])
             /\ (Head(todo[q]) = "remove" =>
                   plugin' = [plugin EXCEPT ![Source!Name(q)] = Source!Gone])
    <3>1. /\ Ordered(q)'
          /\ Head(todo[q]) # "remove" => "copy" \notin Source!StepsOf(todo'[q])
      BY <1>1, <2>2, StillOrdered DEF OrderInv
    <3>2. Head(todo[q]) = "remove" => plugin'[Source!Name(q)] = Source!Gone
      BY <1>1, <1>2, <2>2
    <3>3. Emptied(q)'
      BY <1>2, <3>1, <3>2 DEF Emptied, Source!StepsOf, Source!Gone
    <3> QED
      BY <3>1, <3>3
  <2>3. \/ todo' = todo /\ plugin' = plugin
        \/ /\ todo[r] # <<>> /\ todo'[r] = Tail(todo[r])
           /\ (Head(todo[r]) = "remove" =>
                  plugin' = [plugin EXCEPT ![Source!Name(r)] = Source!Gone])
    <3>1. todo' = [todo EXCEPT ![r] = Tail(@)] => todo'[r] = Tail(todo[r])
      BY <1>1
    <3> QED
      BY <1>8, <3>1 DEF Advance
  <2>4. q # r => todo'[q] = todo[q]
    BY <1>1, <1>8 DEF Advance
  <2>5. CASE q # r /\ ~(todo' = todo /\ plugin' = plugin)
    <3>1. ~(Source!Running(q)' /\ sourceAlone'[q])
      BY <1>1, <1>8, <2>5 DEF SourceInv, Undisturbed, Advance, Source!Running
    <3> QED
      BY <1>3, <2>4, <2>5, <3>1 DEF Emptied
  <2> QED
    BY <2>1, <2>2, <2>3, <2>5
<1>9. ASSUME NEW r \in Runs, Source!Begin(r) \/ Source!Step(r) \/ Source!Fault(r) PROVE OrderInv'
  <2>1. Source!Begin(r) \/ Advance(r) \/ Finish(r)
    BY <1>9, RunSteps
  <2>3. sourceFaults' \in Nat
    <3>1. sourceFaults' = sourceFaults \/ sourceFaults' = sourceFaults + 1
      BY <2>1 DEF Source!Begin, Advance, Finish
    <3> QED
      BY <3>1 DEF OrderInv
  <2>2. \A q \in Runs : Ordered(q)' /\ Emptied(q)'
    BY <1>6, <1>7, <1>8, <2>1
  <2> QED
    BY <1>1, <2>2, <2>3 DEF OrderInv
<1> QED
  BY <1>5, <1>9 DEF Source!Next

LEMMA OrderInvTheorem ==
    ASSUME Source!SourceAssumption
    PROVE  Source!Spec => [](host \in Hosts /\ OrderInv)
<1>1. Source!Init => host \in Hosts /\ OrderInv
  <2> SUFFICES ASSUME Source!Init PROVE host \in Hosts /\ OrderInv
    OBVIOUS
  <2>1. /\ host \in Hosts /\ sourceFaults = 0
        /\ \A r \in Runs : status[r] = "idle" /\ todo[r] = <<>>
    BY DEF Source!Init
  <2>2. ASSUME NEW r \in Runs PROVE Ordered(r) /\ Emptied(r)
    BY <2>1 DEF Ordered, Emptied, Source!StepsOf, Source!Running, RegistersLast
  <2> QED
    BY <2>1, <2>2, SourceInvInit DEF OrderInv
<1>2. host \in Hosts /\ OrderInv /\ [Source!Next]_(Source!vars) => (host \in Hosts /\ OrderInv)'
  BY OrderStep DEF Source!Next, Source!vars
<1> QED
  BY <1>1, <1>2, PTL DEF Source!Spec

\* A run that can copy, and has its copy and its build when it needs them, is refused
\* only for the sources, for a file that does not load, or for a build left out.
LEMMA WhyRefused ==
    ASSUME Source!SourceAssumption, host \in Hosts, OrderInv, NEW r \in Runs, sourceAlone[r],
           Source!Refused(r)
    PROVE  \/ r \in Changed
           \/ host = "codex" /\ Torn \in {files["catalog"], files["hooks"]}
           \/ host = "opencode" /\ r \in NoBuild \cap WithInstall
<1> DEFINE step == Head(todo[r])
           here == plugin[Source!Name(r)]
<1>1. Source!Running(r) /\ todo[r] # <<>>
  BY DEF Source!Refused, Source!Impossible, Source!At
<1>2. /\ SourceInv /\ host \in {"codex", "opencode"} /\ todo[r] \in Seq(Steps)
      /\ Opens(Source!Plan(r)) /\ Ordered(r) /\ Emptied(r)
  BY PlanShape DEF OrderInv, SourceInv, SourceTyped
<1>3. /\ DOMAIN todo[r] = 1..Len(todo[r]) /\ Len(todo[r]) \in Nat \ {0} /\ step = todo[r][1]
      /\ step \in Source!StepsOf(todo[r])
  <2>1. DOMAIN todo[r] = 1..Len(todo[r]) /\ Len(todo[r]) \in Nat \ {0} /\ step = todo[r][1]
    BY <1>1, <1>2
  <2>2. step \in Source!StepsOf(todo[r])
    BY <1>1, <1>2, StepTaken
  <2> QED
    BY <2>1, <2>2
<1>4. step # "remove" => Written(r)
  <2>1. todo[r] = Source!Plan(r) \/ Written(r)
    BY <1>1, <1>2 DEF SourceInv, Undisturbed
  <2> QED
    BY <1>2, <2>1 DEF Opens
<1>5. CASE step = "copy" /\ here # Source!Gone
  <2>1. "remove" \notin Source!StepsOf(todo[r])
    BY <1>4, <1>5 DEF Written
  <2> QED
    BY <1>1, <1>2, <1>3, <1>5, <2>1 DEF Emptied
<1>6. CASE step \in {"manifest", "patch", "package", "build", "hooks"} /\ here["copy"] = None
  <2>1. "copy" \in Source!PartsOf(r)
    BY <1>2 DEF Opens, Source!PartsOf, Source!Parts, Source!StepsOf
  <2>2. "copy" \notin Source!StepsOf(todo[r])
    BY <1>2, <1>3, <1>6 DEF Ordered, Source!StepsOf
  <2>3. here["copy"] = r
    BY <1>4, <1>6, <2>1, <2>2 DEF Written
  <2> QED
    BY <1>6, <2>3 DEF Source!SourceAssumption
<1>7. CASE step = "register" /\ host = "opencode" /\ here["build"] = None
  <2>1. r \in WithInstall
    BY <1>2, <1>3, <1>7, PlanShape DEF Ordered
  <2>2. "build" \notin Source!StepsOf(todo[r])
    <3>1. Len(todo[r]) = 1
      <4>1. RegistersLast(todo[r])
        BY <1>2, <1>7 DEF Ordered
      <4>2. 1 \in DOMAIN todo[r]
        BY <1>3
      <4>3. todo[r][1] = "register"
        BY <1>3, <1>7
      <4> QED
        BY <4>1, <4>2, <4>3 DEF RegistersLast
    <3>2. DOMAIN todo[r] = {1}
      <4>1. DOMAIN todo[r] = 1..1
        BY <1>3, <3>1
      <4> QED
        BY <4>1
    <3>3. todo[r][1] = "register"
      BY <1>3, <1>7
    <3> QED
      BY <3>2, <3>3 DEF Source!StepsOf
  <2>3. ASSUME r \notin NoBuild PROVE FALSE
    <3>1. "build" \in Source!PartsOf(r)
      BY <1>2, <1>7, <2>3, PlanShape DEF Source!PartsOf, Source!Parts
    <3>2. here["build"] = r
      BY <1>4, <1>7, <2>2, <3>1 DEF Written
    <3> QED
      BY <1>7, <3>2 DEF Source!SourceAssumption
  <2> QED
    BY <1>7, <2>1, <2>3
<1>8. ASSUME NEW f \in Source!Shared, Source!At(r, f), ~Source!Readable(f)
      PROVE  host = "codex" /\ Torn \in {files["catalog"], files["hooks"]}
  <2>1. f \in {"catalog", "hooks"} /\ files[f] = Torn
    BY <1>8 DEF Source!Readable, Source!Text, Source!Shared
  <2>2. f \in Source!StepsOf(Source!Plan(r))
    BY <1>2, <1>3, <1>8 DEF Source!At, Ordered
  <2> QED
    BY <1>2, <2>1, <2>2, PlanShape
<1>9. CASE step \in {"adapter", "patch"} /\ r \in Changed
  BY <1>9
<1> QED
  BY <1>5, <1>6, <1>7, <1>8, <1>9 DEF Source!Refused, Source!Impossible, Source!At

\* An undisturbed run without a fault of its own is not refused for what an earlier
\* one has left behind, however that ended, but for a catalog or hooks file cut short.
THEOREM RerunNotRefusedTheorem ==
    ASSUME Source!SourceAssumption
    PROVE  Source!Spec => Source!RerunNotRefused
<1>1. ASSUME host \in Hosts, OrderInv, [Source!Next]_(Source!vars), NEW r \in Runs,
             Source!Running(r), sourceAlone[r], status'[r] = "failed", sourceFaults' = sourceFaults
      PROVE  \/ r \in Changed
             \/ host = "codex" /\ Torn \in {files["catalog"], files["hooks"]}
             \/ host = "opencode" /\ r \in NoBuild \cap WithInstall
  <2>1. /\ status \in [Runs -> {"idle", "running", "ok", "failed"}] /\ status[r] = "running"
        /\ \A q \in Runs \ {r} : ~Source!Running(q)
    BY <1>1 DEF OrderInv, SourceInv, SourceTyped, Undisturbed, Source!Running
  <2>2. PICK q \in Runs : Source!Begin(q) \/ Source!Step(q) \/ Source!Fault(q)
    BY <1>1, <2>1 DEF Source!Next, Source!vars
  <2>3. ~Source!Begin(q)
    BY <1>1, <2>1 DEF Source!Begin
  <2>4. ~Source!Fault(q)
    BY <1>1 DEF OrderInv, Source!Fault
  <2>5. Source!Refused(q) /\ q = r
    <3>1. ~Advance(q)
      BY <1>1, <2>1 DEF Advance
    <3>2. ~Source!Succeed(q)
      BY <1>1, <2>1 DEF Source!Succeed
    <3>3. Source!Refused(q)
      BY <2>2, <2>3, <2>4, <3>1, <3>2, RunSteps
    <3>4. q = r
      BY <1>1, <2>1, <3>3 DEF Source!Refused
    <3> QED
      BY <3>3, <3>4
  <2> QED
    BY <1>1, <2>5, WhyRefused
<1>2. (host \in Hosts /\ OrderInv) /\ [Source!Next]_(Source!vars) =>
        [\A r \in Runs :
            Source!Running(r) /\ sourceAlone[r] /\ status'[r] = "failed"
            /\ sourceFaults' = sourceFaults =>
                \/ r \in Changed
                \/ host = "codex" /\ Torn \in {files["catalog"], files["hooks"]}
                \/ host = "opencode" /\ r \in NoBuild \cap WithInstall]_(Source!vars)
  BY <1>1
<1> QED
  BY <1>2, OrderInvTheorem, PTL DEF Source!Spec, Source!RerunNotRefused

-----------------------------------------------------------------------------
\* The shared files.  Nothing stands twice under one key.
Entries == [Source!Keys -> {<<>>} \cup {<<x>> : x \in Runs \cup {None}}]

FilesTyped ==
    /\ files \in [Source!Shared -> Entries \cup {Torn}]
    /\ seen \in [Runs -> Entries \cup {None}]

DoneSteps(r) == Source!StepsOf(Source!Plan(r)) \ Source!StepsOf(todo[r])

\* What an undisturbed run has written is there, and what it has read is up to date.
Refreshed(r) ==
    Source!Running(r) /\ sourceAlone[r] =>
        /\ \A f \in Source!Shared :
              f \in DoneSteps(r) => files[f][Source!KeyOf(r, f)] = <<r>>
        /\ "register" \in DoneSteps(r) => registered[Source!Name(r)] = r
        /\ seen[r] # None => \E f \in Source!Shared : Source!At(r, f) /\ seen[r] = Source!Loaded(f)

RefreshInv == OrderInv /\ FilesTyped /\ \A r \in Runs : Refreshed(r)

LEMMA KeysTyped ==
    ASSUME host \in Hosts, NEW r \in Runs, NEW f \in Source!Shared
    PROVE  /\ Source!KeyOf(r, f) \in Source!Keys /\ Source!KeyOf(r, f) \in Source!Reach(r, f)
           /\ f = "token" => Source!KeyOf(r, f) = Source!Line(VarOf[host][r])
           /\ f \in {"catalog", "hooks"} => Source!KeyOf(r, f) = Source!Entry(Source!Name(r))
           /\ Source!Mixed(Source!Name(r)) \in Source!Keys /\ Source!Title \in Source!Keys
           /\ f = "catalog" => Source!Title \in Source!Reach(r, f)
           /\ f = "hooks" => Source!Mixed(Source!Name(r)) \in Source!Reach(r, f)
<1>1. /\ Source!Name(r) \in Source!Names /\ VarOf[host][r] \in Source!Variables
      /\ f \in {"token", "catalog", "hooks", "config"}
  BY DEF Source!Name, Source!Names, Source!Variables, Source!Shared
<1>2. /\ Source!Entry(Source!Name(r)) \in Source!Keys /\ Source!Mixed(Source!Name(r)) \in Source!Keys
      /\ Source!Line(VarOf[host][r]) \in Source!Keys
      /\ Source!Title \in Source!Keys /\ Source!Feature \in Source!Keys
  BY <1>1 DEF Source!Keys
<1> QED
  BY <1>1, <1>2 DEF Source!KeyOf, Source!Reach

LEMMA HavingTyped == ASSUME NEW keys PROVE Source!Having(keys) \in Entries
BY DEF Source!Having, Entries

LEMMA EmptyTyped == Source!Empty \in Entries
BY HavingTyped DEF Source!Empty

\* An update leaves the run one entry, and everything out of its reach alone.
LEMMA UpdateOne ==
    ASSUME host \in Hosts, NEW r \in Runs, NEW f \in Source!Shared, seen[r] \in Entries
    PROVE  /\ Source!Updated(r, f) \in Entries
           /\ Source!Updated(r, f)[Source!KeyOf(r, f)] = <<r>>
           /\ \A k \in Source!Keys \ Source!Reach(r, f) : Source!Updated(r, f)[k] = seen[r][k]
<1> DEFINE key == Source!KeyOf(r, f)
           One == {<<>>} \cup {<<x>> : x \in Runs \cup {None}}
<1>1. key \in Source!Keys /\ key \in Source!Reach(r, f)
  BY KeysTyped
<1>2. DOMAIN seen[r] = Source!Keys /\ \A k \in Source!Keys : seen[r][k] \in One
  BY DEF Entries
<1>3. <<r>> \in One /\ <<>> \in One
  OBVIOUS
<1>4. Entries = [Source!Keys -> One]
  BY DEF Entries, One
<1>5. ASSUME NEW entries \in Entries
      PROVE  Source!Upsert(entries, key, r) = [entries EXCEPT ![key] = <<r>>]
  <2>1. entries[key] \in One
    BY <1>1, <1>4
  <2>2. (IF entries[key] = <<>> THEN <<r>> ELSE [i \in DOMAIN entries[key] |-> r]) = <<r>>
    <3>1. CASE entries[key] = <<>>
      BY <3>1
    <3>2. CASE entries[key] # <<>>
      <4>1. PICK x \in Runs \cup {None} : entries[key] = <<x>>
        BY <2>1, <3>2
      <4>2. [i \in DOMAIN <<x>> |-> r] = <<r>>
        OBVIOUS
      <4> QED
        BY <3>2, <4>1, <4>2
    <3> QED
      BY <3>1, <3>2
  <2> QED
    BY <2>2 DEF Source!Upsert
<1> HIDE DEF One
<1>6. CASE f = "hooks"
  <2> DEFINE other == Source!Mixed(Source!Name(r))
             stripped == Source!Strip(seen[r], Source!Name(r))
  <2>1. /\ key = Source!Entry(Source!Name(r))
        /\ other \in Source!Keys /\ other \in Source!Reach(r, f)
        /\ key # other
    BY <1>6, KeysTyped DEF Source!Entry, Source!Mixed
  <2> HIDE DEF other
  <2>2. stripped = [[seen[r] EXCEPT ![key] = <<>>] EXCEPT ![other] = <<>>]
    BY <2>1 DEF Source!Strip, other
  <2>3. stripped[key] = <<>> /\ Append(<<>>, r) = <<r>>
    BY <1>1, <1>2, <2>1, <2>2
  <2>4. Source!Updated(r, f) = [stripped EXCEPT ![key] = <<r>>]
    BY <1>6, <2>1, <2>3 DEF Source!Updated, Source!Merge
  <2>5. [stripped EXCEPT ![key] = <<r>>]
          = [[seen[r] EXCEPT ![other] = <<>>] EXCEPT ![key] = <<r>>]
    <3> HIDE DEF stripped, key
    <3> QED
      BY <1>1, <1>2, <2>1, <2>2
  <2> DEFINE new == [[seen[r] EXCEPT ![other] = <<>>] EXCEPT ![key] = <<r>>]
  <2>6. Source!Updated(r, f) = new
    BY <2>4, <2>5
  <2>7. /\ new \in Entries /\ new[key] = <<r>>
        /\ \A k \in Source!Keys \ Source!Reach(r, f) : new[k] = seen[r][k]
    <3> HIDE DEF key
    <3> QED
      BY <1>1, <1>2, <1>3, <1>4, <2>1
  <2> HIDE DEF new
  <2> QED
    BY <2>6, <2>7
<1>7. CASE f = "catalog"
  <2> DEFINE titled == [seen[r] EXCEPT ![Source!Title] = <<r>>]
  <2>1. Source!Title \in Source!Keys /\ Source!Title \in Source!Reach(r, f)
    BY <1>7, KeysTyped
  <2>2. titled \in Entries
    BY <1>2, <1>3, <1>4, <2>1
  <2>3. Source!Updated(r, f) = Source!Upsert(titled, key, r)
    BY <1>7 DEF Source!Updated
  <2>4. Source!Updated(r, f) = [titled EXCEPT ![key] = <<r>>]
    BY <1>5, <2>2, <2>3
  <2> DEFINE new == [[seen[r] EXCEPT ![Source!Title] = <<r>>] EXCEPT ![key] = <<r>>]
  <2>5. /\ new \in Entries /\ new[key] = <<r>>
        /\ \A k \in Source!Keys \ Source!Reach(r, f) : new[k] = seen[r][k]
    <3> HIDE DEF key
    <3> QED
      BY <1>1, <1>2, <1>3, <1>4, <2>1
  <2>6. Source!Updated(r, f) = new
    BY <2>4
  <2> HIDE DEF new
  <2> QED
    BY <2>5, <2>6
<1>8. CASE f \notin {"hooks", "catalog"}
  <2>1. Source!Updated(r, f) = [seen[r] EXCEPT ![key] = <<r>>]
    BY <1>5, <1>8 DEF Source!Updated
  <2> HIDE DEF key
  <2>2. /\ [seen[r] EXCEPT ![key] = <<r>>] \in Entries
        /\ [seen[r] EXCEPT ![key] = <<r>>][key] = <<r>>
        /\ \A k \in Source!Keys \ Source!Reach(r, f) :
              [seen[r] EXCEPT ![key] = <<r>>][k] = seen[r][k]
    BY <1>1, <1>2, <1>3, <1>4
  <2> QED
    BY <2>1, <2>2 DEF key
<1> HIDE DEF key
<1> QED
  BY <1>6, <1>7, <1>8 DEF key

\* A step done is one done before, or the one that is taken.
LEMMA DoneGrows ==
    ASSUME SourceInv, host' = host, NEW r \in Runs, todo[r] # <<>>, todo'[r] = Tail(todo[r])
    PROVE  DoneSteps(r)' \subseteq DoneSteps(r) \cup {Head(todo[r])}
<1>1. /\ Source!Plan(r)' = Source!Plan(r)
      /\ Source!StepsOf(Source!Plan(r))' = Source!StepsOf(Source!Plan(r))
      /\ Source!StepsOf(todo[r])' = Source!StepsOf(todo'[r])
  BY PlansStay DEF Source!StepsOf
<1>2. Source!StepsOf(todo[r]) = {Head(todo[r])} \cup Source!StepsOf(Tail(todo[r]))
  BY StepTaken DEF SourceInv, SourceTyped
<1> QED
  BY <1>1, <1>2 DEF DoneSteps

\* Which steps touch the shared files.
LEMMA FileSteps ==
    ASSUME NEW r \in Runs, Source!Step(r) \/ Source!Fault(r)
    PROVE  \/ UNCHANGED <<files, seen>>
           \/ \E f \in Source!Shared : Source!Read(r, f) \/ Source!Write(r, f)
           \/ seen' = seen /\ \E f \in Source!Shared : files' = [files EXCEPT ![f] = Torn]
<1>1. {"token", "catalog", "hooks", "config"} \subseteq Source!Shared
  BY DEF Source!Shared
<1>2. CASE Source!Fault(r)
  BY <1>2 DEF Source!Fault, Source!Stop
<1>3. CASE \/ Source!RemoveOld(r) \/ Source!Register(r) \/ Source!Succeed(r) \/ Source!Refused(r)
           \/ \E part \in Source!Parts : Source!Put(r, part)
  BY <1>3 DEF Source!RemoveOld, Source!Register, Source!Succeed, Source!Refused, Source!Put
<1>4. {"copy", "adapter", "manifest", "mcp", "patch", "package", "build"} \subseteq Source!Parts
  BY DEF Source!Parts
<1> QED
  BY <1>1, <1>2, <1>3, <1>4
    DEF Source!Step, Source!CopyPlugin, Source!WriteAdapter, Source!UpdateManifest,
        Source!WriteMcpConfig, Source!PatchSource, Source!UpdatePackage, Source!Build,
        Source!WriteToken, Source!UpdateMarketplace, Source!InstallHooks, Source!EnableHooks

LEMMA FilesTypedStep ==
    ASSUME Source!SourceAssumption, host \in Hosts, FilesTyped, [Source!Next]_(Source!vars)
    PROVE  FilesTyped'
<1>0. /\ Entries' = Entries
      /\ FilesTyped' <=> /\ files' \in [Source!Shared -> Entries \cup {Torn}]
                         /\ seen' \in [Runs -> Entries \cup {None}]
  <2>1. Entries' = Entries
    BY DEF Entries, Source!Keys, Source!Names
  <2> QED
    BY <2>1 DEF FilesTyped
<1>1. CASE UNCHANGED <<files, seen>>
  BY <1>0, <1>1 DEF FilesTyped
<1>2. ASSUME NEW r \in Runs, Source!Begin(r) PROVE FilesTyped'
  BY <1>0, <1>2 DEF Source!Begin, FilesTyped
<1>3. ASSUME NEW r \in Runs, NEW f \in Source!Shared, Source!Read(r, f) PROVE FilesTyped'
  <2>1. Source!Loaded(f) \in Entries
    BY EmptyTyped DEF Source!Loaded, FilesTyped
  <2>2. files' = files /\ seen' = [seen EXCEPT ![r] = Source!Loaded(f)]
    BY <1>3 DEF Source!Read
  <2> QED
    BY <1>0, <2>1, <2>2 DEF FilesTyped
<1>4. ASSUME NEW r \in Runs, NEW f \in Source!Shared, Source!Write(r, f) PROVE FilesTyped'
  <2>1. seen[r] \in Entries
    BY <1>4 DEF Source!Write, FilesTyped
  <2>2. Source!Updated(r, f) \in Entries
    BY <2>1, UpdateOne
  <2>3. files' = [files EXCEPT ![f] = Source!Updated(r, f)] /\ seen' = [seen EXCEPT ![r] = None]
    BY <1>4 DEF Source!Write
  <2> QED
    BY <1>0, <2>2, <2>3 DEF FilesTyped
<1>5. ASSUME NEW f \in Source!Shared, files' = [files EXCEPT ![f] = Torn], seen' = seen
      PROVE  FilesTyped'
  BY <1>0, <1>5 DEF FilesTyped
<1>6. CASE UNCHANGED Source!vars
  BY <1>1, <1>6 DEF Source!vars
<1>7. ASSUME NEW r \in Runs, Source!Begin(r) \/ Source!Step(r) \/ Source!Fault(r) PROVE FilesTyped'
  BY <1>1, <1>2, <1>3, <1>4, <1>5, <1>7, FileSteps
<1> QED
  BY <1>6, <1>7 DEF Source!Next

\* Whoever is undisturbed sees nobody write or read but himself.
LEMMA RefreshStep ==
    ASSUME Source!SourceAssumption, host \in Hosts, RefreshInv, [Source!Next]_(Source!vars)
    PROVE  RefreshInv'
<1>1. /\ OrderInv /\ OrderInv' /\ SourceInv /\ FilesTyped /\ FilesTyped' /\ host' = host
      /\ DOMAIN todo = Runs /\ DOMAIN status = Runs
  BY OrderStep, FilesTypedStep
    DEF RefreshInv, OrderInv, SourceInv, SourceTyped, Source!Next, Source!vars
<1>2. \A q \in Runs : /\ Source!Name(q)' = Source!Name(q)
                      /\ Source!StepsOf(Source!Plan(q))' = Source!StepsOf(Source!Plan(q))
                      /\ \A f \in Source!Shared : Source!KeyOf(q, f)' = Source!KeyOf(q, f)
  BY <1>1, PlansStay DEF Source!StepsOf, Source!KeyOf
<1>3. ASSUME NEW q \in Runs, UNCHANGED <<status, todo, sourceAlone, registered, files, seen>>
      PROVE  Refreshed(q)'
  <2>1. /\ Source!Running(q)' = Source!Running(q) /\ DoneSteps(q)' = DoneSteps(q)
        /\ \A f \in Source!Shared : /\ Source!At(q, f)' = Source!At(q, f)
                                    /\ Source!Loaded(f)' = Source!Loaded(f)
    <3>1. Source!Keys' = Source!Keys
      BY DEF Source!Keys, Source!Names
    <3> QED
      BY <1>2, <1>3, <3>1
        DEF Source!Running, DoneSteps, Source!StepsOf, Source!At, Source!Loaded, Source!Empty
  <2>2. Refreshed(q)
    BY DEF RefreshInv
  <2>3. SUFFICES ASSUME Source!Running(q), sourceAlone[q]
                 PROVE  /\ \A f \in Source!Shared :
                              f \in DoneSteps(q) => files[f][Source!KeyOf(q, f)] = <<q>>
                        /\ "register" \in DoneSteps(q) => registered[Source!Name(q)] = q
                        /\ seen[q] # None =>
                              \E f \in Source!Shared : Source!At(q, f) /\ seen[q] = Source!Loaded(f)
    BY <1>2, <1>3, <2>1 DEF Refreshed
  <2> QED
    BY <2>2, <2>3 DEF Refreshed
<1>4. ASSUME NEW r \in Runs, Source!Begin(r), NEW q \in Runs PROVE Refreshed(q)'
  <2>1. CASE q = r
    <3>1. todo'[q] = Source!Plan(q) /\ seen'[q] = None
      BY <1>1, <1>4, <2>1 DEF Source!Begin, FilesTyped
    <3>2. DoneSteps(q)' = {}
      BY <1>2, <3>1 DEF DoneSteps, Source!StepsOf
    <3> QED
      BY <3>1, <3>2 DEF Refreshed
  <2>2. CASE q # r
    <3>1. ~(Source!Running(q)' /\ sourceAlone'[q])
      BY <1>1, <1>4, <2>2 DEF Source!Begin, Source!Running
    <3> QED
      BY <3>1 DEF Refreshed
  <2> QED
    BY <2>1, <2>2
<1>5. ASSUME NEW r \in Runs, Advance(r) \/ Finish(r), NEW q \in Runs \ {r} PROVE Refreshed(q)'
  <2>1. ~(Source!Running(q) /\ sourceAlone[q])
    BY <1>1, <1>5 DEF SourceInv, Undisturbed, Advance, Finish
  <2>2. ~(Source!Running(q)' /\ sourceAlone'[q])
    BY <1>1, <1>5, <2>1 DEF Advance, Finish, Source!Running
  <2> QED
    BY <2>2 DEF Refreshed
<1>6. ASSUME NEW r \in Runs, Finish(r) PROVE Refreshed(r)'
  BY <1>1, <1>6 DEF Finish, Refreshed, Source!Running
<1>7. ASSUME NEW r \in Runs, todo[r] # <<>>, Source!Done(r), Source!Running(r),
             registered' = IF Head(todo[r]) = "register"
                           THEN [registered EXCEPT ![Source!Name(r)] = r] ELSE registered,
             \/ Head(todo[r]) \notin Source!Shared /\ UNCHANGED <<files, seen>>
             \/ \E f \in Source!Shared : Source!Write(r, f)
      PROVE  Refreshed(r)'
  <2> SUFFICES ASSUME sourceAlone[r]
               PROVE  /\ \A f \in Source!Shared :
                            f \in DoneSteps(r)' => files'[f][Source!KeyOf(r, f)] = <<r>>
                      /\ "register" \in DoneSteps(r)' => registered'[Source!Name(r)] = r
                      /\ seen'[r] = None
    BY <1>2, <1>7 DEF Refreshed, Source!Done
  <2>1. todo'[r] = Tail(todo[r])
    BY <1>1, <1>7 DEF Source!Done
  <2>2. DoneSteps(r)' \subseteq DoneSteps(r) \cup {Head(todo[r])}
    BY <1>1, <1>7, <2>1, DoneGrows
  <2>3. Refreshed(r) /\ Source!Running(r)
    BY <1>7 DEF RefreshInv
  <2>4. "register" \in DoneSteps(r)' => registered'[Source!Name(r)] = r
    <3>1. Source!Name(r) \in Source!Names /\ DOMAIN registered = Source!Names
      BY <1>1, NamesTyped DEF SourceInv, SourceTyped
    <3> QED
      BY <1>7, <2>2, <2>3, <3>1 DEF Refreshed
  <2>5. CASE Head(todo[r]) \notin Source!Shared /\ UNCHANGED <<files, seen>>
    <3>1. seen'[r] = None
      BY <2>3, <2>5 DEF Refreshed, Source!At
    <3> QED
      BY <2>2, <2>3, <2>4, <2>5, <3>1 DEF Refreshed
  <2>6. ASSUME NEW f \in Source!Shared, Source!Write(r, f)
        PROVE  /\ \A g \in Source!Shared :
                     g \in DoneSteps(r)' => files'[g][Source!KeyOf(r, g)] = <<r>>
               /\ seen'[r] = None
    <3>1. /\ Head(todo[r]) = f /\ files' = [files EXCEPT ![f] = Source!Updated(r, f)]
          /\ seen[r] \in Entries /\ seen' = [seen EXCEPT ![r] = None]
      BY <1>1, <2>6 DEF Source!Write, Source!At, FilesTyped
    <3>2. Source!Updated(r, f)[Source!KeyOf(r, f)] = <<r>>
      BY <3>1, UpdateOne
    <3>3. files'[f] = Source!Updated(r, f) /\ \A g \in Source!Shared \ {f} : files'[g] = files[g]
      BY <1>1, <3>1 DEF FilesTyped
    <3>4. seen'[r] = None
      BY <1>1, <3>1 DEF FilesTyped
    <3> QED
      BY <2>2, <2>3, <3>1, <3>2, <3>3, <3>4 DEF Refreshed
  <2> QED
    BY <1>7, <2>4, <2>5, <2>6
<1>8. ASSUME NEW r \in Runs, NEW f \in Source!Shared, Source!Read(r, f) PROVE Refreshed(r)'
  <2>1. /\ Source!Running(r) /\ UNCHANGED <<files, registered, status, todo, sourceAlone>>
        /\ Source!At(r, f) /\ seen'[r] = Source!Loaded(f)
    BY <1>1, <1>8 DEF Source!Read, Source!At, FilesTyped
  <2>2. /\ DoneSteps(r)' = DoneSteps(r) /\ Source!At(r, f)' /\ Source!Loaded(f)' = Source!Loaded(f)
    BY <1>2, <2>1
      DEF DoneSteps, Source!StepsOf, Source!At, Source!Running, Source!Loaded, Source!Empty,
          Source!Keys, Source!Names
  <2> QED
    BY <1>2, <2>1, <2>2 DEF RefreshInv, Refreshed
<1>9. ASSUME NEW r \in Runs, Source!Step(r) \/ Source!Fault(r) PROVE Refreshed(r)'
  <2>1. ASSUME NEW part \in Source!Parts, Source!Put(r, part) PROVE Refreshed(r)'
    <3>1. part \notin Source!Shared /\ part # "register"
      BY DEF Source!Parts, Source!Shared
    <3> QED
      BY <1>7, <2>1, <3>1 DEF Source!Put, Source!At
  <2>2. ASSUME NEW f \in Source!Shared, Source!Write(r, f) PROVE Refreshed(r)'
    <3>1. f # "register"
      BY DEF Source!Shared
    <3> QED
      BY <1>7, <2>2, <3>1 DEF Source!Write, Source!At
  <2>3. CASE Source!RemoveOld(r)
    <3>1. "remove" \notin Source!Shared
      BY DEF Source!Shared
    <3> QED
      BY <1>7, <2>3, <3>1 DEF Source!RemoveOld, Source!At
  <2>4. CASE Source!Register(r)
    <3>1. "register" \notin Source!Shared
      BY DEF Source!Shared
    <3> QED
      BY <1>7, <2>4, <3>1 DEF Source!Register, Source!At
  <2>5. CASE Source!Succeed(r) \/ Source!Refused(r) \/ Source!Fault(r)
    BY <1>6, <2>5, RunSteps
  <2>6. {"copy", "adapter", "manifest", "mcp", "patch", "package", "build"} \subseteq Source!Parts
    BY DEF Source!Parts
  <2>7. {"token", "catalog", "hooks", "config"} \subseteq Source!Shared
    BY DEF Source!Shared
  <2> QED
    BY <1>8, <1>9, <2>1, <2>2, <2>3, <2>4, <2>5, <2>6, <2>7
      DEF Source!Step, Source!CopyPlugin, Source!WriteAdapter, Source!UpdateManifest,
          Source!WriteMcpConfig, Source!PatchSource, Source!UpdatePackage, Source!Build,
          Source!WriteToken, Source!UpdateMarketplace, Source!InstallHooks, Source!EnableHooks
<1>10. ASSUME NEW r \in Runs, Source!Begin(r) \/ Source!Step(r) \/ Source!Fault(r), NEW q \in Runs
       PROVE  Refreshed(q)'
  <2>1. Source!Begin(r) \/ Advance(r) \/ Finish(r)
    BY <1>10, RunSteps
  <2> QED
    BY <1>4, <1>5, <1>9, <1>10, <2>1
<1> QED
  BY <1>1, <1>3, <1>10 DEF RefreshInv, Source!Next, Source!vars

LEMMA RefreshInvTheorem ==
    ASSUME Source!SourceAssumption
    PROVE  Source!Spec => [](host \in Hosts /\ RefreshInv)
<1>1. ASSUME Source!Init PROVE host \in Hosts /\ RefreshInv
  <2>1. host \in Hosts /\ SourceInv /\ sourceFaults \in Nat
    BY <1>1, SourceInvInit DEF Source!Init
  <2>2. OrderInv /\ \A r \in Runs : Refreshed(r)
    BY <1>1, <2>1 DEF Source!Init, OrderInv, Ordered, Emptied, Source!StepsOf, Source!Running,
                      RegistersLast, Refreshed
  <2>3. \A keys : Source!Having(keys) \in Entries
    BY HavingTyped
  <2>4. FilesTyped
    BY <1>1, <2>3 DEF Source!Init, FilesTyped
  <2> QED
    BY <2>1, <2>2, <2>4 DEF RefreshInv
<1>2. host \in Hosts /\ RefreshInv /\ [Source!Next]_(Source!vars) => (host \in Hosts /\ RefreshInv)'
  BY RefreshStep DEF Source!Next, Source!vars
<1> QED
  BY <1>1, <1>2, PTL DEF Source!Spec

\* Whatever earlier runs left behind, an undisturbed run that succeeds leaves every
\* part, entry and registration its own.
THEOREM SuccessRefreshesTheorem ==
    ASSUME Source!SourceAssumption
    PROVE  Source!Spec => Source!SuccessRefreshes
<1> DEFINE Fresh(r) ==
      /\ \A part \in Source!PartsOf(r) : plugin'[Source!Name(r)][part] = r
      /\ r \in WithInstall => registered'[Source!Name(r)] = r
      /\ host = "codex" => files'["catalog"][Source!Entry(Source!Name(r))] = <<r>>
      /\ host = "codex" /\ r \in WithHooks => files'["hooks"][Source!Entry(Source!Name(r))] = <<r>>
      /\ r \in WithToken => files'["token"][Source!Line(VarOf[host][r])] = <<r>>
<1>1. ASSUME host \in Hosts, RefreshInv, [Source!Next]_(Source!vars), NEW r \in Runs,
             Source!Running(r), status'[r] = "ok", sourceAlone[r]
      PROVE  Fresh(r)
  <2>1. /\ SourceInv /\ DOMAIN status = Runs /\ status[r] = "running"
        /\ host \in {"codex", "opencode"}
    BY <1>1 DEF RefreshInv, OrderInv, SourceInv, SourceTyped, Source!Running
  <2>2. PICK q \in Runs : Source!Begin(q) \/ Source!Step(q) \/ Source!Fault(q)
    BY <1>1, <2>1 DEF Source!Next, Source!vars
  <2>3. Source!Succeed(r)
    <3>1. ~Source!Begin(q) /\ ~Source!Fault(q) /\ ~Source!Refused(q) /\ ~Advance(q)
      BY <1>1, <2>1 DEF Source!Begin, Source!Fault, Source!Stop, Source!Refused, Advance
    <3>2. Source!Succeed(q)
      BY <2>2, <3>1, RunSteps
    <3>3. q = r
      BY <1>1, <2>1, <3>2 DEF Source!Succeed
    <3> QED
      BY <3>2, <3>3
  <2>4. todo[r] = <<>> /\ UNCHANGED <<plugin, registered, files>> /\ Source!StepsOf(todo[r]) = {}
    BY <2>3 DEF Source!Succeed, Source!StepsOf
  <2>5. Written(r)
    <3>1. todo[r] # Source!Plan(r)
      BY <2>1, <2>4, PlanShape DEF Opens
    <3> QED
      BY <1>1, <2>1, <3>1 DEF SourceInv, Undisturbed
  <2>6. DoneSteps(r) = Source!StepsOf(Source!Plan(r)) /\ Refreshed(r)
    BY <1>1, <2>4 DEF DoneSteps, RefreshInv
  <2>7. /\ \A f \in {"catalog", "hooks"} :
              f \in Source!Shared /\ Source!KeyOf(r, f) = Source!Entry(Source!Name(r))
        /\ "token" \in Source!Shared /\ Source!KeyOf(r, "token") = Source!Line(VarOf[host][r])
    BY DEF Source!Shared, Source!KeyOf
  <2>8. /\ \A f \in {"catalog", "hooks"} :
              f \in Source!StepsOf(Source!Plan(r)) => files[f][Source!Entry(Source!Name(r))] = <<r>>
        /\ "token" \in Source!StepsOf(Source!Plan(r)) =>
              files["token"][Source!Line(VarOf[host][r])] = <<r>>
    <3>1. \A f \in Source!Shared : f \in DoneSteps(r) => files[f][Source!KeyOf(r, f)] = <<r>>
      BY <1>1, <2>6 DEF Refreshed
    <3> QED
      BY <2>6, <2>7, <3>1
  <2>9. r \in WithInstall => registered[Source!Name(r)] = r
    BY <1>1, <2>1, <2>6, PlanShape DEF Refreshed
  <2>10. \A part \in Source!PartsOf(r) : plugin[Source!Name(r)][part] = r
    BY <2>4, <2>5 DEF Written
  <2> QED
    BY <2>1, <2>4, <2>8, <2>9, <2>10, PlanShape
<1>2. (host \in Hosts /\ RefreshInv) /\ [Source!Next]_(Source!vars) =>
        [\A r \in Runs :
            Source!Running(r) /\ status'[r] = "ok" /\ sourceAlone[r] => Fresh(r)]_(Source!vars)
  BY <1>1
<1>3. Source!SuccessRefreshes <=>
        [][\A r \in Runs :
              Source!Running(r) /\ status'[r] = "ok" /\ sourceAlone[r] => Fresh(r)]_(Source!vars)
  BY DEF Source!SuccessRefreshes
<1> QED
  BY <1>2, <1>3, RefreshInvTheorem, PTL DEF Source!Spec

\* As long as runs do not overlap, nothing in a shared file changes that is not an entry
\* of the run's plugin, the line of its token variable, the marketplace's name, codex_hooks
\* or a hook of the user's in an entry of the plugin, whichever names and variables the
\* runs share.
THEOREM OthersUntouchedTheorem ==
    ASSUME Source!SourceAssumption
    PROVE  Source!Spec => Source!OthersKept
<1> DEFINE Kept(f, r) == \A k \in Source!Keys \ Source!Reach(r, f) : files'[f][k] = files[f][k]
           Apart(r) == (\A q \in Runs : Source!Running(q) => sourceAlone[q]) /\ Source!Running(r)
<1>1. ASSUME host \in Hosts, RefreshInv, [Source!Next]_(Source!vars), NEW f \in Source!Shared,
             NEW r \in Runs, Apart(r), Torn \notin {files[f], files'[f]}
      PROVE  Kept(f, r)
  <2>1. /\ SourceInv /\ FilesTyped /\ Refreshed(r) /\ Source!Running(r) /\ sourceAlone[r]
        /\ \A q \in Runs : Source!Running(q) => q = r
    BY <1>1 DEF RefreshInv, OrderInv, SourceInv, Undisturbed
  <2>2. CASE files' = files
    BY <2>2
  <2>3. CASE files' # files
    <3>1. PICK q \in Runs : Source!Step(q) \/ Source!Fault(q)
      BY <1>1, <2>3 DEF Source!Next, Source!vars, Source!Begin
    <3>2. q = r
      BY <2>1, <3>1, RunSteps DEF Advance, Finish
    <3>3. CASE \E g \in Source!Shared : files' = [files EXCEPT ![g] = Torn]
      <4>1. PICK g \in Source!Shared : files' = [files EXCEPT ![g] = Torn]
        BY <3>3
      <4>2. g # f
        BY <1>1, <2>1, <4>1 DEF FilesTyped
      <4> QED
        BY <2>1, <4>1, <4>2 DEF FilesTyped
    <3>4. ASSUME NEW g \in Source!Shared, Source!Write(r, g) PROVE Kept(f, r)
      <4>1. files' = [files EXCEPT ![g] = Source!Updated(r, g)] /\ seen[r] \in Entries /\ seen[r] # None
            /\ Head(todo[r]) = g
        BY <2>1, <3>4 DEF Source!Write, Source!At, FilesTyped
      <4>2. seen[r] = Source!Loaded(g)
        BY <2>1, <4>1 DEF Refreshed, Source!At
      <4>3. CASE g = f
        <5>1. seen[r] = files[f] /\ files'[f] = Source!Updated(r, f)
          BY <1>1, <2>1, <4>1, <4>2, <4>3 DEF Source!Loaded, FilesTyped
        <5>2. \A k \in Source!Keys \ Source!Reach(r, f) : Source!Updated(r, f)[k] = seen[r][k]
          BY <1>1, <4>1, UpdateOne
        <5> QED
          BY <5>1, <5>2
      <4>4. CASE g # f
        BY <2>1, <4>1, <4>4 DEF FilesTyped
      <4> QED
        BY <4>3, <4>4
    <3>5. \/ \E g \in Source!Shared : files' = [files EXCEPT ![g] = Torn]
          \/ \E g \in Source!Shared : Source!Write(r, g)
      BY <2>3, <3>1, <3>2, FileSteps DEF Source!Read
    <3> QED
      BY <3>3, <3>4, <3>5
  <2> QED
    BY <2>2, <2>3
<1>2. (host \in Hosts /\ RefreshInv) /\ [Source!Next]_(Source!vars) =>
        [\A f \in Source!Shared, r \in Runs :
            Apart(r) /\ Torn \notin {files[f], files'[f]} => Kept(f, r)]_(Source!vars)
  BY <1>1
<1>3. Source!OthersKept <=>
        [][\A f \in Source!Shared, r \in Runs :
              Apart(r) /\ Torn \notin {files[f], files'[f]} => Kept(f, r)]_(Source!vars)
  BY DEF Source!OthersKept
<1> QED
  BY <1>2, <1>3, RefreshInvTheorem, PTL DEF Source!Spec

-----------------------------------------------------------------------------
\* PluginPromotion, for any runs, and any number of failures and kills.

Forward == {"building", "credential", "moveAway", "promote", "settings", "cleanup"}
Backward == {"demote", "restorePackage", "restoreEnv"}

\* A run that works alone: nobody else is under way, and where it is says how far it
\* has come.  After a second failure nothing is said.
Unmoved(r) == target = before[r].target /\ backup[r] = None
MovedAway(r) == target = None /\ backup[r] = before[r].target
NewEnv(r) == env = IF r \in WithToken THEN r ELSE before[r].env

Progress(r) ==
    /\ pc[r] = "building" => Unmoved(r) /\ env = before[r].env
    /\ pc[r] \in {"credential", "moveAway", "promote", "settings", "cleanup"} =>
          savedEnv[r] = before[r].env
    /\ pc[r] = "credential" => Unmoved(r) /\ env = before[r].env /\ r \in WithToken
    /\ pc[r] = "moveAway" => Unmoved(r) /\ NewEnv(r)
    /\ pc[r] = "promote" => MovedAway(r) /\ NewEnv(r)
    /\ pc[r] = "cleanup" => client = "devin"
    /\ pc[r] = "settings" => client = "pi"
    /\ pc[r] \in {"settings", "cleanup"} =>
          target = r /\ backup[r] = before[r].target /\ NewEnv(r)

Undoing(r) ==
    /\ savedEnv[r] = before[r].env
    /\ r \notin WithToken => env = before[r].env
    /\ pc[r] = "demote" => target = r /\ backup[r] = before[r].target
    /\ pc[r] = "restorePackage" =>
          /\ Unmoved(r) \/ MovedAway(r)
          /\ client = "devin" => env = before[r].env
    /\ pc[r] = "restoreEnv" =>
          /\ r \in WithToken
          /\ IF client = "devin" THEN Unmoved(r) \/ MovedAway(r) ELSE target = before[r].target

RunInv(r) ==
    /\ Promotion!Active(r) /\ alone[r] => \A q \in Runs \ {r} : ~Promotion!Active(q)
    /\ pc[r] \in {"idle"} \cup Forward => bad[r] = 0
    /\ pc[r] \in {"idle", "building", "credential", "moveAway"} => backup[r] = None
    /\ pc[r] = "demote" => client = "pi" /\ bad[r] # 0
    /\ alone[r] => Progress(r)
    /\ pc[r] \in Backward /\ alone[r] => bad[r] # 0 /\ (bad[r] = 1 => Undoing(r))
    /\ pc[r] = "demote" /\ alone[r] => target = r

PromotionInv ==
    /\ pc \in [Runs -> Promotion!Resting \cup Forward \cup Backward]
    /\ bad \in [Runs -> Nat]
    /\ backup = [r \in Runs |-> backup[r]] /\ savedEnv = [r \in Runs |-> savedEnv[r]]
    /\ before = [r \in Runs |-> before[r]] /\ alone \in [Runs -> BOOLEAN]
    /\ client \in {"devin", "pi"}
    /\ \A r \in Runs : RunInv(r)

LEMMA InitPromotionInv == ASSUME Promotion!PromotionAssumption, Promotion!Init PROVE PromotionInv
  <1>1. \A r \in Runs : pc[r] = "idle" /\ bad[r] = 0 /\ backup[r] = None
    BY DEF Promotion!Init
  <1>2. \A r \in Runs : RunInv(r)
    BY <1>1 DEF RunInv, Promotion!Active, Promotion!Resting, Forward, Backward, Progress
  <1>3. QED
    BY <1>2 DEF Promotion!PromotionAssumption, Promotion!Init, PromotionInv, Promotion!Resting

\* What a run does changes nothing in the invariant of another one, which is not
\* working alone.
LEMMA OtherRun ==
    ASSUME NEW q \in Runs, RunInv(q),
           UNCHANGED <<pc[q], bad[q], backup[q], savedEnv[q], before[q]>>,
           UNCHANGED client, alone'[q] => ~Promotion!Active(q),
           pc[q] \in Promotion!Resting \cup Forward \cup Backward
    PROVE  RunInv(q)'
  <1>1. Promotion!Active(q)' = Promotion!Active(q)
    BY DEF Promotion!Active
  <1>2. CASE ~alone'[q]
    BY <1>1, <1>2 DEF RunInv
  <1>3. CASE ~Promotion!Active(q)
    BY <1>1, <1>3 DEF RunInv, Promotion!Active, Promotion!Resting, Forward, Backward, Progress
  <1>4. QED
    BY <1>2, <1>3

LEMMA NextPromotionInv ==
    ASSUME Promotion!PromotionAssumption, PromotionInv, [Promotion!Next]_(Promotion!vars)
    PROVE  PromotionInv'
  <1> USE DEF PromotionInv
  <1>0. None \notin Runs
    BY DEF Promotion!PromotionAssumption
  <1>1. ASSUME NEW r \in Runs, Promotion!Begin(r), UNCHANGED client PROVE PromotionInv'
    <2>1. \A q \in Runs \ {r} : RunInv(q)'
      <3>1. ASSUME NEW q \in Runs \ {r} PROVE RunInv(q)'
        <4>1. UNCHANGED <<pc[q], bad[q], backup[q], savedEnv[q], before[q]>>
              /\ (alone'[q] => ~Promotion!Active(q))
          BY <1>1 DEF Promotion!Begin, Promotion!files, Promotion!Goto
        <4>2. QED
          BY <1>1, <4>1, OtherRun
      <3>2. QED
        BY <3>1
    <2>2. RunInv(r)'
      <3>1. /\ pc[r] = "idle" /\ pc'[r] = "building"
            /\ before'[r] = [target |-> target, env |-> env]
            /\ alone'[r] <=> \A p \in Runs : ~Promotion!Active(p)
            /\ UNCHANGED <<target, backup, env, savedEnv, bad>>
            /\ \A q \in Runs \ {r} : pc'[q] = pc[q]
        BY <1>1 DEF Promotion!Begin, Promotion!files, Promotion!Goto
      <3>2. QED
        BY <3>1
          DEF RunInv, Promotion!Active, Promotion!Resting, Forward, Backward, Progress,
              Undoing, Unmoved, MovedAway, NewEnv
    <2>3. QED
      BY <1>1, <2>1, <2>2
        DEF Promotion!Begin, Promotion!files, Promotion!Goto, Promotion!Resting, Forward,
            Backward
  <1>2. ASSUME NEW r \in Runs, Promotion!Build(r), UNCHANGED client PROVE PromotionInv'
    <2>1. \A q \in Runs \ {r} : RunInv(q)'
      <3>1. ASSUME NEW q \in Runs \ {r} PROVE RunInv(q)'
        <4>1. /\ UNCHANGED <<pc[q], bad[q], backup[q], savedEnv[q], before[q], alone[q]>>
              /\ Promotion!Active(r)
          BY <1>2
            DEF Promotion!Build, Promotion!files, Promotion!Goto, Promotion!Keep,
                Promotion!Active, Promotion!Resting
        <4>2. alone'[q] => ~Promotion!Active(q)
          BY <4>1 DEF RunInv
        <4>3. QED
          BY <1>2, <4>1, <4>2, OtherRun
      <3>2. QED
        BY <3>1
    <2>2. RunInv(r)'
      BY <1>0, <1>2
        DEF Promotion!Build, Promotion!files, Promotion!Goto, Promotion!Keep, RunInv,
            Promotion!Active, Promotion!Resting, Forward, Backward, Progress, Undoing, Unmoved,
            MovedAway, NewEnv
    <2>3. QED
      BY <1>2, <2>1, <2>2
        DEF Promotion!Build, Promotion!files, Promotion!Goto, Promotion!Keep,
            Promotion!Resting, Forward, Backward
  <1>3. ASSUME NEW r \in Runs, Promotion!WriteToken(r), UNCHANGED client PROVE PromotionInv'
    <2>1. \A q \in Runs \ {r} : RunInv(q)'
      <3>1. ASSUME NEW q \in Runs \ {r} PROVE RunInv(q)'
        <4>1. /\ UNCHANGED <<pc[q], bad[q], backup[q], savedEnv[q], before[q], alone[q]>>
              /\ Promotion!Active(r)
          BY <1>3
            DEF Promotion!WriteToken, Promotion!files, Promotion!Goto, Promotion!Keep,
                Promotion!Active, Promotion!Resting
        <4>2. alone'[q] => ~Promotion!Active(q)
          BY <4>1 DEF RunInv
        <4>3. QED
          BY <1>3, <4>1, <4>2, OtherRun
      <3>2. QED
        BY <3>1
    <2>2. RunInv(r)'
      BY <1>0, <1>3
        DEF Promotion!WriteToken, Promotion!files, Promotion!Goto, Promotion!Keep, RunInv,
            Promotion!Active, Promotion!Resting, Forward, Backward, Progress, Undoing, Unmoved,
            MovedAway, NewEnv
    <2>3. QED
      BY <1>3, <2>1, <2>2
        DEF Promotion!WriteToken, Promotion!files, Promotion!Goto, Promotion!Keep,
            Promotion!Resting, Forward, Backward
  <1>4. ASSUME NEW r \in Runs, Promotion!MoveAway(r), UNCHANGED client PROVE PromotionInv'
    <2>1. \A q \in Runs \ {r} : RunInv(q)'
      <3>1. ASSUME NEW q \in Runs \ {r} PROVE RunInv(q)'
        <4>1. /\ UNCHANGED <<pc[q], bad[q], backup[q], savedEnv[q], before[q], alone[q]>>
              /\ Promotion!Active(r)
          BY <1>4
            DEF Promotion!MoveAway, Promotion!files, Promotion!Goto, Promotion!Keep,
                Promotion!Active, Promotion!Resting
        <4>2. alone'[q] => ~Promotion!Active(q)
          BY <4>1 DEF RunInv
        <4>3. QED
          BY <1>4, <4>1, <4>2, OtherRun
      <3>2. QED
        BY <3>1
    <2>2. RunInv(r)'
      BY <1>0, <1>4
        DEF Promotion!MoveAway, Promotion!files, Promotion!Goto, Promotion!Keep, RunInv,
            Promotion!Active, Promotion!Resting, Forward, Backward, Progress, Undoing, Unmoved,
            MovedAway, NewEnv, Promotion!HasBackup
    <2>3. QED
      BY <1>4, <2>1, <2>2
        DEF Promotion!MoveAway, Promotion!files, Promotion!Goto, Promotion!Keep,
            Promotion!Resting, Forward, Backward, Promotion!HasBackup
  <1>5. ASSUME NEW r \in Runs, Promotion!Promote(r), UNCHANGED client PROVE PromotionInv'
    <2>1. \A q \in Runs \ {r} : RunInv(q)'
      <3>1. ASSUME NEW q \in Runs \ {r} PROVE RunInv(q)'
        <4>1. /\ UNCHANGED <<pc[q], bad[q], backup[q], savedEnv[q], before[q], alone[q]>>
              /\ Promotion!Active(r)
          BY <1>5
            DEF Promotion!Promote, Promotion!files, Promotion!Goto, Promotion!Keep,
                Promotion!Active, Promotion!Resting
        <4>2. alone'[q] => ~Promotion!Active(q)
          BY <4>1 DEF RunInv
        <4>3. QED
          BY <1>5, <4>1, <4>2, OtherRun
      <3>2. QED
        BY <3>1
    <2>2. RunInv(r)'
      BY <1>0, <1>5
        DEF Promotion!Promote, Promotion!files, Promotion!Goto, Promotion!Keep, RunInv,
            Promotion!Active, Promotion!Resting, Forward, Backward, Progress, Undoing, Unmoved,
            MovedAway, NewEnv, Promotion!AfterPromote
    <2>3. QED
      BY <1>5, <2>1, <2>2
        DEF Promotion!Promote, Promotion!files, Promotion!Goto, Promotion!Keep,
            Promotion!Resting, Forward, Backward, Promotion!AfterPromote
  <1>6. ASSUME NEW r \in Runs, Promotion!ReplaceSettings(r), UNCHANGED client PROVE PromotionInv'
    <2>1. \A q \in Runs \ {r} : RunInv(q)'
      <3>1. ASSUME NEW q \in Runs \ {r} PROVE RunInv(q)'
        <4>1. /\ UNCHANGED <<pc[q], bad[q], backup[q], savedEnv[q], before[q], alone[q]>>
              /\ Promotion!Active(r)
          BY <1>6
            DEF Promotion!ReplaceSettings, Promotion!files, Promotion!Goto, Promotion!Keep,
                Promotion!Active, Promotion!Resting
        <4>2. alone'[q] => ~Promotion!Active(q)
          BY <4>1 DEF RunInv
        <4>3. QED
          BY <1>6, <4>1, <4>2, OtherRun
      <3>2. QED
        BY <3>1
    <2>2. RunInv(r)'
      BY <1>0, <1>6
        DEF Promotion!ReplaceSettings, Promotion!files, Promotion!Goto, Promotion!Keep, RunInv,
            Promotion!Active, Promotion!Resting, Forward, Backward, Progress, Undoing, Unmoved,
            MovedAway, NewEnv
    <2>3. QED
      BY <1>6, <2>1, <2>2
        DEF Promotion!ReplaceSettings, Promotion!files, Promotion!Goto, Promotion!Keep,
            Promotion!Resting, Forward, Backward
  <1>7. ASSUME NEW r \in Runs, Promotion!KeepSettings(r), UNCHANGED client PROVE PromotionInv'
    <2>1. \A q \in Runs \ {r} : RunInv(q)'
      <3>1. ASSUME NEW q \in Runs \ {r} PROVE RunInv(q)'
        <4>1. /\ UNCHANGED <<pc[q], bad[q], backup[q], savedEnv[q], before[q], alone[q]>>
              /\ Promotion!Active(r)
          BY <1>7
            DEF Promotion!KeepSettings, Promotion!files, Promotion!Goto, Promotion!Keep,
                Promotion!Active, Promotion!Resting
        <4>2. alone'[q] => ~Promotion!Active(q)
          BY <4>1 DEF RunInv
        <4>3. QED
          BY <1>7, <4>1, <4>2, OtherRun
      <3>2. QED
        BY <3>1
    <2>2. RunInv(r)'
      BY <1>0, <1>7
        DEF Promotion!KeepSettings, Promotion!files, Promotion!Goto, Promotion!Keep, RunInv,
            Promotion!Active, Promotion!Resting, Forward, Backward, Progress, Undoing, Unmoved,
            MovedAway, NewEnv
    <2>3. QED
      BY <1>7, <2>1, <2>2
        DEF Promotion!KeepSettings, Promotion!files, Promotion!Goto, Promotion!Keep,
            Promotion!Resting, Forward, Backward
  <1>8. ASSUME NEW r \in Runs, Promotion!Cleanup(r), UNCHANGED client PROVE PromotionInv'
    <2>1. \A q \in Runs \ {r} : RunInv(q)'
      <3>1. ASSUME NEW q \in Runs \ {r} PROVE RunInv(q)'
        <4>1. /\ UNCHANGED <<pc[q], bad[q], backup[q], savedEnv[q], before[q], alone[q]>>
              /\ Promotion!Active(r)
          BY <1>8
            DEF Promotion!Cleanup, Promotion!files, Promotion!Goto, Promotion!Keep,
                Promotion!Active, Promotion!Resting
        <4>2. alone'[q] => ~Promotion!Active(q)
          BY <4>1 DEF RunInv
        <4>3. QED
          BY <1>8, <4>1, <4>2, OtherRun
      <3>2. QED
        BY <3>1
    <2>2. RunInv(r)'
      BY <1>0, <1>8
        DEF Promotion!Cleanup, Promotion!files, Promotion!Goto, Promotion!Keep, RunInv,
            Promotion!Active, Promotion!Resting, Forward, Backward, Progress, Undoing, Unmoved,
            MovedAway, NewEnv
    <2>3. QED
      BY <1>8, <2>1, <2>2
        DEF Promotion!Cleanup, Promotion!files, Promotion!Goto, Promotion!Keep,
            Promotion!Resting, Forward, Backward
  <1>9. ASSUME NEW r \in Runs, Promotion!Demote(r), UNCHANGED client PROVE PromotionInv'
    <2>1. \A q \in Runs \ {r} : RunInv(q)'
      <3>1. ASSUME NEW q \in Runs \ {r} PROVE RunInv(q)'
        <4>1. /\ UNCHANGED <<pc[q], bad[q], backup[q], savedEnv[q], before[q], alone[q]>>
              /\ Promotion!Active(r)
          BY <1>9
            DEF Promotion!Demote, Promotion!files, Promotion!Goto, Promotion!Keep,
                Promotion!Active, Promotion!Resting
        <4>2. alone'[q] => ~Promotion!Active(q)
          BY <4>1 DEF RunInv
        <4>3. QED
          BY <1>9, <4>1, <4>2, OtherRun
      <3>2. QED
        BY <3>1
    <2>2. RunInv(r)'
      BY <1>0, <1>9
        DEF Promotion!Demote, Promotion!files, Promotion!Goto, Promotion!Keep, RunInv,
            Promotion!Active, Promotion!Resting, Forward, Backward, Progress, Undoing, Unmoved,
            MovedAway, NewEnv, Promotion!After
    <2>3. QED
      BY <1>9, <2>1, <2>2
        DEF Promotion!Demote, Promotion!files, Promotion!Goto, Promotion!Keep,
            Promotion!Resting, Forward, Backward, Promotion!After
  <1>10. ASSUME NEW r \in Runs, Promotion!RestorePackage(r), UNCHANGED client PROVE PromotionInv'
    <2>1. \A q \in Runs \ {r} : RunInv(q)'
      <3>1. ASSUME NEW q \in Runs \ {r} PROVE RunInv(q)'
        <4>1. /\ UNCHANGED <<pc[q], bad[q], backup[q], savedEnv[q], before[q], alone[q]>>
              /\ Promotion!Active(r)
          BY <1>10
            DEF Promotion!RestorePackage, Promotion!files, Promotion!Goto, Promotion!Keep,
                Promotion!Active, Promotion!Resting
        <4>2. alone'[q] => ~Promotion!Active(q)
          BY <4>1 DEF RunInv
        <4>3. QED
          BY <1>10, <4>1, <4>2, OtherRun
      <3>2. QED
        BY <3>1
    <2>2. RunInv(r)'
      BY <1>0, <1>10
        DEF Promotion!RestorePackage, Promotion!files, Promotion!Goto, Promotion!Keep, RunInv,
            Promotion!Active, Promotion!Resting, Forward, Backward, Progress, Undoing, Unmoved,
            MovedAway, NewEnv, Promotion!After
    <2>3. QED
      BY <1>10, <2>1, <2>2
        DEF Promotion!RestorePackage, Promotion!files, Promotion!Goto, Promotion!Keep,
            Promotion!Resting, Forward, Backward, Promotion!After
  <1>11. ASSUME NEW r \in Runs, Promotion!RestoreEnv(r), UNCHANGED client PROVE PromotionInv'
    <2>1. \A q \in Runs \ {r} : RunInv(q)'
      <3>1. ASSUME NEW q \in Runs \ {r} PROVE RunInv(q)'
        <4>1. /\ UNCHANGED <<pc[q], bad[q], backup[q], savedEnv[q], before[q], alone[q]>>
              /\ Promotion!Active(r)
          BY <1>11
            DEF Promotion!RestoreEnv, Promotion!files, Promotion!Goto, Promotion!Keep,
                Promotion!Active, Promotion!Resting
        <4>2. alone'[q] => ~Promotion!Active(q)
          BY <4>1 DEF RunInv
        <4>3. QED
          BY <1>11, <4>1, <4>2, OtherRun
      <3>2. QED
        BY <3>1
    <2>2. RunInv(r)'
      BY <1>0, <1>11
        DEF Promotion!RestoreEnv, Promotion!files, Promotion!Goto, Promotion!Keep, RunInv,
            Promotion!Active, Promotion!Resting, Forward, Backward, Progress, Undoing, Unmoved,
            MovedAway, NewEnv, Promotion!After
    <2>3. QED
      BY <1>11, <2>1, <2>2
        DEF Promotion!RestoreEnv, Promotion!files, Promotion!Goto, Promotion!Keep,
            Promotion!Resting, Forward, Backward, Promotion!After
  <1>12. ASSUME NEW r \in Runs, Promotion!Fails(r), UNCHANGED client PROVE PromotionInv'
    <2>1. \A q \in Runs \ {r} : RunInv(q)'
      <3>1. ASSUME NEW q \in Runs \ {r} PROVE RunInv(q)'
        <4>1. /\ UNCHANGED <<pc[q], bad[q], backup[q], savedEnv[q], before[q], alone[q]>>
              /\ Promotion!Active(r)
          BY <1>12 DEF Promotion!Fails, Promotion!Goto
        <4>2. alone'[q] => ~Promotion!Active(q)
          BY <4>1 DEF RunInv
        <4>3. QED
          BY <1>12, <4>1, <4>2, OtherRun
      <3>2. QED
        BY <3>1
    <2>2. RunInv(r)'
      BY <1>0, <1>12
        DEF Promotion!Fails, Promotion!Goto, Promotion!MayTear, Promotion!Blocked,
            Promotion!Rollback, Promotion!After, Promotion!HasBackup, RunInv, Promotion!Active,
            Promotion!Resting, Forward, Backward, Progress, Undoing, Unmoved, MovedAway, NewEnv
    <2>3. QED
      BY <1>12, <2>1, <2>2
        DEF Promotion!Fails, Promotion!Goto, Promotion!Rollback, Promotion!After,
            Promotion!Active, Promotion!Resting, Forward, Backward
  <1>13. ASSUME NEW r \in Runs, Promotion!Kill(r), UNCHANGED client PROVE PromotionInv'
    <2>1. \A q \in Runs \ {r} : RunInv(q)'
      <3>1. ASSUME NEW q \in Runs \ {r} PROVE RunInv(q)'
        <4>1. /\ UNCHANGED <<pc[q], bad[q], backup[q], savedEnv[q], before[q], alone[q]>>
              /\ Promotion!Active(r)
          BY <1>13 DEF Promotion!Kill, Promotion!Goto
        <4>2. alone'[q] => ~Promotion!Active(q)
          BY <4>1 DEF RunInv
        <4>3. QED
          BY <1>13, <4>1, <4>2, OtherRun
      <3>2. QED
        BY <3>1
    <2>2. RunInv(r)'
      BY <1>13
        DEF Promotion!Kill, Promotion!Goto, RunInv, Promotion!Active, Promotion!Resting,
            Forward, Backward, Progress
    <2>3. QED
      BY <1>13, <2>1, <2>2 DEF Promotion!Kill, Promotion!Goto, Promotion!Resting, Forward, Backward
  <1>14. CASE UNCHANGED client /\ Promotion!Edit
    BY <1>14
      DEF Promotion!Edit, Promotion!own, RunInv, Promotion!Active, Promotion!Resting, Forward,
          Backward, Progress, Undoing, Unmoved, MovedAway, NewEnv
  <1>15. CASE UNCHANGED Promotion!vars
    BY <1>15
      DEF Promotion!vars, Promotion!own, Promotion!files, RunInv, Promotion!Active,
          Promotion!Resting, Forward, Backward, Progress, Undoing, Unmoved, MovedAway, NewEnv
  <1>16. QED
    BY <1>1, <1>2, <1>3, <1>4, <1>5, <1>6, <1>7, <1>8, <1>9, <1>10, <1>11, <1>12, <1>13, <1>14,
       <1>15 DEF Promotion!Next, Promotion!Step
\* The package that was there at the beginning still is, or a run has succeeded; so it
\* stays as long as no run of Pi fails while it overlaps others.
Held == target = Old \/ (\E r \in Runs : backup[r] = Old) \/ \E r \in Runs : pc[r] = "ok"
Tidy == client = "devin" \/ \A r \in Runs : alone[r] \/ bad[r] = 0
HeldInv == (\E r \in Runs : before[r].target = Old) /\ Tidy => Held

LEMMA NextHeldInv ==
    ASSUME Promotion!PromotionAssumption, PromotionInv, HeldInv, [Promotion!Next]_(Promotion!vars)
    PROVE  HeldInv'
  <1> USE DEF PromotionInv
  <1>0. Old \notin Runs /\ None \notin Runs /\ Old # None
    BY DEF Promotion!PromotionAssumption
  <1>1. ASSUME NEW r \in Runs, Promotion!Begin(r), UNCHANGED client PROVE HeldInv'
    <2>1. /\ UNCHANGED <<target, backup, bad>>
          /\ \A q \in Runs : alone'[q] => alone[q] \/ bad[q] = 0
          /\ \A q \in Runs : before'[q].target = Old => before[q].target = Old \/ target = Old
          /\ \A q \in Runs : pc[q] = "ok" => pc'[q] = "ok"
      BY <1>1 DEF Promotion!Begin, Promotion!files, Promotion!Goto, RunInv
    <2>2. QED
      BY <1>1, <2>1 DEF HeldInv, Held, Tidy
  <1>2. ASSUME NEW r \in Runs, Promotion!Build(r), UNCHANGED client PROVE HeldInv'
    <2>1. /\ UNCHANGED alone /\ \A q \in Runs : bad'[q] = 0 => bad[q] = 0
          /\ \A q \in Runs : before'[q].target = Old => before[q].target = Old \/ target = Old
          /\ \A q \in Runs : pc[q] = "ok" => pc'[q] = "ok"
      BY <1>2
        DEF Promotion!Build, Promotion!files, Promotion!Goto, Promotion!Keep, Promotion!Active,
            Promotion!Resting
    <2>2. Held /\ Tidy => Held'
      BY <1>0, <1>2, <2>1
        DEF Promotion!Build, Promotion!files, Promotion!Goto, Promotion!Keep, Held, Tidy, RunInv
    <2>3. QED
      BY <1>2, <2>1, <2>2 DEF HeldInv, Held, Tidy
  <1>3. ASSUME NEW r \in Runs, Promotion!WriteToken(r), UNCHANGED client PROVE HeldInv'
    <2>1. /\ UNCHANGED alone /\ \A q \in Runs : bad'[q] = 0 => bad[q] = 0
          /\ \A q \in Runs : before'[q].target = Old => before[q].target = Old \/ target = Old
          /\ \A q \in Runs : pc[q] = "ok" => pc'[q] = "ok"
      BY <1>3
        DEF Promotion!WriteToken, Promotion!files, Promotion!Goto, Promotion!Keep,
            Promotion!Active, Promotion!Resting
    <2>2. Held /\ Tidy => Held'
      BY <1>0, <1>3, <2>1
        DEF Promotion!WriteToken, Promotion!files, Promotion!Goto, Promotion!Keep, Held, Tidy,
            RunInv
    <2>3. QED
      BY <1>3, <2>1, <2>2 DEF HeldInv, Held, Tidy
  <1>4. ASSUME NEW r \in Runs, Promotion!MoveAway(r), UNCHANGED client PROVE HeldInv'
    <2>1. /\ UNCHANGED alone /\ \A q \in Runs : bad'[q] = 0 => bad[q] = 0
          /\ \A q \in Runs : before'[q].target = Old => before[q].target = Old \/ target = Old
          /\ \A q \in Runs : pc[q] = "ok" => pc'[q] = "ok"
      BY <1>4
        DEF Promotion!MoveAway, Promotion!files, Promotion!Goto, Promotion!Keep,
            Promotion!HasBackup, Promotion!Active, Promotion!Resting
    <2>2. Held /\ Tidy => Held'
      BY <1>0, <1>4, <2>1
        DEF Promotion!MoveAway, Promotion!files, Promotion!Goto, Promotion!Keep, Held, Tidy,
            RunInv, Promotion!HasBackup
    <2>3. QED
      BY <1>4, <2>1, <2>2 DEF HeldInv, Held, Tidy
  <1>5. ASSUME NEW r \in Runs, Promotion!Promote(r), UNCHANGED client PROVE HeldInv'
    <2>1. /\ UNCHANGED alone /\ \A q \in Runs : bad'[q] = 0 => bad[q] = 0
          /\ \A q \in Runs : before'[q].target = Old => before[q].target = Old \/ target = Old
          /\ \A q \in Runs : pc[q] = "ok" => pc'[q] = "ok"
      BY <1>5
        DEF Promotion!Promote, Promotion!files, Promotion!Goto, Promotion!Keep,
            Promotion!AfterPromote, Promotion!Active, Promotion!Resting
    <2>2. Held /\ Tidy => Held'
      BY <1>0, <1>5, <2>1
        DEF Promotion!Promote, Promotion!files, Promotion!Goto, Promotion!Keep, Held, Tidy,
            RunInv, Promotion!AfterPromote
    <2>3. QED
      BY <1>5, <2>1, <2>2 DEF HeldInv, Held, Tidy
  <1>6. ASSUME NEW r \in Runs, Promotion!ReplaceSettings(r), UNCHANGED client PROVE HeldInv'
    <2>1. /\ UNCHANGED alone /\ \A q \in Runs : bad'[q] = 0 => bad[q] = 0
          /\ \A q \in Runs : before'[q].target = Old => before[q].target = Old \/ target = Old
          /\ \A q \in Runs : pc[q] = "ok" => pc'[q] = "ok"
      BY <1>6
        DEF Promotion!ReplaceSettings, Promotion!files, Promotion!Goto, Promotion!Keep,
            Promotion!Active, Promotion!Resting
    <2>2. Held /\ Tidy => Held'
      BY <1>0, <1>6, <2>1
        DEF Promotion!ReplaceSettings, Promotion!files, Promotion!Goto, Promotion!Keep, Held,
            Tidy, RunInv
    <2>3. QED
      BY <1>6, <2>1, <2>2 DEF HeldInv, Held, Tidy
  <1>7. ASSUME NEW r \in Runs, Promotion!KeepSettings(r), UNCHANGED client PROVE HeldInv'
    <2>1. /\ UNCHANGED alone /\ \A q \in Runs : bad'[q] = 0 => bad[q] = 0
          /\ \A q \in Runs : before'[q].target = Old => before[q].target = Old \/ target = Old
          /\ \A q \in Runs : pc[q] = "ok" => pc'[q] = "ok"
      BY <1>7
        DEF Promotion!KeepSettings, Promotion!files, Promotion!Goto, Promotion!Keep,
            Promotion!Active, Promotion!Resting
    <2>2. Held /\ Tidy => Held'
      BY <1>0, <1>7, <2>1
        DEF Promotion!KeepSettings, Promotion!files, Promotion!Goto, Promotion!Keep, Held,
            Tidy, RunInv
    <2>3. QED
      BY <1>7, <2>1, <2>2 DEF HeldInv, Held, Tidy
  <1>8. ASSUME NEW r \in Runs, Promotion!Cleanup(r), UNCHANGED client PROVE HeldInv'
    <2>1. /\ UNCHANGED alone /\ \A q \in Runs : bad'[q] = 0 => bad[q] = 0
          /\ \A q \in Runs : before'[q].target = Old => before[q].target = Old \/ target = Old
          /\ \A q \in Runs : pc[q] = "ok" => pc'[q] = "ok"
      BY <1>8
        DEF Promotion!Cleanup, Promotion!files, Promotion!Goto, Promotion!Keep,
            Promotion!Active, Promotion!Resting
    <2>2. Held /\ Tidy => Held'
      BY <1>0, <1>8, <2>1
        DEF Promotion!Cleanup, Promotion!files, Promotion!Goto, Promotion!Keep, Held, Tidy,
            RunInv
    <2>3. QED
      BY <1>8, <2>1, <2>2 DEF HeldInv, Held, Tidy
  <1>9. ASSUME NEW r \in Runs, Promotion!Demote(r), UNCHANGED client PROVE HeldInv'
    <2>1. /\ UNCHANGED alone /\ \A q \in Runs : bad'[q] = 0 => bad[q] = 0
          /\ \A q \in Runs : before'[q].target = Old => before[q].target = Old \/ target = Old
          /\ \A q \in Runs : pc[q] = "ok" => pc'[q] = "ok"
      BY <1>9
        DEF Promotion!Demote, Promotion!files, Promotion!Goto, Promotion!Keep, Promotion!After,
            Promotion!Active, Promotion!Resting
    <2>2. Held /\ Tidy => Held'
      BY <1>0, <1>9, <2>1
        DEF Promotion!Demote, Promotion!files, Promotion!Goto, Promotion!Keep, Held, Tidy,
            RunInv, Promotion!After
    <2>3. QED
      BY <1>9, <2>1, <2>2 DEF HeldInv, Held, Tidy
  <1>10. ASSUME NEW r \in Runs, Promotion!RestorePackage(r), UNCHANGED client PROVE HeldInv'
    <2>1. /\ UNCHANGED alone /\ \A q \in Runs : bad'[q] = 0 => bad[q] = 0
          /\ \A q \in Runs : before'[q].target = Old => before[q].target = Old \/ target = Old
          /\ \A q \in Runs : pc[q] = "ok" => pc'[q] = "ok"
      BY <1>10
        DEF Promotion!RestorePackage, Promotion!files, Promotion!Goto, Promotion!Keep,
            Promotion!After, Promotion!Active, Promotion!Resting
    <2>2. Held /\ Tidy => Held'
      BY <1>0, <1>10, <2>1
        DEF Promotion!RestorePackage, Promotion!files, Promotion!Goto, Promotion!Keep, Held,
            Tidy, RunInv, Promotion!After
    <2>3. QED
      BY <1>10, <2>1, <2>2 DEF HeldInv, Held, Tidy
  <1>11. ASSUME NEW r \in Runs, Promotion!RestoreEnv(r), UNCHANGED client PROVE HeldInv'
    <2>1. /\ UNCHANGED alone /\ \A q \in Runs : bad'[q] = 0 => bad[q] = 0
          /\ \A q \in Runs : before'[q].target = Old => before[q].target = Old \/ target = Old
          /\ \A q \in Runs : pc[q] = "ok" => pc'[q] = "ok"
      BY <1>11
        DEF Promotion!RestoreEnv, Promotion!files, Promotion!Goto, Promotion!Keep,
            Promotion!After, Promotion!Active, Promotion!Resting
    <2>2. Held /\ Tidy => Held'
      BY <1>0, <1>11, <2>1
        DEF Promotion!RestoreEnv, Promotion!files, Promotion!Goto, Promotion!Keep, Held, Tidy,
            RunInv, Promotion!After
    <2>3. QED
      BY <1>11, <2>1, <2>2 DEF HeldInv, Held, Tidy
  <1>12. ASSUME NEW r \in Runs, Promotion!Fails(r), UNCHANGED client PROVE HeldInv'
    <2>1. /\ UNCHANGED alone /\ \A q \in Runs : bad'[q] = 0 => bad[q] = 0
          /\ \A q \in Runs : before'[q].target = Old => before[q].target = Old \/ target = Old
          /\ \A q \in Runs : pc[q] = "ok" => pc'[q] = "ok"
      BY <1>12
        DEF Promotion!Fails, Promotion!files, Promotion!Goto, Promotion!Keep,
            Promotion!MayTear, Promotion!Blocked, Promotion!Rollback, Promotion!After,
            Promotion!HasBackup, Promotion!Active, Promotion!Resting
    <2>2. Held /\ Tidy => Held'
      BY <1>0, <1>12, <2>1
        DEF Promotion!Fails, Promotion!files, Promotion!Goto, Promotion!Keep, Held, Tidy,
            RunInv, Promotion!MayTear, Promotion!Blocked, Promotion!Rollback, Promotion!After,
            Promotion!HasBackup
    <2>3. QED
      BY <1>12, <2>1, <2>2 DEF HeldInv, Held, Tidy
  <1>13. ASSUME NEW r \in Runs, Promotion!Kill(r), UNCHANGED client PROVE HeldInv'
    <2>1. /\ UNCHANGED alone /\ \A q \in Runs : bad'[q] = 0 => bad[q] = 0
          /\ \A q \in Runs : before'[q].target = Old => before[q].target = Old \/ target = Old
          /\ \A q \in Runs : pc[q] = "ok" => pc'[q] = "ok"
      BY <1>13
        DEF Promotion!Kill, Promotion!files, Promotion!Goto, Promotion!Keep, Promotion!MayTear,
            Promotion!Active, Promotion!Resting
    <2>2. Held /\ Tidy => Held'
      BY <1>0, <1>13, <2>1
        DEF Promotion!Kill, Promotion!files, Promotion!Goto, Promotion!Keep, Held, Tidy,
            RunInv, Promotion!MayTear
    <2>3. QED
      BY <1>13, <2>1, <2>2 DEF HeldInv, Held, Tidy
  <1>14. CASE UNCHANGED client /\ Promotion!Edit
    BY <1>14 DEF Promotion!Edit, Promotion!own, HeldInv, Held, Tidy
  <1>15. CASE UNCHANGED Promotion!vars
    BY <1>15 DEF Promotion!vars, Promotion!own, Promotion!files, HeldInv, Held, Tidy
  <1>16. QED
    BY <1>1, <1>2, <1>3, <1>4, <1>5, <1>6, <1>7, <1>8, <1>9, <1>10, <1>11, <1>12, <1>13, <1>14,
       <1>15 DEF Promotion!Next, Promotion!Step

LEMMA PromotionInvTheorem ==
    ASSUME Promotion!PromotionAssumption
    PROVE  Promotion!Spec => [](PromotionInv /\ HeldInv)
  <1>1. Promotion!Init => PromotionInv /\ HeldInv
    <2>1. Promotion!Init => HeldInv
      BY DEF Promotion!Init, HeldInv, Held
    <2>2. QED
      BY <2>1, InitPromotionInv
  <1>2. PromotionInv /\ HeldInv /\ [Promotion!Next]_(Promotion!vars) => (PromotionInv /\ HeldInv)'
    BY NextPromotionInv, NextHeldInv
  <1>3. QED
    BY <1>1, <1>2, PTL DEF Promotion!Spec

\* The package of the last successful installation is in place or in a backup until
\* another run succeeds, whichever steps fail and whichever runs die or overlap, except
\* when overlapping runs of Pi fail.
THEOREM PackageKeptTheorem ==
    ASSUME Promotion!PromotionAssumption
    PROVE  Promotion!Spec => []Promotion!PackageKept
  <1>1. HeldInv => Promotion!PackageKept
    BY DEF HeldInv, Held, Tidy, Promotion!PackageKept
  <1>2. QED
    BY <1>1, PromotionInvTheorem, PTL

\* When the last step of a run that works alone fails or succeeds.
LEMMA Ends ==
    ASSUME Promotion!PromotionAssumption, PromotionInv, [Promotion!Next]_(Promotion!vars), NEW r \in Runs, alone'[r]
    PROVE  /\ pc[r] # "failed" /\ pc'[r] = "failed" /\ bad'[r] <= 1 =>
                target' = before[r].target /\ env' = before[r].env
           /\ pc[r] # "ok" /\ pc'[r] = "ok" =>
                target' = r /\ (r \in WithToken => env' = r)
  <1> USE DEF PromotionInv
  <1>0. /\ None \notin Runs /\ bad[r] \in Nat /\ RunInv(r)
        /\ pc[r] \in Promotion!Resting \cup Forward \cup Backward
    BY DEF Promotion!PromotionAssumption
  <1>1. ASSUME NEW q \in Runs, Promotion!Begin(q), UNCHANGED client
        PROVE  pc'[r] \in {pc[r], "building"}
    BY <1>1 DEF Promotion!Begin, Promotion!Goto
  <1>2. ASSUME NEW q \in Runs, Promotion!Build(q), UNCHANGED client
        PROVE  /\ pc[r] # "failed" /\ pc'[r] = "failed" /\ bad'[r] <= 1 =>
                    target' = before[r].target /\ env' = before[r].env
               /\ pc[r] # "ok" /\ pc'[r] = "ok" =>
                    target' = r /\ (r \in WithToken => env' = r)
    <2>1. CASE q # r
      BY <1>2, <2>1 DEF Promotion!Build, Promotion!Goto
    <2>2. CASE q = r
      BY <1>0, <1>2, <2>2
        DEF Promotion!Build, Promotion!files, Promotion!Goto, Promotion!Keep, RunInv,
            Promotion!Active, Promotion!Resting, Forward, Backward, Progress, Undoing, Unmoved,
            MovedAway, NewEnv
    <2>3. QED
      BY <2>1, <2>2
  <1>3. ASSUME NEW q \in Runs, Promotion!WriteToken(q), UNCHANGED client
        PROVE  /\ pc[r] # "failed" /\ pc'[r] = "failed" /\ bad'[r] <= 1 =>
                    target' = before[r].target /\ env' = before[r].env
               /\ pc[r] # "ok" /\ pc'[r] = "ok" =>
                    target' = r /\ (r \in WithToken => env' = r)
    <2>1. CASE q # r
      BY <1>3, <2>1 DEF Promotion!WriteToken, Promotion!Goto
    <2>2. CASE q = r
      BY <1>0, <1>3, <2>2
        DEF Promotion!WriteToken, Promotion!files, Promotion!Goto, Promotion!Keep, RunInv,
            Promotion!Active, Promotion!Resting, Forward, Backward, Progress, Undoing, Unmoved,
            MovedAway, NewEnv
    <2>3. QED
      BY <2>1, <2>2
  <1>4. ASSUME NEW q \in Runs, Promotion!MoveAway(q), UNCHANGED client
        PROVE  /\ pc[r] # "failed" /\ pc'[r] = "failed" /\ bad'[r] <= 1 =>
                    target' = before[r].target /\ env' = before[r].env
               /\ pc[r] # "ok" /\ pc'[r] = "ok" =>
                    target' = r /\ (r \in WithToken => env' = r)
    <2>1. CASE q # r
      BY <1>4, <2>1 DEF Promotion!MoveAway, Promotion!Goto
    <2>2. CASE q = r
      BY <1>0, <1>4, <2>2
        DEF Promotion!MoveAway, Promotion!files, Promotion!Goto, Promotion!Keep, RunInv,
            Promotion!Active, Promotion!Resting, Forward, Backward, Progress, Undoing, Unmoved,
            MovedAway, NewEnv, Promotion!HasBackup
    <2>3. QED
      BY <2>1, <2>2
  <1>5. ASSUME NEW q \in Runs, Promotion!Promote(q), UNCHANGED client
        PROVE  /\ pc[r] # "failed" /\ pc'[r] = "failed" /\ bad'[r] <= 1 =>
                    target' = before[r].target /\ env' = before[r].env
               /\ pc[r] # "ok" /\ pc'[r] = "ok" =>
                    target' = r /\ (r \in WithToken => env' = r)
    <2>1. CASE q # r
      BY <1>5, <2>1 DEF Promotion!Promote, Promotion!Goto
    <2>2. CASE q = r
      BY <1>0, <1>5, <2>2
        DEF Promotion!Promote, Promotion!files, Promotion!Goto, Promotion!Keep, RunInv,
            Promotion!Active, Promotion!Resting, Forward, Backward, Progress, Undoing, Unmoved,
            MovedAway, NewEnv, Promotion!AfterPromote
    <2>3. QED
      BY <2>1, <2>2
  <1>6. ASSUME NEW q \in Runs, Promotion!ReplaceSettings(q), UNCHANGED client
        PROVE  /\ pc[r] # "failed" /\ pc'[r] = "failed" /\ bad'[r] <= 1 =>
                    target' = before[r].target /\ env' = before[r].env
               /\ pc[r] # "ok" /\ pc'[r] = "ok" =>
                    target' = r /\ (r \in WithToken => env' = r)
    <2>1. CASE q # r
      BY <1>6, <2>1 DEF Promotion!ReplaceSettings, Promotion!Goto
    <2>2. CASE q = r
      BY <1>0, <1>6, <2>2
        DEF Promotion!ReplaceSettings, Promotion!files, Promotion!Goto, Promotion!Keep, RunInv,
            Promotion!Active, Promotion!Resting, Forward, Backward, Progress, Undoing, Unmoved,
            MovedAway, NewEnv
    <2>3. QED
      BY <2>1, <2>2
  <1>7. ASSUME NEW q \in Runs, Promotion!KeepSettings(q), UNCHANGED client
        PROVE  /\ pc[r] # "failed" /\ pc'[r] = "failed" /\ bad'[r] <= 1 =>
                    target' = before[r].target /\ env' = before[r].env
               /\ pc[r] # "ok" /\ pc'[r] = "ok" =>
                    target' = r /\ (r \in WithToken => env' = r)
    <2>1. CASE q # r
      BY <1>7, <2>1 DEF Promotion!KeepSettings, Promotion!Goto
    <2>2. CASE q = r
      BY <1>0, <1>7, <2>2
        DEF Promotion!KeepSettings, Promotion!files, Promotion!Goto, Promotion!Keep, RunInv,
            Promotion!Active, Promotion!Resting, Forward, Backward, Progress, Undoing, Unmoved,
            MovedAway, NewEnv
    <2>3. QED
      BY <2>1, <2>2
  <1>8. ASSUME NEW q \in Runs, Promotion!Cleanup(q), UNCHANGED client
        PROVE  /\ pc[r] # "failed" /\ pc'[r] = "failed" /\ bad'[r] <= 1 =>
                    target' = before[r].target /\ env' = before[r].env
               /\ pc[r] # "ok" /\ pc'[r] = "ok" =>
                    target' = r /\ (r \in WithToken => env' = r)
    <2>1. CASE q # r
      BY <1>8, <2>1 DEF Promotion!Cleanup, Promotion!Goto
    <2>2. CASE q = r
      BY <1>0, <1>8, <2>2
        DEF Promotion!Cleanup, Promotion!files, Promotion!Goto, Promotion!Keep, RunInv,
            Promotion!Active, Promotion!Resting, Forward, Backward, Progress, Undoing, Unmoved,
            MovedAway, NewEnv
    <2>3. QED
      BY <2>1, <2>2
  <1>9. ASSUME NEW q \in Runs, Promotion!Demote(q), UNCHANGED client
        PROVE  /\ pc[r] # "failed" /\ pc'[r] = "failed" /\ bad'[r] <= 1 =>
                    target' = before[r].target /\ env' = before[r].env
               /\ pc[r] # "ok" /\ pc'[r] = "ok" =>
                    target' = r /\ (r \in WithToken => env' = r)
    <2>1. CASE q # r
      BY <1>9, <2>1 DEF Promotion!Demote, Promotion!Goto
    <2>2. CASE q = r
      BY <1>0, <1>9, <2>2
        DEF Promotion!Demote, Promotion!files, Promotion!Goto, Promotion!Keep, RunInv,
            Promotion!Active, Promotion!Resting, Forward, Backward, Progress, Undoing, Unmoved,
            MovedAway, NewEnv, Promotion!After
    <2>3. QED
      BY <2>1, <2>2
  <1>10. ASSUME NEW q \in Runs, Promotion!RestorePackage(q), UNCHANGED client
        PROVE  /\ pc[r] # "failed" /\ pc'[r] = "failed" /\ bad'[r] <= 1 =>
                    target' = before[r].target /\ env' = before[r].env
               /\ pc[r] # "ok" /\ pc'[r] = "ok" =>
                    target' = r /\ (r \in WithToken => env' = r)
    <2>1. CASE q # r
      BY <1>10, <2>1 DEF Promotion!RestorePackage, Promotion!Goto
    <2>2. CASE q = r
      BY <1>0, <1>10, <2>2
        DEF Promotion!RestorePackage, Promotion!files, Promotion!Goto, Promotion!Keep, RunInv,
            Promotion!Active, Promotion!Resting, Forward, Backward, Progress, Undoing, Unmoved,
            MovedAway, NewEnv, Promotion!After
    <2>3. QED
      BY <2>1, <2>2
  <1>11. ASSUME NEW q \in Runs, Promotion!RestoreEnv(q), UNCHANGED client
        PROVE  /\ pc[r] # "failed" /\ pc'[r] = "failed" /\ bad'[r] <= 1 =>
                    target' = before[r].target /\ env' = before[r].env
               /\ pc[r] # "ok" /\ pc'[r] = "ok" =>
                    target' = r /\ (r \in WithToken => env' = r)
    <2>1. CASE q # r
      BY <1>11, <2>1 DEF Promotion!RestoreEnv, Promotion!Goto
    <2>2. CASE q = r
      BY <1>0, <1>11, <2>2
        DEF Promotion!RestoreEnv, Promotion!files, Promotion!Goto, Promotion!Keep, RunInv,
            Promotion!Active, Promotion!Resting, Forward, Backward, Progress, Undoing, Unmoved,
            MovedAway, NewEnv, Promotion!After
    <2>3. QED
      BY <2>1, <2>2
  <1>12. ASSUME NEW q \in Runs, Promotion!Fails(q), UNCHANGED client
        PROVE  /\ pc[r] # "failed" /\ pc'[r] = "failed" /\ bad'[r] <= 1 =>
                    target' = before[r].target /\ env' = before[r].env
               /\ pc[r] # "ok" /\ pc'[r] = "ok" =>
                    target' = r /\ (r \in WithToken => env' = r)
    <2>1. CASE q # r
      BY <1>12, <2>1 DEF Promotion!Fails, Promotion!Goto
    <2>2. CASE q = r
      BY <1>0, <1>12, <2>2
        DEF Promotion!Fails, Promotion!files, Promotion!Goto, Promotion!Keep, RunInv,
            Promotion!Active, Promotion!Resting, Forward, Backward, Progress, Undoing, Unmoved,
            MovedAway, NewEnv, Promotion!MayTear, Promotion!Blocked, Promotion!Rollback,
            Promotion!After, Promotion!HasBackup
    <2>3. QED
      BY <2>1, <2>2
  <1>13. ASSUME NEW q \in Runs, Promotion!Kill(q), UNCHANGED client
        PROVE  /\ pc[r] # "failed" /\ pc'[r] = "failed" /\ bad'[r] <= 1 =>
                    target' = before[r].target /\ env' = before[r].env
               /\ pc[r] # "ok" /\ pc'[r] = "ok" =>
                    target' = r /\ (r \in WithToken => env' = r)
    <2>1. CASE q # r
      BY <1>13, <2>1 DEF Promotion!Kill, Promotion!Goto
    <2>2. CASE q = r
      BY <1>0, <1>13, <2>2
        DEF Promotion!Kill, Promotion!files, Promotion!Goto, Promotion!Keep, RunInv,
            Promotion!Active, Promotion!Resting, Forward, Backward, Progress, Undoing, Unmoved,
            MovedAway, NewEnv, Promotion!MayTear
    <2>3. QED
      BY <2>1, <2>2
  <1>14. ASSUME Promotion!Edit \/ UNCHANGED Promotion!vars PROVE UNCHANGED pc
    BY <1>14 DEF Promotion!Edit, Promotion!own, Promotion!vars
  <1>15. QED
    BY <1>1, <1>2, <1>3, <1>4, <1>5, <1>6, <1>7, <1>8, <1>9, <1>10, <1>11, <1>12, <1>13, <1>14
       DEF Promotion!Next, Promotion!Step

\* A promotion that fails undisturbed, with no second failure while it is undone,
\* leaves the package and the credential file as it has found them.
THEOREM FailureRestoresTheorem ==
    ASSUME Promotion!PromotionAssumption
    PROVE  Promotion!Spec => Promotion!FailureRestores
  <1>1. PromotionInv /\ [Promotion!Next]_(Promotion!vars) =>
          [\A r \in Runs :
             pc[r] # "failed" /\ pc'[r] = "failed" /\ alone'[r] /\ bad'[r] <= 1
               => target' = before[r].target /\ env' = before[r].env]_(Promotion!vars)
    BY Ends
  <1>2. QED
    BY <1>1, PromotionInvTheorem, PTL DEF Promotion!Spec, Promotion!FailureRestores

\* A run that succeeds undisturbed leaves its own package and credential.
THEOREM SuccessIsCompleteTheorem ==
    ASSUME Promotion!PromotionAssumption
    PROVE  Promotion!Spec => Promotion!SuccessIsComplete
  <1>1. PromotionInv /\ [Promotion!Next]_(Promotion!vars) =>
          [\A r \in Runs :
             pc[r] # "ok" /\ pc'[r] = "ok" /\ alone'[r]
               => target' = r /\ (r \in WithToken => env' = r)]_(Promotion!vars)
    BY Ends
  <1>2. QED
    BY <1>1, PromotionInvTheorem, PTL DEF Promotion!Spec, Promotion!SuccessIsComplete
==============================================================================
