-------------------------- MODULE ExchangesProofs --------------------------
(***************************************************************************)
(* What is agreed with the user, for every list of requests and questions: *)
(* a plugin command changes what it was asked, shown and allowed to,       *)
(* permission dialogs take their answers one by one, and what the runtime  *)
(* says in a turn is on the screen once and in its order.                  *)
(***************************************************************************)
EXTENDS PluginCommand, PermissionDialogs, AssistantText,
        TLAPS, SequenceTheorems, WellFoundedInduction

(* The steps of a plugin command (PluginCommand). *)

\* The steps of a command.
StepName == {"catalog", "look", "plan", "confirm", "change"}

\* What the property needs of the order of the steps: a change is the last of
\* them, and comes behind the question, unless that was answered in advance, and
\* behind the plan, where there is one; a dry run has none.
InOrder(c, s) ==
  /\ s \in Seq(StepName) /\ Len(s) >= 1
  /\ \A i \in 1 .. Len(s) :
       /\ s[i] = "change" => i = Len(s) /\ ~c.dryRun
       /\ s[i] = "confirm" => i # Len(s)
       /\ s[i] = "change" /\ c.action \in {"add", "remove", "install"} /\ ~c.yes =>
            \E j \in 1 .. i - 1 : s[j] = "confirm"
       /\ s[i] = "change" /\ c.action \in {"add", "install"} => \E j \in 1 .. i - 1 : s[j] = "plan"
       /\ s[i] = "plan" => \A j \in i + 1 .. Len(s) : s[j] \in {"confirm", "change"}

\* What a preview is followed by.
LEMMA AfterIs ==
  ASSUME NEW c \in Command, NEW p \in Seq(StepName), ~c.dryRun
  PROVE  /\ After(c, p) \in Seq(StepName) /\ Len(p) \in Nat
         /\ \A i \in 1 .. Len(p) : After(c, p)[i] = p[i]
         /\ c.yes => Len(After(c, p)) = Len(p) + 1 /\ After(c, p)[Len(p) + 1] = "change"
         /\ ~c.yes => /\ Len(After(c, p)) = Len(p) + 2 /\ After(c, p)[Len(p) + 1] = "confirm"
                      /\ After(c, p)[Len(p) + 2] = "change"
<1>1. <<>> \in Seq(StepName) /\ <<"confirm">> \in Seq(StepName) /\ <<"change">> \in Seq(StepName)
      /\ Len(<<>>) = 0 /\ Len(<<"confirm">>) = 1 /\ Len(<<"change">>) = 1
      /\ <<"confirm">>[1] = "confirm" /\ <<"change">>[1] = "change"
  BY DEF StepName
<1>2. Len(p) \in Nat
  BY LenProperties
<1>3. CASE c.yes
  <2>1. After(c, p) = p \o <<>> \o <<"change">> /\ p \o <<>> = p
    BY <1>3, ConcatEmptySeq DEF After, Asking
  <2> DEFINE d == p \o <<"change">>
  <2>2. d \in Seq(StepName) /\ Len(d) = Len(p) + 1
        /\ \A i \in 1 .. Len(p) + 1 : d[i] = IF i <= Len(p) THEN p[i] ELSE <<"change">>[i - Len(p)]
    BY <1>1, ConcatProperties
  <2>3. d[Len(p) + 1] = "change" /\ \A i \in 1 .. Len(p) : d[i] = p[i]
    <3> HIDE DEF d
    <3> QED
      BY <1>1, <1>2, <2>2
  <2> QED
    BY <1>2, <1>3, <2>1, <2>2, <2>3
<1>4. CASE ~c.yes
  <2> DEFINE a == p \o <<"confirm">>
             d == a \o <<"change">>
  <2>1. After(c, p) = d
    BY <1>4 DEF After, Asking
  <2>2. a \in Seq(StepName) /\ Len(a) = Len(p) + 1
        /\ \A i \in 1 .. Len(p) + 1 : a[i] = IF i <= Len(p) THEN p[i] ELSE <<"confirm">>[i - Len(p)]
    BY <1>1, ConcatProperties
  <2> HIDE DEF a
  <2>3. a[Len(p) + 1] = "confirm" /\ \A i \in 1 .. Len(p) : a[i] = p[i]
    BY <1>1, <1>2, <2>2
  <2>4. d \in Seq(StepName) /\ Len(d) = Len(a) + 1
        /\ \A i \in 1 .. Len(a) + 1 : d[i] = IF i <= Len(a) THEN a[i] ELSE <<"change">>[i - Len(a)]
    BY <1>1, <2>2, ConcatProperties
  <2> HIDE DEF d
  <2>5. /\ Len(d) = Len(p) + 2 /\ d[Len(p) + 1] = "confirm" /\ d[Len(p) + 2] = "change"
        /\ \A i \in 1 .. Len(p) : d[i] = p[i]
    BY SMTT(20), <1>1, <1>2, <2>2, <2>3, <2>4
  <2> QED
    BY <1>2, <1>4, <2>1, <2>4, <2>5
<1> QED
  BY <1>3, <1>4

\* A preview whose plan is its last step is followed in order.
LEMMA AfterInOrder ==
  ASSUME NEW c \in Command, NEW p \in Seq({"catalog", "look", "plan"}), ~c.dryRun,
         \A i, j \in 1 .. Len(p) : p[i] = "plan" => j <= i,
         c.action \in {"add", "install"} => \E j \in 1 .. Len(p) : p[j] = "plan"
  PROVE  InOrder(c, After(c, p))
<1>1. p \in Seq(StepName) /\ Len(p) \in Nat /\ \A i \in 1 .. Len(p) : p[i] \in {"catalog", "look", "plan"}
  <2>1. \A i \in 1 .. Len(p) : p[i] \in {"catalog", "look", "plan"}
    BY ElementOfSeq
  <2>2. p \in Seq(StepName) /\ Len(p) \in Nat
    BY LenProperties DEF StepName
  <2> QED
    BY <2>1, <2>2
<1> DEFINE s == After(c, p)
<1>2. /\ s \in Seq(StepName) /\ \A i \in 1 .. Len(p) : s[i] = p[i]
      /\ c.yes => Len(s) = Len(p) + 1 /\ s[Len(p) + 1] = "change"
      /\ ~c.yes => Len(s) = Len(p) + 2 /\ s[Len(p) + 1] = "confirm" /\ s[Len(p) + 2] = "change"
  BY <1>1, AfterIs
<1> HIDE DEF s
<1>3. ASSUME NEW i \in 1 .. Len(s)
      PROVE  /\ s[i] = "change" => i = Len(s)
             /\ s[i] = "confirm" => i # Len(s)
             /\ s[i] = "change" /\ ~c.yes => \E j \in 1 .. i - 1 : s[j] = "confirm"
             /\ s[i] = "plan" => i \in 1 .. Len(p)
  <2>1. CASE i \in 1 .. Len(p)
    BY <1>1, <1>2, <2>1
  <2>2. CASE i = Len(p) + 1
    BY <1>1, <1>2, <2>2
  <2>3. CASE i = Len(p) + 2 /\ ~c.yes
    BY <1>1, <1>2, <2>3
  <2> QED
    BY <1>1, <1>2, <2>1, <2>2, <2>3
<1>4. ASSUME NEW i \in 1 .. Len(s), s[i] = "change", c.action \in {"add", "install"}
      PROVE  \E j \in 1 .. i - 1 : s[j] = "plan"
  <2>1. PICK j \in 1 .. Len(p) : p[j] = "plan"
    BY <1>4
  <2>2. j \in 1 .. i - 1 /\ s[j] = "plan"
    BY <1>1, <1>2, <1>3, <1>4, <2>1
  <2> QED
    BY <2>2
<1>5. ASSUME NEW i \in 1 .. Len(s), s[i] = "plan", NEW j \in i + 1 .. Len(s)
      PROVE  s[j] \in {"confirm", "change"}
  <2>1. i \in 1 .. Len(p) /\ p[i] = "plan"
    BY <1>2, <1>3, <1>5
  <2>2. j \notin 1 .. Len(p)
    BY <1>1, <1>5, <2>1
  <2>3. j = Len(p) + 1 \/ (j = Len(p) + 2 /\ ~c.yes)
    BY <1>1, <1>2, <1>5, <2>1, <2>2
  <2> QED
    BY <1>2, <2>3
<1>6. Len(s) >= 1
  BY <1>1, <1>2
<1>7. InOrder(c, s)
  BY <1>2, <1>3, <1>4, <1>5, <1>6 DEF InOrder
<1> QED
  BY <1>7 DEF s

\* So every script is in order.
LEMMA ScriptInOrder == ASSUME NEW c \in Command PROVE InOrder(c, Script(c))
<1>1. c.action \in Action /\ c.dryRun \in BOOLEAN /\ c.yes \in BOOLEAN /\ Supported(c)
  BY DEF Command
<1>2. CASE c.action = "install"
  <2> DEFINE p == <<"catalog", "look", "plan">>
  <2>1. /\ p \in Seq({"catalog", "look", "plan"}) /\ Len(p) = 3 /\ p[1] = "catalog"
        /\ p[2] = "look" /\ p[3] = "plan" /\ p \in Seq(StepName)
    BY DEF StepName
  <2>2. Script(c) = After(c, p)
    BY <1>2 DEF Script
  <2> HIDE DEF p
  <2>3. CASE c.dryRun
    <3>1. Script(c) = p
      BY <2>2, <2>3 DEF After
    <3>2. \A i \in 1 .. Len(p) : p[i] \in {"catalog", "look", "plan"} /\ (p[i] = "plan" => i = 3)
      BY <2>1
    <3>3. InOrder(c, p)
      BY <2>1, <3>2 DEF InOrder
    <3> QED
      BY <3>1, <3>3
  <2>4. CASE ~c.dryRun
    <3>1. \A i, j \in 1 .. Len(p) : p[i] = "plan" => j <= i
      BY <2>1
    <3>2. \E j \in 1 .. Len(p) : p[j] = "plan"
      <4>1. 3 \in 1 .. Len(p) /\ p[3] = "plan"
        BY <2>1
      <4> QED
        BY <4>1
    <3>3. InOrder(c, After(c, p))
      BY <2>1, <2>4, <3>1, <3>2, AfterInOrder
    <3> QED
      BY <2>2, <3>3
  <2> QED
    BY <2>3, <2>4
<1>3. CASE c.action = "add"
  <2> DEFINE p == <<"plan">>
  <2>1. p \in Seq({"catalog", "look", "plan"}) /\ Len(p) = 1 /\ p[1] = "plan" /\ p \in Seq(StepName)
    BY DEF StepName
  <2>2. Script(c) = After(c, p)
    BY <1>3 DEF Script
  <2> HIDE DEF p
  <2>3. CASE c.dryRun
    <3>1. Script(c) = p
      BY <2>2, <2>3 DEF After
    <3>2. \A i \in 1 .. Len(p) : p[i] \in {"catalog", "look", "plan"} /\ (p[i] = "plan" => i = 1)
      BY <2>1
    <3>3. InOrder(c, p)
      BY <2>1, <3>2 DEF InOrder
    <3> QED
      BY <3>1, <3>3
  <2>4. CASE ~c.dryRun
    <3>1. \A i, j \in 1 .. Len(p) : p[i] = "plan" => j <= i
      BY <2>1
    <3>2. \E j \in 1 .. Len(p) : p[j] = "plan"
      <4>1. 1 \in 1 .. Len(p) /\ p[1] = "plan"
        BY <2>1
      <4> QED
        BY <4>1
    <3>3. InOrder(c, After(c, p))
      BY <2>1, <2>4, <3>1, <3>2, AfterInOrder
    <3> QED
      BY <2>2, <3>3
  <2> QED
    BY <2>3, <2>4
<1>4. CASE c.action = "remove"
  <2>1. Script(c) = After(c, <<>>) /\ ~c.dryRun
    BY <1>1, <1>4 DEF Script, Supported
  <2>2. <<>> \in Seq({"catalog", "look", "plan"}) /\ Len(<<>>) = 0 /\ 1 .. 0 = {}
    OBVIOUS
  <2> QED
    BY <1>4, <2>1, <2>2, AfterInOrder
<1>5. ASSUME Script(c) \in {<<"change">>, <<"look">>, <<"catalog">>},
             Script(c) = <<"change">> => ~c.dryRun /\ c.action \notin {"add", "remove", "install"}
      PROVE  InOrder(c, Script(c))
  <2> DEFINE s == Script(c)
  <2>1. s \in Seq(StepName) /\ Len(s) = 1 /\ s[1] \in {"change", "look", "catalog"}
        /\ (s[1] = "change" => s = <<"change">>)
    BY <1>5 DEF StepName
  <2> HIDE DEF s
  <2>2. InOrder(c, s)
    BY <1>5, <2>1 DEF InOrder, s
  <2> QED
    BY <2>2 DEF s
<1>6. CASE c.action \in {"update", "restore", "configure", "validateSource", "overview"}
  <2>1. Script(c) \in {<<"change">>, <<"look">>, <<"catalog">>}
    BY <1>6 DEF Script
  <2>2. Script(c) = <<"change">> => ~c.dryRun
    <3>1. <<"look">> # <<"change">> /\ <<"catalog">> # <<"change">>
      OBVIOUS
    <3> QED
      BY <1>1, <1>6, <3>1 DEF Script, Supported
  <2> QED
    BY <1>5, <1>6, <2>1, <2>2
<1>7. CASE c.action \in {"describe", "validate"}
  <2> DEFINE s == <<"catalog", "look">>
  <2>1. s \in Seq(StepName) /\ Len(s) = 2 /\ s[1] = "catalog" /\ s[2] = "look"
    BY DEF StepName
  <2>2. Script(c) = s
    BY <1>7 DEF Script
  <2> HIDE DEF s
  <2>3. \A i \in 1 .. Len(s) : s[i] \in {"catalog", "look"}
    BY <2>1
  <2>4. InOrder(c, s)
    BY <2>1, <2>3 DEF InOrder
  <2> QED
    BY <2>2, <2>4
<1> QED
  BY <1>1, <1>2, <1>3, <1>4, <1>6, <1>7 DEF Action

\* The same, with what a step of it is.
LEMMA ScriptOrder ==
  ASSUME NEW c \in Command
  PROVE  /\ Len(Script(c)) \in Nat /\ Len(Script(c)) >= 1 /\ DOMAIN Script(c) = 1 .. Len(Script(c))
         /\ \A i \in 1 .. Len(Script(c)) :
              /\ Script(c)[i] = "change" => i = Len(Script(c)) /\ ~c.dryRun
              /\ Script(c)[i] = "confirm" => i # Len(Script(c))
              /\ Script(c)[i] = "change" /\ c.action \in {"add", "remove", "install"} /\ ~c.yes =>
                   \E j \in 1 .. i - 1 : Script(c)[j] = "confirm"
              /\ Script(c)[i] = "change" /\ c.action \in {"add", "install"} =>
                   \E j \in 1 .. i - 1 : Script(c)[j] = "plan"
              /\ Script(c)[i] = "plan" =>
                   \A j \in i + 1 .. Len(Script(c)) : Script(c)[j] \in {"confirm", "change"}
<1>1. InOrder(c, Script(c))
  BY ScriptInOrder
<1>2. Len(Script(c)) \in Nat /\ DOMAIN Script(c) = 1 .. Len(Script(c))
  BY <1>1, LenProperties DEF InOrder
<1> QED
  BY <1>1, <1>2 DEF InOrder

\* The types of its variables.
PluginShape ==
  /\ command \in Command /\ step \in Nat /\ verdicts \in Seq({"ok", "refused", "diagnostic"})
  /\ agreed \in BOOLEAN /\ applied \in BOOLEAN /\ aborted \in BOOLEAN /\ signalled \in BOOLEAN
  /\ exit \in {"none", "success", "failure", "cancelled"}

\* A runtime that is served while the command is aborted was told to end, and a
\* result is only had from one that ended by itself in a command that goes on.
RequestTrue ==
  /\ child = "running" /\ aborted => signalled
  /\ request = "new" => child = "none"
  /\ request = "waiting" => child \in {"running", "failed", "exited", "killed"}
  /\ request = "result" => child = "exited" /\ ~aborted
  /\ Running /\ Current = "confirm" => request = "new"

\* The steps done so far: the user agreed where he was asked, and what was looked
\* at and planned was all right.
StepsTrue ==
  /\ Len(verdicts) >= step
  /\ Running => step < Len(Script(command)) /\ Len(verdicts) = step
  /\ \A i \in 1 .. step : Script(command)[i] = "confirm" => agreed
  /\ \A j \in 1 .. step : Script(command)[j] = "plan" =>
       \A i \in 1 .. step : Script(command)[i] \in {"look", "plan"} => verdicts[i] = "ok"

\* Success means an answer, and the change where there is one.
SuccessTrue ==
  exit = "success" => /\ request = "result"
                      /\ \A i \in 1 .. Len(Script(command)) : Script(command)[i] = "change" => applied

\* The inductive invariant.
PluginInv == PluginShape /\ RequestTrue /\ StepsTrue /\ SuccessTrue

\* It holds when the command begins.
LEMMA InitPluginInv == PluginInit => PluginInv
<1> SUFFICES ASSUME PluginInit PROVE PluginInv
  OBVIOUS
<1>1. PluginShape
  <2>1. verdicts \in Seq({"ok", "refused", "diagnostic"}) /\ step \in Nat
    BY DEF PluginInit
  <2> QED
    BY <2>1 DEF PluginInit, RequestInit, PluginShape
<1>2. RequestTrue /\ SuccessTrue
  BY DEF PluginInit, RequestInit, RequestTrue, SuccessTrue
<1>3. StepsTrue
  <2>1. step = 0 /\ Len(verdicts) = 0 /\ command \in Command
    BY DEF PluginInit
  <2>2. Len(Script(command)) >= 1 /\ Len(Script(command)) \in Nat
    BY <2>1, ScriptOrder
  <2> QED
    BY <2>1, <2>2 DEF StepsTrue
<1> QED
  BY <1>1, <1>2, <1>3 DEF PluginInv

\* What a request does, the command being where it is.
LEMMA CallKeeps ==
  ASSUME PluginInv, CallStart \/ CallStep \/ Apply \/ Interrupt
  PROVE  PluginInv'
<1>0. /\ UNCHANGED <<command, step, verdicts, agreed, exit>>
      /\ applied' = applied \/ (Running /\ applied' = TRUE)
  BY DEF CallStart, CallStep, Apply, Interrupt, pluginVars
<1>1. StepsTrue'
  BY <1>0 DEF PluginInv, StepsTrue, Running
<1>2. PluginShape' /\ RequestTrue' /\ (exit = "success" => request' = request)
  <2> USE DEF PluginInv, PluginShape, RequestTrue, Running, Current
  <2>1. CASE CallStart
    BY <2>1 DEF CallStart, pluginVars, Start
  <2>2. ASSUME NEW a \in Answer, Respond(a), UNCHANGED pluginVars
        PROVE  PluginShape' /\ RequestTrue' /\ (exit = "success" => request' = request)
    BY <2>2 DEF pluginVars, Respond
  <2>3. CASE (Flood \/ ReadResponse \/ Close) /\ UNCHANGED pluginVars
    BY <2>3 DEF pluginVars, Flood, ReadResponse, Close
  <2>4. CASE (ReadFlood \/ ForceTermination) /\ UNCHANGED pluginVars
    BY <2>4, <1>0 DEF pluginVars, ReadFlood, ForceTermination, SuccessTrue
  <2>5. ASSUME NEW code \in {"exited", "killed"}, Exit(code), UNCHANGED pluginVars
        PROVE  PluginShape' /\ RequestTrue' /\ (exit = "success" => request' = request)
    BY <2>5 DEF pluginVars, Exit
  <2>6. CASE Settle /\ UNCHANGED pluginVars
    <3>1. /\ Outcome \notin {"new", "waiting"}
          /\ Outcome = "result" => ~aborted /\ child # "failed" /\ child # "killed"
      <4>1. CASE aborted
        BY <4>1 DEF Outcome
      <4>2. CASE ~aborted /\ child = "failed"
        BY <4>2 DEF Outcome
      <4>3. CASE ~aborted /\ child # "failed" /\ output = "error"
        BY <4>3 DEF Outcome
      <4>4. CASE ~aborted /\ child # "failed" /\ output # "error" /\ child = "killed"
        BY <4>4 DEF Outcome
      <4>5. CASE ~aborted /\ child # "failed" /\ output # "error" /\ child # "killed"
        BY <4>5 DEF Outcome
      <4> QED
        BY <4>1, <4>2, <4>3, <4>4, <4>5
    <3>2. request = "waiting" /\ child # "running" /\ request' = Outcome /\ exit # "success"
          /\ UNCHANGED <<child, aborted, signalled, command, step, verdicts, agreed, applied, exit>>
      BY <2>6 DEF Settle, pluginVars, SuccessTrue
    <3>3. Running /\ Current = "confirm" => FALSE
      BY <3>2
    <3> HIDE DEF Running, Current
    <3>4. (Running /\ Current = "confirm")' => FALSE
      BY <3>2, <3>3 DEF Running, Current
    <3> QED
      BY <3>1, <3>2, <3>4
  <2>7. CASE Apply
    BY <2>7 DEF Apply, requestVars
  <2>8. CASE Interrupt
    BY <2>8 DEF Interrupt, Abort, pluginVars, Settled
  <2> QED
    BY <2>1, <2>2, <2>3, <2>4, <2>5, <2>6, <2>7, <2>8 DEF CallStep
<1>3. SuccessTrue'
  BY <1>0, <1>2 DEF PluginInv, PluginShape, SuccessTrue, Running
<1> QED
  BY <1>1, <1>2, <1>3 DEF PluginInv

\* What becomes of the command when a step of it is done.
LEMMA StepDone ==
  ASSUME PluginInv, Running, NEW v \in {"ok", "refused", "diagnostic"},
         verdicts' = Append(verdicts, v), step' \in {step, step + 1}, command' = command,
         exit' = "none" => step' = step + 1 /\ step + 1 # Len(Script(command)),
         exit' # "none" => step' = step,
         step' = step + 1 /\ Current = "confirm" => agreed', agreed => agreed',
         step' = step + 1 /\ Current = "plan" => ~PreviewFailed(Append(verdicts, v))
  PROVE  StepsTrue' /\ verdicts' \in Seq({"ok", "refused", "diagnostic"})
<1> DEFINE s == Script(command)
           n == Len(s)
<1>1. /\ step \in Nat /\ n \in Nat /\ step < n /\ verdicts \in Seq({"ok", "refused", "diagnostic"})
      /\ Len(verdicts) = step /\ DOMAIN s = 1 .. n
  BY ScriptOrder DEF PluginInv, PluginShape, StepsTrue
<1>0. /\ step \in Nat /\ n \in Nat /\ step < n /\ step' \in {step, step + 1} /\ Len(verdicts) = step
      /\ command \in Command
  BY <1>1 DEF PluginInv, PluginShape
<1>9. \A i \in 1 .. step' : i \in 1 .. step \/ (i = step + 1 /\ step' = step + 1)
  BY <1>0
<1>2. /\ verdicts' \in Seq({"ok", "refused", "diagnostic"}) /\ Len(verdicts') = step + 1
      /\ \A i \in 1 .. step : verdicts'[i] = verdicts[i]
      /\ verdicts'[step + 1] = v
  <2>1. verdicts \in Seq({"ok", "refused", "diagnostic"}) /\ v \in {"ok", "refused", "diagnostic"}
        /\ verdicts' = Append(verdicts, v)
    BY <1>1
  <2>2. /\ verdicts' \in Seq({"ok", "refused", "diagnostic"}) /\ Len(verdicts') = Len(verdicts) + 1
        /\ \A i \in 1 .. Len(verdicts) : verdicts'[i] = verdicts[i]
        /\ verdicts'[Len(verdicts) + 1] = v
    BY <2>1, AppendProperties
  <2> QED
    BY <1>1, <2>2
<1> HIDE DEF s, n
<1>3. \A i \in 1 .. step' : s[i] = "confirm" => agreed'
  <2> SUFFICES ASSUME NEW i \in 1 .. step', s[i] = "confirm" PROVE agreed'
    OBVIOUS
  <2>1. CASE i \in 1 .. step
    BY <2>1 DEF PluginInv, StepsTrue, s
  <2>2. CASE i = step + 1 /\ step' = step + 1
    BY <2>2 DEF Current, s
  <2> QED
    BY <1>9, <2>1, <2>2
<1>4. \A j \in 1 .. step' : s[j] = "plan" =>
        \A i \in 1 .. step' : s[i] \in {"look", "plan"} => verdicts'[i] = "ok"
  <2> SUFFICES ASSUME NEW j \in 1 .. step', s[j] = "plan",
                      NEW i \in 1 .. step', s[i] \in {"look", "plan"}
               PROVE  verdicts'[i] = "ok"
    OBVIOUS
  <2>1. CASE j \in 1 .. step
    <3>1. i \in 1 .. step
      <4> SUFFICES ASSUME i = step + 1 PROVE FALSE
        BY <1>9
      <4>1. i \in j + 1 .. n /\ j \in 1 .. n
        BY <1>0, <2>1
      <4>2. s[i] \in {"confirm", "change"}
        BY <1>0, <4>1, ScriptOrder DEF s, n
      <4> QED
        BY <4>2
    <3> QED
      BY <1>2, <2>1, <3>1 DEF PluginInv, StepsTrue, s
  <2>2. CASE j = step + 1 /\ step' = step + 1
    <3>1. ~PreviewFailed(verdicts')
      BY <2>2 DEF Current, s
    <3>2. i \in DOMAIN verdicts'
      BY <1>0, <1>2, <2>2, LenProperties
    <3>3. ~ResultFailed(verdicts'[i])
      BY <3>1, <3>2 DEF PreviewFailed, s
    <3>4. verdicts'[i] \in {"ok", "refused", "diagnostic"}
      BY <1>2, <3>2, LenProperties, ElementOfSeq
    <3> QED
      BY <3>3, <3>4 DEF ResultFailed
  <2> QED
    BY <1>9, <2>1, <2>2
<1>5. /\ Len(verdicts') >= step'
      /\ exit' = "none" => step' < n /\ Len(verdicts') = step'
  <2>1. Len(verdicts') = step + 1 /\ (exit' = "none" => step' = step + 1 /\ step + 1 # n)
    BY <1>2 DEF n, s
  <2> QED
    BY <1>0, <2>1
<1> QED
  BY <1>2, <1>3, <1>4, <1>5 DEF StepsTrue, Running, n, s

\* The result of a request is looked at.
LEMMA ConcludeKeeps ==
  ASSUME PluginInv, Conclude
  PROVE  PluginInv'
<1>0. /\ Running /\ Current # "confirm" /\ Settled /\ UNCHANGED <<command, agreed, applied>>
      /\ IF exit' = "none" THEN step' = step + 1 /\ NextRequest ELSE UNCHANGED <<step, requestVars>>
      /\ step \in Nat /\ command \in Command /\ step < Len(Script(command))
  BY DEF Conclude, PluginInv, PluginShape, StepsTrue
<1>1. CASE request # "result"
  <2>1. exit' \in {"cancelled", "failure"} /\ UNCHANGED <<verdicts, command, agreed, applied, step, requestVars>>
    BY <1>0, <1>1 DEF Conclude
  <2> QED
    BY <2>1 DEF PluginInv, PluginShape, RequestTrue, StepsTrue, SuccessTrue, Running, Current, requestVars
<1>2. CASE request = "result"
  <2>1. PICK v \in {"ok", "refused", "diagnostic"} :
          /\ Current = "change" /\ v = "ok" => applied
          /\ verdicts' = Append(verdicts, v)
          /\ exit' = CASE Refuses(Append(verdicts, v)) -> "failure"
                       [] ~Refuses(Append(verdicts, v)) /\ LastStep /\ Current = "catalog" -> "success"
                       [] ~Refuses(Append(verdicts, v)) /\ LastStep /\ Current # "catalog" ->
                            IF ResultFailed(v) THEN "failure" ELSE "success"
                       [] ~Refuses(Append(verdicts, v)) /\ ~LastStep -> "none"
    BY <1>2 DEF Conclude
  <2>2. /\ exit' \in {"none", "success", "failure"}
        /\ exit' = "none" => ~Refuses(Append(verdicts, v)) /\ ~LastStep
        /\ exit' = "success" => LastStep /\ (Current = "catalog" \/ ~ResultFailed(v))
    BY <2>1
  <2>3. StepsTrue' /\ verdicts' \in Seq({"ok", "refused", "diagnostic"})
    <3>1. step' \in {step, step + 1} /\ (exit' = "none" => step' = step + 1 /\ step + 1 # Len(Script(command)))
          /\ (exit' # "none" => step' = step)
      BY <1>0, <2>2 DEF LastStep
    <3>2. step' = step + 1 /\ Current = "plan" => ~PreviewFailed(Append(verdicts, v))
      BY <1>0, <2>2 DEF Refuses
    <3> QED
      BY <1>0, <2>1, <3>1, <3>2, StepDone
  <2>4. PluginShape'
    <3>1. aborted' \in BOOLEAN /\ signalled' \in BOOLEAN /\ step' \in Nat
      <4>1. CASE exit' = "none"
        <5>1. signalled' = FALSE /\ aborted' = aborted
          BY <1>0, <4>1 DEF NextRequest
        <5>2. step' = step + 1 /\ step' \in Nat
          BY <1>0, <4>1
        <5>3. aborted \in BOOLEAN
          BY DEF PluginInv, PluginShape
        <5> QED
          BY <5>1, <5>2, <5>3
      <4>2. CASE exit' # "none"
        BY <1>0, <4>2 DEF PluginInv, PluginShape, requestVars
      <4> QED
        BY <4>1, <4>2
    <3>2. exit' \in {"none", "success", "failure", "cancelled"}
      BY <2>2
    <3> QED
      BY <1>0, <2>3, <3>1, <3>2 DEF PluginInv, PluginShape
  <2>5. RequestTrue'
    <3>1. CASE exit' = "none"
      BY <1>0, <3>1 DEF NextRequest, RequestTrue
    <3>2. CASE exit' # "none"
      BY <1>0, <3>2 DEF requestVars, PluginInv, RequestTrue, Running
    <3> QED
      BY <3>1, <3>2
  <2>6. SuccessTrue'
    <3> SUFFICES ASSUME exit' = "success", NEW i \in 1 .. Len(Script(command)),
                        Script(command)[i] = "change"
                 PROVE  applied
      BY <1>0, <1>2 DEF SuccessTrue, requestVars
    <3>1. i = step + 1
      BY <1>0, <2>2, ScriptOrder DEF LastStep
    <3>2. Current = "change" /\ v = "ok"
      BY <2>1, <2>2, <3>1 DEF Current, ResultFailed
    <3> QED
      BY <2>1, <3>2
  <2> QED
    BY <2>3, <2>4, <2>5, <2>6 DEF PluginInv
<1> QED
  BY <1>1, <1>2

\* The question is answered.
LEMMA ConfirmKeeps ==
  ASSUME PluginInv, NEW answer \in {"yes", "no"}, Confirm(answer)
  PROVE  PluginInv'
<1>0. Running /\ Current = "confirm" /\ UNCHANGED <<requestVars, command, applied>>
      /\ step \in Nat /\ command \in Command /\ step < Len(Script(command)) /\ request = "new"
  BY DEF Confirm, PluginInv, PluginShape, StepsTrue, RequestTrue
<1>1. CASE answer = "yes" /\ ~aborted
  <2>1. agreed' = TRUE /\ step' = step + 1 /\ verdicts' = Append(verdicts, "ok") /\ exit' = "none"
    BY <1>0, <1>1 DEF Confirm, Running
  <2>2. step + 1 # Len(Script(command))
    <3>1. step + 1 \in 1 .. Len(Script(command)) /\ Script(command)[step + 1] = "confirm"
      BY <1>0, ScriptOrder DEF Current
    <3> QED
      BY <1>0, <3>1, ScriptOrder
  <2>3. StepsTrue' /\ verdicts' \in Seq({"ok", "refused", "diagnostic"})
    <3>1. step' \in {step, step + 1} /\ Current # "plan"
      BY <1>0, <2>1
    <3> QED
      BY <1>0, <2>1, <2>2, <3>1, StepDone
  <2>4. PluginShape'
    BY <1>0, <2>1, <2>3 DEF PluginInv, PluginShape, requestVars
  <2>5. RequestTrue' /\ SuccessTrue'
    BY <1>0, <2>1 DEF PluginInv, RequestTrue, SuccessTrue, requestVars, Running
  <2> QED
    BY <2>3, <2>4, <2>5 DEF PluginInv
<1>2. CASE ~(answer = "yes" /\ ~aborted)
  <2>1. exit' \in {"failure", "cancelled"} /\ UNCHANGED <<agreed, step, verdicts>>
    BY <1>2 DEF Confirm
  <2> QED
    BY <1>0, <2>1 DEF PluginInv, PluginShape, RequestTrue, StepsTrue, SuccessTrue, Running, requestVars
<1> QED
  BY <1>1, <1>2

\* Every step of the command, its runtimes and the user keeps it.
LEMMA PluginInvPreserved == PluginInv /\ [PluginNext]_<<requestVars, pluginVars>> => PluginInv'
<1> SUFFICES ASSUME PluginInv, [PluginNext]_<<requestVars, pluginVars>> PROVE PluginInv'
  OBVIOUS
<1>1. CASE CallStart \/ CallStep \/ Apply \/ Interrupt
  BY <1>1, CallKeeps
<1>2. CASE Conclude
  BY <1>2, ConcludeKeeps
<1>3. ASSUME NEW answer \in {"yes", "no"}, Confirm(answer) PROVE PluginInv'
  BY <1>3, ConfirmKeeps
<1>4. CASE UNCHANGED <<requestVars, pluginVars>>
  BY <1>4 DEF requestVars, pluginVars, PluginInv, PluginShape, RequestTrue, StepsTrue, SuccessTrue,
              Running, Current
<1> QED
  BY <1>1, <1>2, <1>3, <1>4 DEF PluginNext

\* Whatever the runtime answers, and whenever the user interrupts or the process
\* ends: nothing is installed or removed that was not asked for, previewed and
\* agreed to, and success is only reported of what was done (runPluginCommand).
THEOREM NothingIsChangedUnasked == PluginSpec => NothingUnasked
<1>1. PluginInv /\ PluginInv' /\ [PluginNext]_<<requestVars, pluginVars>> =>
        [/\ applied' /\ ~applied =>
              /\ ~command.dryRun
              /\ aborted => signalled
              /\ command.action \in {"add", "remove", "install"} => agreed \/ command.yes
              /\ command.action \in {"add", "install"} =>
                   \A i \in DOMAIN verdicts :
                     Script(command)[i] \in {"look", "plan"} => verdicts[i] = "ok"
         /\ exit' = "success" =>
              /\ Contains(Script(command), "change") => applied'
              /\ ~aborted' /\ request' = "result" /\ child' = "exited"]_<<requestVars, pluginVars>>
  <2> SUFFICES ASSUME PluginInv, PluginInv', PluginNext
               PROVE  /\ applied' /\ ~applied =>
                           /\ ~command.dryRun
                           /\ aborted => signalled
                           /\ command.action \in {"add", "remove", "install"} => agreed \/ command.yes
                           /\ command.action \in {"add", "install"} =>
                                \A i \in DOMAIN verdicts :
                                  Script(command)[i] \in {"look", "plan"} => verdicts[i] = "ok"
                      /\ exit' = "success" =>
                           /\ Contains(Script(command), "change") => applied'
                           /\ ~aborted' /\ request' = "result" /\ child' = "exited"
    OBVIOUS
  <2>0. command' = command /\ command \in Command /\ step \in Nat /\ command.yes \in BOOLEAN
        /\ verdicts \in Seq({"ok", "refused", "diagnostic"})
    BY DEF PluginNext, CallStart, CallStep, Apply, Interrupt, Conclude, Confirm, pluginVars,
           PluginInv, PluginShape, Command
  <2>1. ASSUME applied', ~applied
        PROVE  /\ ~command.dryRun
               /\ aborted => signalled
               /\ command.action \in {"add", "remove", "install"} => agreed \/ command.yes
               /\ command.action \in {"add", "install"} =>
                    \A i \in DOMAIN verdicts :
                      Script(command)[i] \in {"look", "plan"} => verdicts[i] = "ok"
    <3>1. Running /\ Current = "change" /\ child = "running"
      BY <2>1 DEF PluginNext, CallStart, CallStep, Apply, Interrupt, Conclude, Confirm, pluginVars
    <3>2. /\ step + 1 \in 1 .. Len(Script(command)) /\ Script(command)[step + 1] = "change"
          /\ Len(verdicts) = step /\ step + 1 - 1 = step
      BY <2>0, <3>1, ScriptOrder DEF PluginInv, StepsTrue, Current
    <3>3. ~command.dryRun
      BY <2>0, <3>2, ScriptOrder
    <3>4. aborted => signalled
      BY <3>1 DEF PluginInv, RequestTrue
    <3>5. command.action \in {"add", "remove", "install"} => agreed \/ command.yes
      <4> SUFFICES ASSUME command.action \in {"add", "remove", "install"}, ~command.yes PROVE agreed
        OBVIOUS
      <4>1. \E j \in 1 .. step + 1 - 1 : Script(command)[j] = "confirm"
        BY <2>0, <3>2, ScriptOrder
      <4> QED
        BY <3>2, <4>1 DEF PluginInv, StepsTrue
    <3>6. command.action \in {"add", "install"} =>
            \A i \in DOMAIN verdicts : Script(command)[i] \in {"look", "plan"} => verdicts[i] = "ok"
      <4> SUFFICES ASSUME command.action \in {"add", "install"}, NEW i \in DOMAIN verdicts,
                          Script(command)[i] \in {"look", "plan"}
                   PROVE  verdicts[i] = "ok"
        OBVIOUS
      <4>1. \E j \in 1 .. step + 1 - 1 : Script(command)[j] = "plan"
        BY <2>0, <3>2, ScriptOrder
      <4>2. i \in 1 .. step
        BY <2>0, <3>2, LenProperties
      <4> QED
        BY <3>2, <4>1, <4>2 DEF PluginInv, StepsTrue
    <3> QED
      BY <3>3, <3>4, <3>5, <3>6
  <2>2. ASSUME exit' = "success"
        PROVE  /\ Contains(Script(command), "change") => applied'
               /\ ~aborted' /\ request' = "result" /\ child' = "exited"
    <3>1. request' = "result" /\ child' = "exited" /\ ~aborted'
      BY <2>2 DEF PluginInv, SuccessTrue, RequestTrue
    <3>2. Contains(Script(command), "change") => applied'
      <4>1. \A i \in 1 .. Len(Script(command)) : Script(command)[i] = "change" => applied'
        BY <2>0, <2>2 DEF PluginInv, SuccessTrue
      <4>2. DOMAIN Script(command) = 1 .. Len(Script(command))
        BY <2>0, ScriptOrder
      <4> QED
        BY <4>1, <4>2 DEF Contains
    <3> QED
      BY <3>1, <3>2
  <2> QED
    BY <2>1, <2>2
<1> QED
  BY <1>1, InitPluginInv, PluginInvPreserved, PTL DEF PluginSpec, NothingUnasked

-----------------------------------------------------------------------------
(* Permission dialogs (PermissionDialogs). *)

\* A line without its first request, and with one more.
LEMMA LineFacts ==
  ASSUME NEW S, NEW l \in Seq(S)
  PROVE  /\ Len(l) \in Nat /\ DOMAIN l = 1 .. Len(l) /\ (l = <<>> <=> Len(l) = 0)
         /\ l # <<>> => /\ Head(l) \in S /\ Head(l) = l[1] /\ Tail(l) \in Seq(S)
                        /\ Len(Tail(l)) = Len(l) - 1
                        /\ \A i \in 1 .. Len(l) - 1 : Tail(l)[i] = l[i + 1]
         /\ \A e \in S : /\ Append(l, e) \in Seq(S) /\ Len(Append(l, e)) = Len(l) + 1
                         /\ Append(l, e)[Len(l) + 1] = e
                         /\ \A i \in 1 .. Len(l) : Append(l, e)[i] = l[i]
BY LenProperties, EmptySeq, HeadTailProperties, AppendProperties

\* The requests in the line are those that have come and are not answered, each
\* in one place; the dialog is the first one's.
LineTrue ==
  /\ \A i, j \in 1 .. Len(line) : line[i] = line[j] => i = j
  /\ \A i \in 1 .. Len(line) : asked[line[i]] \in {"waiting", "open"}
  /\ \A r \in Request : asked[r] = "open" <=> dialog # NoDialog /\ r = HeadRequest
  /\ dialog # NoDialog => line # <<>>

\* A dialog on the screen is of a turn that goes on, or of none, and every
\* question in front of the one it asks has an answer.
DialogTrue ==
  dialog # NoDialog =>
    /\ dialog.screen \in {"choice", "text"}
    /\ ~(turnAborted /\ HeadRequest \in Signalled)
    /\ KindOf[HeadRequest] = "questions" =>
         /\ dialog.question \in Question
         /\ \A q \in Question : q < dialog.question => given[q] # {}

\* The inductive invariant.
DialogsInv == DialogsTypeOK /\ LineTrue /\ DialogTrue

\* It holds before the first request.
LEMMA InitDialogsInv == DialogsInit => DialogsInv
<1> SUFFICES ASSUME DialogsInit PROVE DialogsInv
  OBVIOUS
<1>1. DialogsTypeOK
  <2>1. line \in Seq(Request) /\ asked \in [Request -> {"new", "waiting", "open", "done"}]
    BY DEF DialogsInit
  <2>2. dialog \in DialogRecord /\ given \in [Question -> AnswerSet]
    BY DialogsAssumption DEF DialogsInit, NoDialog, NoAnswers, DialogRecord, AnswerSet
  <2>3. outcome \in [Request -> {"none", "allow", "modify", "deny", "failed"}] /\ turnAborted \in BOOLEAN
        /\ toolState \in [Request -> {"running", "waiting_permission", "rejected"}]
    BY DEF DialogsInit
  <2> QED
    BY <2>1, <2>2, <2>3 DEF DialogsTypeOK
<1>2. line = <<>> /\ Len(line) = 0 /\ dialog = NoDialog /\ asked = [r \in Request |-> "new"]
  BY DEF DialogsInit
<1>3. LineTrue /\ DialogTrue
  BY <1>2 DEF LineTrue, DialogTrue
<1> QED
  BY <1>1, <1>3 DEF DialogsInv

\* The first request is answered.
LEMMA SettleKeeps ==
  ASSUME DialogsInv, NEW decision \in {"allow", "modify", "deny", "failed"}, SettleHead(decision),
         line # <<>>, asked[HeadRequest] \in {"waiting", "open"},
         dialog # NoDialog \/ asked[HeadRequest] = "waiting",
         given' \in [Question -> AnswerSet], turnAborted' \in BOOLEAN
  PROVE  DialogsInv'
<1>1. /\ line \in Seq(Request) /\ asked \in [Request -> {"new", "waiting", "open", "done"}]
      /\ dialog \in DialogRecord /\ outcome \in [Request -> {"none", "allow", "modify", "deny", "failed"}]
      /\ toolState \in [Request -> {"running", "waiting_permission", "rejected"}]
  BY DEF DialogsInv, DialogsTypeOK
<1>2. /\ Len(line) \in Nat /\ Len(line) # 0 /\ HeadRequest = line[1] /\ HeadRequest \in Request
      /\ Tail(line) \in Seq(Request) /\ Len(Tail(line)) = Len(line) - 1
      /\ \A i \in 1 .. Len(line) - 1 : Tail(line)[i] = line[i + 1]
  BY <1>1, LineFacts DEF HeadRequest
<1>3. /\ line' = Tail(line) /\ asked' = [asked EXCEPT ![HeadRequest] = "done"] /\ dialog' = NoDialog
      /\ outcome' = [outcome EXCEPT ![HeadRequest] = decision]
  BY DEF SettleHead
<1>4. DialogsTypeOK'
  <2>1. NoDialog \in DialogRecord
    BY DialogsAssumption DEF NoDialog, DialogRecord, AnswerSet
  <2>2. toolState' \in [Request -> {"running", "waiting_permission", "rejected"}]
    BY <1>1, <1>2 DEF SettleHead
  <2> QED
    BY <1>1, <1>2, <1>3, <2>1, <2>2 DEF DialogsTypeOK
<1>5. LineTrue'
  <2>0. LineTrue
    BY DEF DialogsInv
  <2>1. \A i, j \in 1 .. Len(line) - 1 : line'[i] = line'[j] => i = j
    <3> SUFFICES ASSUME NEW i \in 1 .. Len(line) - 1, NEW j \in 1 .. Len(line) - 1, line'[i] = line'[j]
                 PROVE  i = j
      OBVIOUS
    <3>1. i + 1 \in 1 .. Len(line) /\ j + 1 \in 1 .. Len(line) /\ line[i + 1] = line[j + 1]
      BY <1>2, <1>3
    <3>2. i + 1 = j + 1
      BY <2>0, <3>1 DEF LineTrue
    <3> QED
      BY <3>2
  <2>2. \A i \in 1 .. Len(line) - 1 : asked'[line'[i]] \in {"waiting", "open"}
    <3> SUFFICES ASSUME NEW i \in 1 .. Len(line) - 1 PROVE asked'[line'[i]] \in {"waiting", "open"}
      OBVIOUS
    <3>1. i + 1 \in 1 .. Len(line) /\ 1 \in 1 .. Len(line) /\ i + 1 # 1 /\ line'[i] = line[i + 1]
      BY <1>2, <1>3
    <3>2. line[i + 1] # line[1] /\ asked[line[i + 1]] \in {"waiting", "open"}
      BY <2>0, <3>1 DEF LineTrue
    <3>3. line[i + 1] \in Request
      BY <1>1, <3>1, ElementOfSeq
    <3> QED
      BY <1>1, <1>2, <1>3, <3>1, <3>2, <3>3
  <2>3. \A r \in Request : asked'[r] # "open"
    <3> SUFFICES ASSUME NEW r \in Request, asked'[r] = "open" PROVE FALSE
      OBVIOUS
    <3>1. r # HeadRequest /\ asked[r] = "open"
      BY <1>1, <1>2, <1>3
    <3> QED
      BY <2>0, <3>1 DEF LineTrue
  <2> QED
    BY <1>2, <1>3, <2>1, <2>2, <2>3 DEF LineTrue
<1>6. DialogTrue'
  BY <1>3 DEF DialogTrue
<1> QED
  BY <1>4, <1>5, <1>6 DEF DialogsInv

\* Another dialog of the open request.
LEMMA ShowKeeps ==
  ASSUME DialogsInv, dialog # NoDialog, NEW d \in DialogRecord, Show(d),
         d.screen \in {"choice", "text"}, UNCHANGED turnAborted, given' \in [Question -> AnswerSet],
         KindOf[HeadRequest] = "questions" =>
           d.question \in Question /\ \A q \in Question : q < d.question => given'[q] # {}
  PROVE  DialogsInv'
<1>1. dialog' = d /\ UNCHANGED <<line, asked, outcome, toolState>> /\ d # NoDialog
  BY DEF Show, NoDialog
<1>2. DialogsTypeOK'
  BY <1>1 DEF DialogsInv, DialogsTypeOK
<1>3. LineTrue' /\ DialogTrue'
  BY <1>1 DEF DialogsInv, LineTrue, DialogTrue, HeadRequest
<1> QED
  BY <1>2, <1>3 DEF DialogsInv

\* What the open request is.
LEMMA OpenRequest ==
  ASSUME DialogsInv, dialog # NoDialog
  PROVE  /\ line # <<>> /\ HeadRequest \in Request /\ asked[HeadRequest] = "open"
         /\ dialog.ticked \in AnswerSet /\ dialog.question \in 0 .. QuestionCount
         /\ TextFor(dialog) \in DialogRecord /\ TextFor(dialog).screen = "text"
         /\ TextFor(dialog).question = dialog.question
         /\ QuestionCount \in Nat \ {0}
<1>1. line \in Seq(Request) /\ dialog \in DialogRecord /\ line # <<>>
  BY DEF DialogsInv, DialogsTypeOK, LineTrue
<1>2. HeadRequest \in Request
  BY <1>1, LineFacts DEF HeadRequest
<1>3. asked[HeadRequest] = "open"
  BY <1>2 DEF DialogsInv, LineTrue
<1>4. /\ dialog.ticked \in AnswerSet /\ dialog.question \in 0 .. QuestionCount
      /\ TextFor(dialog) \in DialogRecord /\ TextFor(dialog).screen = "text"
      /\ TextFor(dialog).question = dialog.question
  BY <1>1 DEF DialogRecord, TextFor
<1> QED
  BY <1>1, <1>2, <1>3, <1>4, DialogsAssumption

\* What a step that settles the first request may do with it.
Genuine(r) ==
  /\ turnAborted /\ r \in Signalled => outcome'[r] = "deny"
  /\ outcome'[r] = "modify" => \A q \in Question : given'[q] # {}

\* A step keeps the invariant, and what it settles is genuine.
Right ==
  /\ DialogsInv'
  /\ \A r \in Request : asked[r] # "done" /\ asked'[r] = "done" => Genuine(r)

\* Settling the first request is right when every question has its answer.
LEMMA SettledRight ==
  ASSUME DialogsInv, dialog # NoDialog, NEW decision \in {"allow", "modify", "deny", "failed"},
         SettleHead(decision), given' \in [Question -> AnswerSet], turnAborted' \in BOOLEAN,
         decision = "modify" => \A q \in Question : given'[q] # {}
  PROVE  Right
<1>1. DialogsInv'
  BY OpenRequest, SettleKeeps
<1>2. ASSUME NEW r \in Request, asked[r] # "done", asked'[r] = "done"
      PROVE  Genuine(r)
  <2>1. asked' = [asked EXCEPT ![HeadRequest] = "done"] /\ outcome' = [outcome EXCEPT ![HeadRequest] = decision]
        /\ asked \in [Request -> {"new", "waiting", "open", "done"}]
        /\ outcome \in [Request -> {"none", "allow", "modify", "deny", "failed"}]
    BY DEF SettleHead, DialogsInv, DialogsTypeOK
  <2>2. r = HeadRequest /\ outcome'[r] = decision
    BY <1>2, <2>1
  <2>3. ~(turnAborted /\ r \in Signalled)
    BY <2>2 DEF DialogsInv, DialogTrue
  <2> QED
    BY <2>2, <2>3 DEF Genuine
<1> QED
  BY <1>1, <1>2 DEF Right

\* Showing another dialog of the request is right.
LEMMA ShownRight ==
  ASSUME DialogsInv, dialog # NoDialog, NEW d \in DialogRecord, Show(d),
         d.screen \in {"choice", "text"}, UNCHANGED turnAborted, given' \in [Question -> AnswerSet],
         KindOf[HeadRequest] = "questions" =>
           d.question \in Question /\ \A q \in Question : q < d.question => given'[q] # {}
  PROVE  Right
BY ShowKeeps DEF Right, Show

\* Asking a question again.
LEMMA AskedRight ==
  ASSUME DialogsInv, dialog # NoDialog, NEW q \in Question, NEW answers \in [Question -> AnswerSet],
         AskAgain(q, answers), UNCHANGED turnAborted,
         \A k \in Question : k < q => answers[k] # {}
  PROVE  Right
<1> DEFINE d == ChoiceOf(q, IF q \in MultiSelect THEN answers[q] ELSE {})
<1>1. d \in DialogRecord /\ d.screen = "choice" /\ d.question = q
  <2>1. (IF q \in MultiSelect THEN answers[q] ELSE {}) \in AnswerSet /\ q \in 0 .. QuestionCount
    BY DialogsAssumption DEF AnswerSet, Question
  <2> QED
    BY <2>1 DEF ChoiceOf, DialogRecord
<1>2. given' = answers /\ Show(d)
  BY DEF AskAgain
<1> HIDE DEF d
<1> QED
  BY <1>1, <1>2, ShownRight

\* Answering one: the next is asked, or the last settles the request.
LEMMA AnsweredRight ==
  ASSUME DialogsInv, dialog # NoDialog, KindOf[HeadRequest] = "questions",
         NEW a \in AnswerSet, a # {}, GiveAnswer(a), UNCHANGED turnAborted
  PROVE  Right
<1> DEFINE answers == [given EXCEPT ![AskedNow] = a]
<1>1. given \in [Question -> AnswerSet] /\ AskedNow \in Question /\ turnAborted \in BOOLEAN
      /\ \A q \in Question : q < AskedNow => given[q] # {}
  BY DEF DialogsInv, DialogsTypeOK, DialogTrue, AskedNow
<1>2. answers \in [Question -> AnswerSet] /\ \A q \in Question : q <= AskedNow => answers[q] # {}
  <2>1. answers \in [Question -> AnswerSet]
    BY <1>1
  <2>2. ASSUME NEW q \in Question, q <= AskedNow PROVE answers[q] # {}
    <3>1. q \in Nat /\ AskedNow \in Nat
      BY <1>1 DEF Question
    <3>2. q = AskedNow \/ q < AskedNow
      BY <2>2, <3>1
    <3> QED
      BY <1>1, <3>2
  <2> QED
    BY <2>1, <2>2
<1> HIDE DEF answers
<1>3. CASE AskedNow = QuestionCount
  <2>1. SettleHead("modify") /\ given' = answers
    BY <1>3 DEF GiveAnswer, answers
  <2>2. \A q \in Question : given'[q] # {}
    BY <1>2, <1>3, <2>1 DEF Question
  <2> QED
    BY <1>1, <1>2, <2>1, <2>2, SettledRight
<1>4. CASE AskedNow # QuestionCount
  <2>1. AskAgain(AskedNow + 1, answers)
    BY <1>4 DEF GiveAnswer, answers
  <2>2. AskedNow + 1 \in Question
    BY <1>1, <1>4, DialogsAssumption DEF Question
  <2>3. \A k \in Question : k < AskedNow + 1 => answers[k] # {}
    BY <1>1, <1>2 DEF Question
  <2> QED
    BY <1>2, <2>1, <2>2, <2>3, AskedRight
<1> QED
  BY <1>3, <1>4

\* Going back to an earlier question.
LEMMA BackRight ==
  ASSUME DialogsInv, dialog # NoDialog, KindOf[HeadRequest] = "questions", AskedNow > 1,
         GoBack, UNCHANGED turnAborted
  PROVE  Right
<1>1. given \in [Question -> AnswerSet] /\ AskedNow \in Question
      /\ \A q \in Question : q < AskedNow => given[q] # {}
  BY DEF DialogsInv, DialogsTypeOK, DialogTrue, AskedNow
<1>2. AskedNow - 1 \in Question /\ \A k \in Question : k < AskedNow - 1 => given[k] # {}
  BY <1>1, DialogsAssumption DEF Question
<1> QED
  BY <1>1, <1>2, AskedRight DEF GoBack

\* A choice or a text prompt for what is asked.
LEMMA SameQuestionRight ==
  ASSUME DialogsInv, dialog # NoDialog, UNCHANGED <<turnAborted, given>>, NEW d \in DialogRecord,
         Show(d), d.screen \in {"choice", "text"}, d.question = dialog.question
  PROVE  Right
<1>1. given' \in [Question -> AnswerSet]
  BY DEF DialogsInv, DialogsTypeOK
<1>2. KindOf[HeadRequest] = "questions" =>
        d.question \in Question /\ \A q \in Question : q < d.question => given'[q] # {}
  BY DEF DialogsInv, DialogTrue
<1> QED
  BY <1>1, <1>2, ShownRight

\* Every step of the user, the queue and the turn is right.
LEMMA StepRight == ASSUME DialogsInv, DialogsNext PROVE Right
<1>0. /\ given \in [Question -> AnswerSet] /\ turnAborted \in BOOLEAN /\ line \in Seq(Request)
      /\ asked \in [Request -> {"new", "waiting", "open", "done"}] /\ dialog \in DialogRecord
      /\ outcome \in [Request -> {"none", "allow", "modify", "deny", "failed"}]
      /\ toolState \in [Request -> {"running", "waiting_permission", "rejected"}]
  BY DEF DialogsInv, DialogsTypeOK
<1>1. ASSUME NEW r \in Request, RequestPermission(r) PROVE Right
  <2>1. /\ asked[r] = "new" /\ asked' = [asked EXCEPT ![r] = "waiting"] /\ line' = Append(line, r)
        /\ UNCHANGED <<dialog, given, outcome, toolState, turnAborted>>
    BY <1>1 DEF RequestPermission
  <2>2. /\ Len(line) \in Nat /\ line' \in Seq(Request) /\ Len(line') = Len(line) + 1
        /\ line'[Len(line) + 1] = r /\ \A i \in 1 .. Len(line) : line'[i] = line[i]
        /\ line' # <<>> /\ (line = <<>> <=> Len(line) = 0)
    BY <1>0, <2>1, LineFacts
  <2>3. LineTrue /\ \A i \in 1 .. Len(line) : line[i] \in Request /\ line[i] # r
    <3>1. LineTrue
      BY DEF DialogsInv
    <3>2. \A i \in 1 .. Len(line) : line[i] \in Request
      BY <1>0, ElementOfSeq
    <3> QED
      BY <2>1, <3>1, <3>2 DEF LineTrue
  <2>4. dialog # NoDialog => HeadRequest' = HeadRequest /\ HeadRequest # r /\ HeadRequest \in Request
    <3> SUFFICES ASSUME dialog # NoDialog
                 PROVE  HeadRequest' = HeadRequest /\ HeadRequest # r /\ HeadRequest \in Request
      OBVIOUS
    <3>1. line # <<>> /\ Len(line) # 0 /\ 1 \in 1 .. Len(line)
      BY <2>2, <2>3 DEF LineTrue
    <3>2. Head(line) = line[1] /\ Head(line') = line'[1]
      BY <1>0, <2>2, <3>1, LineFacts
    <3> QED
      BY <2>2, <2>3, <3>1, <3>2 DEF HeadRequest
  <2>5. LineTrue'
    <3>1. \A i, j \in 1 .. Len(line) + 1 : line'[i] = line'[j] => i = j
      <4> SUFFICES ASSUME NEW i \in 1 .. Len(line) + 1, NEW j \in 1 .. Len(line) + 1, line'[i] = line'[j]
                   PROVE  i = j
        OBVIOUS
      <4>1. (i \in 1 .. Len(line) \/ i = Len(line) + 1) /\ (j \in 1 .. Len(line) \/ j = Len(line) + 1)
        BY <2>2
      <4> QED
        BY <2>2, <2>3, <4>1 DEF LineTrue
    <3>2. \A i \in 1 .. Len(line) + 1 : asked'[line'[i]] \in {"waiting", "open"}
      <4> SUFFICES ASSUME NEW i \in 1 .. Len(line) + 1 PROVE asked'[line'[i]] \in {"waiting", "open"}
        OBVIOUS
      <4>1. i \in 1 .. Len(line) \/ i = Len(line) + 1
        BY <2>2
      <4> QED
        BY <1>0, <2>1, <2>2, <2>3, <4>1 DEF LineTrue
    <3>3. \A q \in Request : asked'[q] = "open" <=> dialog' # NoDialog /\ q = HeadRequest'
      BY <1>0, <2>1, <2>3, <2>4 DEF LineTrue
    <3> QED
      BY <2>1, <2>2, <3>1, <3>2, <3>3 DEF LineTrue
  <2>6. DialogTrue'
    BY <2>1, <2>4 DEF DialogsInv, DialogTrue
  <2>7. DialogsTypeOK'
    BY <1>0, <2>1, <2>2 DEF DialogsTypeOK
  <2> QED
    BY <1>0, <2>1, <2>5, <2>6, <2>7 DEF Right, DialogsInv
<1>2. CASE BeginRequest
  <2>0. /\ line # <<>> /\ asked[HeadRequest] = "waiting" /\ HeadRequest \in Request
        /\ given' = NoAnswers /\ turnAborted' = turnAborted
    BY <1>0, <1>2, LineFacts DEF BeginRequest, NextInLine, HeadRequest
  <2>1. NoAnswers \in [Question -> AnswerSet]
    BY DEF NoAnswers, AnswerSet
  <2>2. CASE Aborted(HeadRequest)
    <3>1. SettleHead("deny")
      BY <1>2, <2>2 DEF BeginRequest
    <3>2. DialogsInv'
      BY <1>0, <2>0, <2>1, <3>1, SettleKeeps
    <3>3. ASSUME NEW r \in Request, asked[r] # "done", asked'[r] = "done" PROVE Genuine(r)
      BY <1>0, <2>0, <3>1, <3>3 DEF Genuine, SettleHead
    <3> QED
      BY <3>2, <3>3 DEF Right
  <2>3. CASE ~Aborted(HeadRequest)
    <3>1. /\ dialog' = FirstDialog(HeadRequest) /\ asked' = [asked EXCEPT ![HeadRequest] = "open"]
          /\ toolState' = [toolState EXCEPT ![HeadRequest] = "waiting_permission"]
          /\ UNCHANGED <<line, outcome>>
      BY <1>2, <2>3 DEF BeginRequest
    <3>2. /\ FirstDialog(HeadRequest) \in DialogRecord /\ FirstDialog(HeadRequest).screen = "choice"
          /\ KindOf[HeadRequest] = "questions" => FirstDialog(HeadRequest).question = 1
      BY DialogsAssumption DEF FirstDialog, ChoiceOf, DialogRecord, AnswerSet
    <3>3. dialog' # NoDialog
      BY <3>1, <3>2 DEF NoDialog
    <3>4. DialogsTypeOK'
      BY <1>0, <2>0, <2>1, <3>1, <3>2 DEF DialogsTypeOK
    <3>5. LineTrue'
      <4>1. LineTrue
        BY DEF DialogsInv
      <4>2. \A r \in Request : asked[r] = "open" => FALSE
        BY <2>0, <4>1 DEF LineTrue
      <4>3. HeadRequest' = HeadRequest
        BY <3>1 DEF HeadRequest
      <4>4. \A r \in Request : asked'[r] = "open" <=> r = HeadRequest
        BY <1>0, <2>0, <3>1, <4>2
      <4>5. \A i \in 1 .. Len(line) : asked'[line[i]] \in {"waiting", "open"}
        <5>1. \A i \in 1 .. Len(line) : line[i] \in Request
          BY <1>0, ElementOfSeq
        <5> QED
          BY <1>0, <3>1, <4>1, <5>1 DEF LineTrue
      <4> QED
        BY <2>0, <3>1, <3>3, <4>1, <4>3, <4>4, <4>5 DEF LineTrue
    <3>6. DialogTrue'
      <4>1. HeadRequest' = HeadRequest
        BY <3>1 DEF HeadRequest
      <4>2. 1 \in Question /\ \A q \in Question : ~(q < 1)
        BY DialogsAssumption DEF Question
      <4> QED
        BY <2>0, <2>3, <3>1, <3>2, <4>1, <4>2 DEF DialogTrue, Aborted
    <3>7. \A r \in Request : asked[r] # "done" => asked'[r] # "done"
      BY <1>0, <2>0, <3>1
    <3> QED
      BY <3>4, <3>5, <3>6, <3>7 DEF Right, DialogsInv
  <2> QED
    BY <2>2, <2>3
<1>3. CASE RequestFails
  <2>1. dialog # NoDialog /\ SettleHead("failed") /\ UNCHANGED <<given, turnAborted>>
    BY <1>3 DEF RequestFails
  <2> QED
    BY <1>0, <2>1, SettledRight
<1>4. ASSUME dialog.screen # "none" PROVE dialog # NoDialog
  BY <1>4 DEF NoDialog
<1>5. CASE AnswerToolPermission \/ AnswerPlanApproval
  <2>1. dialog # NoDialog /\ UNCHANGED <<given, turnAborted>>
    BY <1>4, <1>5 DEF AnswerToolPermission, AnswerPlanApproval, OnTop
  <2>2. ASSUME NEW decision \in {"allow", "deny"}, SettleHead(decision) PROVE Right
    BY <1>0, <2>1, <2>2, SettledRight
  <2>3. CASE Show(TextFor(dialog))
    BY <2>1, <2>3, OpenRequest, SameQuestionRight
  <2> QED
    BY <1>5, <2>2, <2>3 DEF AnswerToolPermission, AnswerPlanApproval
<1>6. CASE GiveReason \/ GiveInstructions
  <2>1. dialog # NoDialog /\ UNCHANGED <<given, turnAborted>> /\ SettleHead("deny")
    BY <1>4, <1>6 DEF GiveReason, GiveInstructions, OnTop
  <2> QED
    BY <1>0, <2>1, SettledRight
<1>7. CASE AnswerSingleChoice
  <2>1. dialog # NoDialog /\ UNCHANGED turnAborted /\ KindOf[HeadRequest] = "questions"
    BY <1>4, <1>7 DEF AnswerSingleChoice, OnTop
  <2>2. ASSUME NEW o \in Option, GiveAnswer({o}) PROVE Right
    <3>1. {o} \in AnswerSet /\ {o} # {}
      BY DEF AnswerSet
    <3> QED
      BY <2>1, <2>2, <3>1, AnsweredRight
  <2>3. CASE Show(TextFor(dialog)) /\ UNCHANGED given
    BY <2>1, <2>3, OpenRequest, SameQuestionRight
  <2>4. CASE AskedNow > 1 /\ GoBack
    BY <2>1, <2>4, BackRight
  <2>5. CASE SettleHead("deny") /\ UNCHANGED given
    BY <1>0, <2>1, <2>5, SettledRight
  <2> QED
    BY <1>7, <2>2, <2>3, <2>4, <2>5 DEF AnswerSingleChoice
<1>8. CASE AnswerMultipleChoice
  <2>1. dialog # NoDialog /\ UNCHANGED turnAborted /\ KindOf[HeadRequest] = "questions"
        /\ dialog.ticked \in AnswerSet /\ dialog.question \in 0 .. QuestionCount
    BY <1>4, <1>8, OpenRequest DEF AnswerMultipleChoice, OnTop
  <2>2. ASSUME NEW o \in Option, Show(ChoiceOf(AskedNow, Toggle(o))), UNCHANGED given PROVE Right
    <3> DEFINE d == ChoiceOf(AskedNow, Toggle(o))
    <3>1. Toggle(o) \in AnswerSet
      BY <2>1 DEF Toggle, AnswerSet
    <3>2. d \in DialogRecord /\ d.screen = "choice" /\ d.question = dialog.question
      BY <2>1, <3>1 DEF ChoiceOf, DialogRecord, AskedNow
    <3> HIDE DEF d
    <3>3. Show(d)
      BY <2>2 DEF d
    <3> QED
      BY <2>1, <2>2, <3>2, <3>3, SameQuestionRight
  <2>3. CASE Show(TextFor(dialog)) /\ UNCHANGED given
    BY <2>1, <2>3, OpenRequest, SameQuestionRight
  <2>4. CASE dialog.ticked # {} /\ GiveAnswer(dialog.ticked)
    BY <2>1, <2>4, AnsweredRight
  <2>5. CASE AskedNow > 1 /\ GoBack
    BY <2>1, <2>5, BackRight
  <2>6. CASE SettleHead("deny") /\ UNCHANGED given
    BY <1>0, <2>1, <2>6, SettledRight
  <2> QED
    BY <1>8, <2>2, <2>3, <2>4, <2>5, <2>6 DEF AnswerMultipleChoice
<1>9. ASSUME NEW typed \in BOOLEAN, TypeAnswer(typed) PROVE Right
  <2>1. dialog # NoDialog /\ UNCHANGED turnAborted /\ KindOf[HeadRequest] = "questions"
        /\ dialog.ticked \in AnswerSet /\ dialog.question \in 0 .. QuestionCount
    BY <1>4, <1>9, OpenRequest DEF TypeAnswer, OnTop
  <2>2. ASSUME NEW t \in AnswerSet, Show(ChoiceOf(AskedNow, t)), UNCHANGED given PROVE Right
    <3> DEFINE d == ChoiceOf(AskedNow, t)
    <3>1. d \in DialogRecord /\ d.screen = "choice" /\ d.question = dialog.question
      BY <2>1 DEF ChoiceOf, DialogRecord, AskedNow
    <3> HIDE DEF d
    <3>2. Show(d)
      BY <2>2 DEF d
    <3> QED
      BY <2>1, <2>2, <3>1, <3>2, SameQuestionRight
  <2>3. CASE ~typed
    BY <1>9, <2>1, <2>2, <2>3 DEF TypeAnswer
  <2>4. CASE typed /\ AskedNow \in MultiSelect
    <3>1. dialog.ticked \cup {Custom} \in AnswerSet
      BY <2>1 DEF AnswerSet
    <3> QED
      BY <1>9, <2>2, <2>4, <3>1 DEF TypeAnswer
  <2>5. CASE typed /\ AskedNow \notin MultiSelect
    <3>1. {Custom} \in AnswerSet /\ {Custom} # {} /\ GiveAnswer({Custom})
      BY <1>9, <2>5 DEF TypeAnswer, AnswerSet
    <3> QED
      BY <2>1, <3>1, AnsweredRight
  <2> QED
    BY <2>3, <2>4, <2>5
<1>10. CASE AbortTurn
  <2>1. ~turnAborted /\ turnAborted' = TRUE /\ given' = given
    BY <1>10 DEF AbortTurn
  <2>2. CASE dialog # NoDialog /\ HeadRequest \in Signalled
    BY <1>0, <1>10, <2>1, <2>2, SettledRight DEF AbortTurn
  <2>3. CASE ~(dialog # NoDialog /\ HeadRequest \in Signalled)
    <3>1. UNCHANGED <<line, asked, dialog, outcome, toolState>>
      BY <1>10, <2>3 DEF AbortTurn
    <3>2. DialogsTypeOK' /\ LineTrue' /\ DialogTrue'
      BY <2>1, <2>3, <3>1 DEF DialogsInv, DialogsTypeOK, LineTrue, DialogTrue, HeadRequest
    <3> QED
      BY <3>1, <3>2 DEF Right, DialogsInv
  <2> QED
    BY <2>2, <2>3
<1> QED
  BY <1>1, <1>2, <1>3, <1>5, <1>6, <1>7, <1>8, <1>9, <1>10 DEF DialogsNext

\* So the invariant is kept.
LEMMA DialogsInvPreserved == DialogsInv /\ [DialogsNext]_dialogVars => DialogsInv'
<1>1. DialogsInv /\ DialogsNext => DialogsInv'
  BY StepRight DEF Right
<1>2. DialogsInv /\ UNCHANGED dialogVars => DialogsInv'
  BY DEF dialogVars, DialogsInv, DialogsTypeOK, LineTrue, DialogTrue, HeadRequest
<1> QED
  BY <1>1, <1>2

\* Dialogs never overlap: the one on the screen is that of the first request in
\* the line, every other one waits, and none is in it twice, whatever the user
\* answers, revises or breaks off and whenever the turn is aborted
\* (permission-request-queue.ts).
THEOREM DialogsNeverOverlap == DialogsSpec => []OneInteraction
<1>1. DialogsInv => OneInteraction
  <2> SUFFICES ASSUME DialogsInv PROVE OneInteraction
    OBVIOUS
  <2>1. DOMAIN line = 1 .. Len(line)
    BY LenProperties DEF DialogsInv, DialogsTypeOK
  <2> QED
    BY <2>1 DEF DialogsInv, LineTrue, OneInteraction
<1> QED
  BY <1>1, InitDialogsInv, DialogsInvPreserved, PTL DEF DialogsSpec

\* No request of a turn is approved once the turn was aborted, and no list of
\* questions is handed back that lacks an answer (collectUserQuestionAnswers).
THEOREM OnlyGenuineApprovals == DialogsSpec => ApprovalsAreGenuine
<1>1. DialogsInv /\ [DialogsNext]_dialogVars =>
        [\A r \in Request : asked[r] # "done" /\ asked'[r] = "done" =>
            /\ turnAborted /\ r \in Signalled => outcome'[r] = "deny"
            /\ outcome'[r] = "modify" => \A q \in Question : given'[q] # {}]_dialogVars
  BY StepRight DEF Right, Genuine
<1> QED
  BY <1>1, InitDialogsInv, DialogsInvPreserved, PTL DEF DialogsSpec, ApprovalsAreGenuine

-----------------------------------------------------------------------------
(* Texts, one after the other (AssistantText). *)

\* Every set of numbers that is not empty has a least one.
LEMMA LeastNumber ==
  ASSUME NEW T, T \subseteq Nat, T # {}
  PROVE  \E m \in T : \A n \in T : m <= n
<1>1. IsWellFoundedOn(OpToRel(<, Nat), Nat)
  BY NatLessThanWellFounded
<1>2. PICK m \in T : \A n \in T : ~(<<n, m>> \in OpToRel(<, Nat))
  BY <1>1, WFMin
<1>3. ASSUME NEW n \in T PROVE m <= n
  <2>1. n \in Nat /\ m \in Nat
    OBVIOUS
  <2>2. n < m => <<n, m>> \in OpToRel(<, Nat)
    BY <2>1 DEF OpToRel
  <2>3. ~(n < m)
    BY <1>2, <2>2, Zenon
  <2> QED
    BY <2>1, <2>3
<1> QED
  BY <1>3

\* A set with 0 and with the successor of each of its members has them all.
LEMMA UpTo ==
  ASSUME NEW n \in Nat, NEW P, 0 \in P, \A i \in 1..n : i - 1 \in P => i \in P
  PROVE  \A i \in 0..n : i \in P
<1> DEFINE T == {i \in 0..n : i \notin P}
<1>1. ASSUME T # {} PROVE FALSE
  <2>1. T \subseteq Nat
    OBVIOUS
  <2>2. PICK m \in T : \A k \in T : m <= k
    <3> HIDE DEF T
    <3> QED
      BY <1>1, <2>1, LeastNumber
  <2>3. m \in 1..n /\ m - 1 \in 0..n /\ ~(m <= m - 1)
    OBVIOUS
  <2>4. m - 1 \in P
    BY <2>2, <2>3
  <2> QED
    BY <2>3, <2>4
<1> QED
  BY <1>1

\* A text, and a sequence of texts.
Words == Seq(Nat)
Pieces == Seq(Words)

\* f has the first n texts of s joined, one more at each place.
Joins(f, s, n) == f = [i \in 0..n |-> IF i = 0 THEN <<>> ELSE f[i - 1] \o s[i]]

\* There is such a function.
LEMMA JoinsExist ==
  ASSUME NEW s, NEW n \in Nat
  PROVE  \E f : Joins(f, s, n)
<1> DEFINE P == {k \in 0..n : \E f : Joins(f, s, k)}
<1>1. 0 \in P
  <2> DEFINE f == [i \in 0..0 |-> <<>>]
  <2>1. f = [i \in 0..0 |-> IF i = 0 THEN <<>> ELSE f[i - 1] \o s[i]]
    OBVIOUS
  <2>2. Joins(f, s, 0)
    BY <2>1 DEF Joins
  <2> HIDE DEF f
  <2> QED
    BY <2>2
<1>2. ASSUME NEW m \in 1..n, m - 1 \in P PROVE m \in P
  <2>1. m \in Nat /\ m # 0 /\ m - 1 \in Nat /\ m \in 0..n
    OBVIOUS
  <2>2. PICK f : Joins(f, s, m - 1)
    BY <1>2
  <2> DEFINE g == [i \in 0..m |-> IF i = m THEN f[m - 1] \o s[m] ELSE f[i]]
  <2>3. ASSUME NEW i \in 0..m
        PROVE  g[i] = IF i = 0 THEN <<>> ELSE g[i - 1] \o s[i]
    <3>1. CASE i = m
      <4>1. g[i - 1] = f[m - 1]
        BY <2>1, <3>1
      <4> QED
        BY <2>1, <3>1, <4>1
    <3>2. CASE i # m
      <4>1. i \in 0..(m - 1)
        BY <2>1, <3>2
      <4>2. f[i] = IF i = 0 THEN <<>> ELSE f[i - 1] \o s[i]
        BY <2>2, <4>1 DEF Joins
      <4>3. g[i] = f[i] /\ (i # 0 => g[i - 1] = f[i - 1])
        BY <2>1, <3>2, <4>1
      <4> HIDE DEF g
      <4> QED
        BY <4>2, <4>3
    <3> QED
      BY <3>1, <3>2
  <2>4. Joins(g, s, m)
    BY <2>3 DEF Joins
  <2> HIDE DEF g
  <2> QED
    BY <2>1, <2>4
<1> HIDE DEF P
<1>3. \A k \in 0..n : k \in P
  BY <1>1, <1>2, UpTo
<1> QED
  BY <1>3 DEF P

\* Texts are joined one at a time.
LEMMA JoinedFollows ==
  ASSUME NEW s, Len(s) \in Nat
  PROVE  /\ JoinedTo(s)[0] = <<>>
         /\ \A i \in 1..Len(s) : JoinedTo(s)[i] = JoinedTo(s)[i - 1] \o s[i]
<1> DEFINE Is(g) == g = [i \in 0..Len(s) |-> IF i = 0 THEN <<>> ELSE g[i - 1] \o s[i]]
           h == CHOOSE g : Is(g)
<1>1. JoinedTo(s) = h
  BY DEF JoinedTo
<1>2. \A g : Joins(g, s, Len(s)) <=> Is(g)
  BY DEF Joins
<1>3. \E g : Joins(g, s, Len(s))
  BY JoinsExist
<1> HIDE DEF Is
<1>4. Is(h)
  BY <1>2, <1>3
<1> HIDE DEF h
<1>5. h = [i \in 0..Len(s) |-> IF i = 0 THEN <<>> ELSE h[i - 1] \o s[i]]
  BY <1>4 DEF Is
<1>6. \A i \in 0..Len(s) : h[i] = IF i = 0 THEN <<>> ELSE h[i - 1] \o s[i]
  BY <1>5
<1>7. h[0] = <<>>
  BY <1>6
<1>8. ASSUME NEW i \in 1..Len(s) PROVE h[i] = h[i - 1] \o s[i]
  <2>1. i \in 0..Len(s) /\ i # 0
    OBVIOUS
  <2> QED
    BY <1>6, <2>1
<1> QED
  BY <1>1, <1>7, <1>8

\* A joined text is a text, of the same tokens.
LEMMA JoinedTyped ==
  ASSUME NEW S, NEW s \in Seq(Seq(S))
  PROVE  /\ \A i \in 0..Len(s) : JoinedTo(s)[i] \in Seq(S)
         /\ Joined(s) \in Seq(S)
<1> DEFINE J == JoinedTo(s)
           P == {i \in 0..Len(s) : J[i] \in Seq(S)}
<1>1. Len(s) \in Nat
  BY LenProperties
<1>2. J[0] = <<>> /\ \A i \in 1..Len(s) : J[i] = J[i - 1] \o s[i]
  BY <1>1, JoinedFollows
<1> HIDE DEF J
<1>3. 0 \in P
  <2>1. <<>> \in Seq(S) /\ 0 \in 0..Len(s)
    BY <1>1, EmptySeq
  <2>2. J[0] \in Seq(S)
    BY <1>2, <2>1
  <2> QED
    BY <2>1, <2>2
<1>4. ASSUME NEW i \in 1..Len(s), i - 1 \in P PROVE i \in P
  <2>1. s[i] \in Seq(S)
    BY ElementOfSeq
  <2>2. J[i - 1] \in Seq(S)
    BY <1>4
  <2>3. J[i - 1] \o s[i] \in Seq(S)
    BY <2>1, <2>2, ConcatProperties
  <2>4. J[i] = J[i - 1] \o s[i]
    BY <1>2
  <2>5. i \in 0..Len(s)
    BY <1>1
  <2>6. J[i] \in Seq(S)
    BY <2>3, <2>4, Zenon
  <2> QED
    BY <2>5, <2>6
<1> HIDE DEF P
<1>5. \A i \in 0..Len(s) : i \in P
  BY <1>1, <1>3, <1>4, UpTo
<1> QED
  BY <1>1, <1>5 DEF P, J, Joined

\* Texts that agree up to a place are joined alike up to there.
LEMMA JoinedAlike ==
  ASSUME NEW s \in Pieces, NEW t \in Pieces, NEW n \in Nat, n <= Len(s), n <= Len(t),
         \A i \in 1..n : s[i] = t[i]
  PROVE  \A i \in 0..n : JoinedTo(s)[i] = JoinedTo(t)[i]
<1> DEFINE J == JoinedTo(s)
           K == JoinedTo(t)
           P == {i \in 0..n : J[i] = K[i]}
<1>1. Len(s) \in Nat /\ Len(t) \in Nat
  BY LenProperties DEF Pieces
<1>2. J[0] = <<>> /\ \A i \in 1..Len(s) : J[i] = J[i - 1] \o s[i]
  BY <1>1, JoinedFollows
<1>3. K[0] = <<>> /\ \A i \in 1..Len(t) : K[i] = K[i - 1] \o t[i]
  BY <1>1, JoinedFollows
<1> HIDE DEF J, K
<1>4. 0 \in P
  BY <1>2, <1>3
<1>5. ASSUME NEW i \in 1..n, i - 1 \in P PROVE i \in P
  <2>1. i \in 1..Len(s) /\ i \in 1..Len(t) /\ i \in 0..n
    BY <1>1
  <2>2. J[i - 1] = K[i - 1] /\ s[i] = t[i]
    BY <1>5
  <2> QED
    BY <1>2, <1>3, <2>1, <2>2
<1> HIDE DEF P
<1>6. \A i \in 0..n : i \in P
  BY <1>4, <1>5, UpTo
<1> QED
  BY <1>6 DEF P, J, K

\* Texts are put together in any grouping.
LEMMA WordsGroup ==
  ASSUME NEW a \in Words, NEW b \in Words, NEW c \in Words
  PROVE  (a \o b) \o c = a \o (b \o c)
BY ConcatAssociative DEF Words

\* Nothing joins from one place to another where the texts between are empty.
LEMMA JoinedFlat ==
  ASSUME NEW s \in Pieces, NEW m \in 0..Len(s), NEW n \in 0..Len(s), m <= n,
         \A i \in 1..Len(s) : m < i /\ i <= n => s[i] = <<>>
  PROVE  JoinedTo(s)[n] = JoinedTo(s)[m]
<1> DEFINE J == JoinedTo(s)
           P == {i \in 0..Len(s) : m <= i /\ i <= n => J[i] = J[m]}
<1>1. Len(s) \in Nat
  BY LenProperties DEF Pieces
<1>2. J[0] = <<>> /\ \A i \in 1..Len(s) : J[i] = J[i - 1] \o s[i]
  BY <1>1, JoinedFollows
<1>3. \A i \in 0..Len(s) : J[i] \in Words
  BY JoinedTyped DEF Pieces, Words
<1> HIDE DEF J
<1>4. 0 \in P
  <2>1. m <= 0 => m = 0
    BY <1>1
  <2> QED
    BY <1>1, <2>1
<1>5. ASSUME NEW i \in 1..Len(s), i - 1 \in P PROVE i \in P
  <2>1. i \in 0..Len(s) /\ i - 1 \in 0..Len(s)
    BY <1>1
  <2>2. ASSUME m < i, i <= n PROVE J[i] = J[m]
    <3>1. m <= i - 1 /\ i - 1 <= n
      BY <1>1, <2>2
    <3>2. J[i - 1] = J[m] /\ s[i] = <<>>
      BY <1>5, <2>2, <3>1
    <3>3. J[i - 1] \o <<>> = J[i - 1]
      BY <1>3, <2>1, ConcatEmptySeq DEF Words
    <3> QED
      BY <1>2, <3>2, <3>3
  <2>3. m <= i => m < i \/ m = i
    BY <1>1
  <2> QED
    BY <2>1, <2>2, <2>3
<1> HIDE DEF P
<1>6. n \in P
  BY <1>1, <1>4, <1>5, UpTo
<1> QED
  BY <1>6 DEF P, J

\* Texts that agree are joined alike.
LEMMA JoinedEqual ==
  ASSUME NEW s \in Pieces, NEW t \in Pieces, Len(s) = Len(t),
         \A i \in 1..Len(s) : s[i] = t[i]
  PROVE  Joined(s) = Joined(t)
BY SeqEqual DEF Pieces

\* One more text is joined at the end.
LEMMA JoinedAppend ==
  ASSUME NEW s \in Pieces, NEW t \in Pieces, NEW x \in Words, Len(t) = Len(s) + 1,
         t[Len(s) + 1] = x, \A i \in 1..Len(s) : t[i] = s[i]
  PROVE  Joined(t) = Joined(s) \o x
<1>1. Len(s) \in Nat
  BY LenProperties DEF Pieces
<1>2. \A i \in 0..Len(s) : JoinedTo(s)[i] = JoinedTo(t)[i]
  BY <1>1, JoinedAlike
<1>3. JoinedTo(t)[Len(s) + 1] = JoinedTo(t)[(Len(s) + 1) - 1] \o t[Len(s) + 1]
  <2>1. Len(t) \in Nat /\ Len(s) + 1 \in 1..Len(t)
    BY <1>1
  <2>2. \A i \in 1..Len(t) : JoinedTo(t)[i] = JoinedTo(t)[i - 1] \o t[i]
    BY <2>1, JoinedFollows
  <2> QED
    BY <2>1, <2>2
<1>4. (Len(s) + 1) - 1 = Len(s) /\ Len(s) \in 0..Len(s)
  BY <1>1
<1> QED
  BY <1>1, <1>2, <1>3, <1>4 DEF Joined

\* The last text that is not empty can be put in front of something else.
LEMMA JoinedLast ==
  ASSUME NEW s \in Pieces, NEW k \in 1..Len(s), \A i \in 1..Len(s) : k < i => s[i] = <<>>
  PROVE  Joined(s) = JoinedTo(s)[k - 1] \o s[k]
<1>1. Len(s) \in Nat
  BY LenProperties DEF Pieces
<1>2. k \in 0..Len(s) /\ Len(s) \in 0..Len(s) /\ k <= Len(s)
  BY <1>1
<1>3. JoinedTo(s)[Len(s)] = JoinedTo(s)[k]
  BY <1>1, <1>2, JoinedFlat
<1>4. JoinedTo(s)[k] = JoinedTo(s)[k - 1] \o s[k]
  BY <1>1, JoinedFollows
<1> QED
  BY <1>3, <1>4 DEF Joined

\* The last text that is not empty, replaced.
LEMMA JoinedReplaced ==
  ASSUME NEW s \in Pieces, NEW t \in Pieces, NEW k \in 1..Len(s), Len(t) = Len(s),
         \A i \in 1..Len(s) : k < i => s[i] = <<>>,
         \A i \in 1..Len(s) : i # k => t[i] = s[i]
  PROVE  /\ Joined(s) = JoinedTo(s)[k - 1] \o s[k]
         /\ Joined(t) = JoinedTo(s)[k - 1] \o t[k]
         /\ JoinedTo(s)[k - 1] \in Words
<1>1. Len(s) \in Nat
  BY LenProperties DEF Pieces
<1>2. Joined(s) = JoinedTo(s)[k - 1] \o s[k]
  BY JoinedLast
<1>3. Joined(t) = JoinedTo(t)[k - 1] \o t[k]
  <2>1. \A i \in 1..Len(t) : k < i => t[i] = <<>>
    BY <1>1
  <2> QED
    BY <2>1, JoinedLast
<1>4. JoinedTo(s)[k - 1] = JoinedTo(t)[k - 1]
  <2>1. k - 1 \in Nat /\ k - 1 <= Len(s) /\ k - 1 <= Len(t) /\ k - 1 \in 0 .. k - 1
    BY <1>1
  <2>2. \A i \in 1 .. k - 1 : s[i] = t[i]
    BY <1>1
  <2>3. \A i \in 0 .. k - 1 : JoinedTo(s)[i] = JoinedTo(t)[i]
    BY <2>1, <2>2, JoinedAlike
  <2> QED
    BY <2>1, <2>3
<1>5. JoinedTo(s)[k - 1] \in Words
  <2>1. k - 1 \in 0 .. Len(s)
    BY <1>1
  <2> QED
    BY <2>1, JoinedTyped DEF Pieces, Words
<1> QED
  BY <1>2, <1>3, <1>4, <1>5

\* The last text that is not empty, longer by x.
LEMMA JoinedGrown ==
  ASSUME NEW s \in Pieces, NEW t \in Pieces, NEW k \in 1..Len(s), NEW x \in Words,
         Len(t) = Len(s), t[k] = s[k] \o x,
         \A i \in 1..Len(s) : k < i => s[i] = <<>>,
         \A i \in 1..Len(s) : i # k => t[i] = s[i]
  PROVE  Joined(t) = Joined(s) \o x
<1>1. /\ Joined(s) = JoinedTo(s)[k - 1] \o s[k]
      /\ Joined(t) = JoinedTo(s)[k - 1] \o t[k]
      /\ JoinedTo(s)[k - 1] \in Words
  BY JoinedReplaced
<1>2. s[k] \in Words
  BY ElementOfSeq DEF Pieces
<1>3. (JoinedTo(s)[k - 1] \o s[k]) \o x = JoinedTo(s)[k - 1] \o (s[k] \o x)
  BY <1>1, <1>2, WordsGroup
<1> QED
  BY <1>1, <1>3

-----------------------------------------------------------------------------
(* What is shown, and what was said. *)

\* The values of the screen and of what was said.
Passage == [kind : {"assistant", "thinking"}, text : Words, done : BOOLEAN, gone : BOOLEAN, turn : Nat]
MaybeBlock == Nat \cup {None}
Segment == [block : MaybeBlock, text : Words]
Streams == [current : MaybeBlock, part : TextPart \cup {None}, text : Words, segments : [TextPart -> Segment]]
Thoughts == [current : MaybeBlock, part : ThoughtPart \cup {None}, views : [ThoughtPart -> MaybeBlock]]
Screens == [passages : Seq(Passage), stream : Streams, thinking : Thoughts]
Entry == [kind : {"assistant", "thinking", "tool", "gone"}, part : AnyPart \cup {None}, text : Words]

Speech == {"assistant", "thinking"}

\* A block is in the text of this kind and turn.
Shows(x, kind, turn) == x.kind = kind /\ x.turn = turn /\ ~x.gone

View(b, kind, turn) == Joined(ShownTexts(b, kind, turn))
SaidText(said, kind) == Joined(TextsOf(said, kind))

\* Block c is the last one of its kind, and shown.
LastOf(b, kind, c, turn) ==
  /\ c \in 1..Len(b) /\ Shows(b[c], kind, turn)
  /\ \A i \in 1..Len(b) : b[i].kind = kind => i <= c

\* What a screen is made of.
LEMMA ScreenFacts ==
  ASSUME NEW at \in Screens
  PROVE  /\ at.passages \in Seq(Passage) /\ at.stream \in Streams /\ at.thinking \in Thoughts
         /\ Len(at.passages) \in Nat /\ DOMAIN at.passages = 1..Len(at.passages)
         /\ \A i \in 1..Len(at.passages) : at.passages[i] \in Passage
         /\ at.stream.current \in MaybeBlock /\ at.stream.part \in TextPart \cup {None}
         /\ at.stream.text \in Words /\ at.stream.segments \in [TextPart -> Segment]
         /\ at.thinking.current \in MaybeBlock /\ at.thinking.part \in ThoughtPart \cup {None}
         /\ at.thinking.views \in [ThoughtPart -> MaybeBlock]
<1>1. at.passages \in Seq(Passage) /\ at.stream \in Streams /\ at.thinking \in Thoughts
  BY DEF Screens
<1>2. /\ Len(at.passages) \in Nat /\ DOMAIN at.passages = 1..Len(at.passages)
      /\ \A i \in 1..Len(at.passages) : at.passages[i] \in Passage
  BY <1>1, LenProperties, ElementOfSeq
<1>3. /\ at.stream.current \in MaybeBlock /\ at.stream.part \in TextPart \cup {None}
      /\ at.stream.text \in Words /\ at.stream.segments \in [TextPart -> Segment]
  BY <1>1 DEF Streams
<1>4. /\ at.thinking.current \in MaybeBlock /\ at.thinking.part \in ThoughtPart \cup {None}
      /\ at.thinking.views \in [ThoughtPart -> MaybeBlock]
  BY <1>1 DEF Thoughts
<1> QED
  BY <1>1, <1>2, <1>3, <1>4

\* A screen is its three parts.
LEMMA ScreenOf ==
  ASSUME NEW b \in Seq(Passage), NEW s \in Streams, NEW th \in Thoughts
  PROVE  /\ Screen(b, s, th) \in Screens
         /\ Screen(b, s, th).passages = b /\ Screen(b, s, th).stream = s
         /\ Screen(b, s, th).thinking = th
BY DEF Screen, Screens

\* A function over 1..n is a sequence of that length.
LEMMA FunctionIsSeq ==
  ASSUME NEW S, NEW n \in Nat, NEW f \in [1..n -> S]
  PROVE  f \in Seq(S) /\ Len(f) = n /\ DOMAIN f = 1..n
<1>1. f \in Seq(S)
  BY SeqDef
<1> QED
  BY <1>1, LenProperties

\* The texts shown of a kind.
LEMMA ShownFacts ==
  ASSUME NEW b \in Seq(Passage), NEW kind, NEW turn
  PROVE  /\ ShownTexts(b, kind, turn) \in Pieces
         /\ Len(ShownTexts(b, kind, turn)) = Len(b) /\ Len(b) \in Nat
         /\ \A i \in 1..Len(b) :
              ShownTexts(b, kind, turn)[i] = IF Shows(b[i], kind, turn) THEN b[i].text ELSE <<>>
         /\ View(b, kind, turn) \in Words
<1> DEFINE f == ShownTexts(b, kind, turn)
<1>1. Len(b) \in Nat /\ DOMAIN b = 1..Len(b) /\ \A i \in 1..Len(b) : b[i] \in Passage
  BY LenProperties, ElementOfSeq
<1>2. f = [i \in 1..Len(b) |-> IF Shows(b[i], kind, turn) THEN b[i].text ELSE <<>>]
  BY <1>1 DEF ShownTexts, Shows
<1>3. <<>> \in Words /\ \A i \in 1..Len(b) : b[i].text \in Words
  BY <1>1, EmptySeq DEF Passage, Words
<1> HIDE DEF f
<1>4. f \in [1..Len(b) -> Words]
  BY <1>2, <1>3
<1>5. f \in Seq(Words) /\ Len(f) = Len(b)
  BY <1>1, <1>4, FunctionIsSeq
<1>6. Joined(f) \in Words
  BY <1>5, JoinedTyped DEF Words
<1>7. \A i \in 1..Len(b) : f[i] = IF Shows(b[i], kind, turn) THEN b[i].text ELSE <<>>
  BY <1>2
<1> QED
  BY <1>1, <1>5, <1>6, <1>7 DEF f, Pieces, View

\* The texts said of a kind.
LEMMA SaidFacts ==
  ASSUME NEW said \in Seq(Entry), NEW kind
  PROVE  /\ TextsOf(said, kind) \in Pieces
         /\ Len(TextsOf(said, kind)) = Len(said) /\ Len(said) \in Nat
         /\ \A i \in 1..Len(said) :
              TextsOf(said, kind)[i] = IF said[i].kind = kind THEN said[i].text ELSE <<>>
         /\ SaidText(said, kind) \in Words
<1> DEFINE f == TextsOf(said, kind)
<1>1. Len(said) \in Nat /\ DOMAIN said = 1..Len(said) /\ \A i \in 1..Len(said) : said[i] \in Entry
  BY LenProperties, ElementOfSeq
<1>2. f = [i \in 1..Len(said) |-> IF said[i].kind = kind THEN said[i].text ELSE <<>>]
  BY <1>1 DEF TextsOf
<1>3. <<>> \in Words /\ \A i \in 1..Len(said) : said[i].text \in Words
  BY <1>1, EmptySeq DEF Entry, Words
<1> HIDE DEF f
<1>4. f \in [1..Len(said) -> Words]
  BY <1>2, <1>3
<1>5. f \in Seq(Words) /\ Len(f) = Len(said)
  BY <1>1, <1>4, FunctionIsSeq
<1>6. Joined(f) \in Words
  BY <1>5, JoinedTyped DEF Words
<1>7. \A i \in 1..Len(said) : f[i] = IF said[i].kind = kind THEN said[i].text ELSE <<>>
  BY <1>2
<1> QED
  BY <1>1, <1>5, <1>6, <1>7 DEF f, Pieces, SaidText

\* Nothing is shown on an empty screen.
LEMMA ViewOfNothing ==
  ASSUME NEW kind, NEW turn
  PROVE  View(<<>>, kind, turn) = <<>> /\ SaidText(<<>>, kind) = <<>>
<1>1. ASSUME NEW f, Len(f) = 0 PROVE Joined(f) = <<>>
  <2>1. Len(f) \in Nat
    BY <1>1
  <2>2. JoinedTo(f)[0] = <<>>
    BY <2>1, JoinedFollows, Zenon
  <2> QED
    BY <1>1, <2>2 DEF Joined
<1>2. <<>> \in Seq(Passage) /\ <<>> \in Seq(Entry) /\ Len(<<>>) = 0
  BY EmptySeq
<1>3. Len(ShownTexts(<<>>, kind, turn)) = 0
  BY <1>2, ShownFacts
<1>4. Len(TextsOf(<<>>, kind)) = 0
  BY <1>2, SaidFacts
<1> QED
  BY <1>1, <1>3, <1>4 DEF View, SaidText

\* A view follows what its blocks have in common: their kind, text and turn,
\* and whether they are gone.
LookAlike(b, c) ==
  /\ Len(c) = Len(b)
  /\ \A i \in 1..Len(b) : /\ c[i].kind = b[i].kind /\ c[i].text = b[i].text
                          /\ c[i].turn = b[i].turn /\ (c[i].gone <=> b[i].gone)

\* Blocks that look alike show the same.
LEMMA ViewAlike ==
  ASSUME NEW b \in Seq(Passage), NEW c \in Seq(Passage), LookAlike(b, c), NEW kind, NEW turn
  PROVE  View(c, kind, turn) = View(b, kind, turn)
<1> DEFINE f == ShownTexts(b, kind, turn)
           g == ShownTexts(c, kind, turn)
<1>1. f \in Pieces /\ Len(f) = Len(b)
      /\ \A i \in 1..Len(b) : f[i] = IF Shows(b[i], kind, turn) THEN b[i].text ELSE <<>>
  BY ShownFacts
<1>2. g \in Pieces /\ Len(g) = Len(c)
      /\ \A i \in 1..Len(c) : g[i] = IF Shows(c[i], kind, turn) THEN c[i].text ELSE <<>>
  BY ShownFacts
<1> HIDE DEF f, g
<1>3. Len(g) = Len(f) /\ \A i \in 1..Len(f) : g[i] = f[i]
  BY <1>1, <1>2 DEF LookAlike, Shows
<1> QED
  BY <1>1, <1>2, <1>3, JoinedEqual DEF View, f, g

\* A block at the end,
OneBehind(b, c) ==
  /\ b \in Seq(Passage) /\ c \in Seq(Passage)
  /\ Len(c) = Len(b) + 1 /\ \A i \in 1..Len(b) : c[i] = b[i]

LEMMA ViewAppended ==
  ASSUME NEW b, NEW c, OneBehind(b, c), NEW kind, NEW turn
  PROVE  View(c, kind, turn)
           = View(b, kind, turn) \o (IF Shows(c[Len(b) + 1], kind, turn) THEN c[Len(b) + 1].text ELSE <<>>)
<1> DEFINE f == ShownTexts(b, kind, turn)
           g == ShownTexts(c, kind, turn)
           x == IF Shows(c[Len(b) + 1], kind, turn) THEN c[Len(b) + 1].text ELSE <<>>
<1>0. /\ b \in Seq(Passage) /\ c \in Seq(Passage)
      /\ Len(c) = Len(b) + 1 /\ \A i \in 1..Len(b) : c[i] = b[i]
  BY DEF OneBehind
<1>1. f \in Pieces /\ Len(f) = Len(b) /\ Len(b) \in Nat
      /\ \A i \in 1..Len(b) : f[i] = IF Shows(b[i], kind, turn) THEN b[i].text ELSE <<>>
  BY <1>0, ShownFacts
<1>2. g \in Pieces /\ Len(g) = Len(c)
      /\ \A i \in 1..Len(c) : g[i] = IF Shows(c[i], kind, turn) THEN c[i].text ELSE <<>>
  BY <1>0, ShownFacts
<1>3. g[Len(b) + 1] = x
  BY <1>0, <1>1, <1>2
<1>4. x \in Words
  <2>1. Len(b) + 1 \in 1..Len(g)
    BY <1>0, <1>1, <1>2
  <2> QED
    BY <1>2, <1>3, <2>1, ElementOfSeq DEF Pieces
<1> HIDE DEF f, g, x
<1>5. Len(g) = Len(f) + 1 /\ g[Len(f) + 1] = x /\ \A i \in 1..Len(f) : g[i] = f[i]
  BY <1>0, <1>1, <1>2, <1>3
<1>6. Joined(g) = Joined(f) \o x
  BY <1>1, <1>2, <1>4, <1>5, JoinedAppend
<1> QED
  BY <1>6 DEF View, f, g, x

\* the last block of its kind with more text,
GrownBy(b, c, kind, turn, k, x) ==
  /\ Len(c) = Len(b) /\ LastOf(b, kind, k, turn)
  /\ \A i \in 1..Len(b) : i # k => c[i] = b[i]
  /\ Shows(c[k], kind, turn) /\ c[k].text = b[k].text \o x

\* so that the view has more text too;
LEMMA ViewGrown ==
  ASSUME NEW b \in Seq(Passage), NEW c \in Seq(Passage), NEW kind, NEW turn, NEW k,
         NEW x \in Words, GrownBy(b, c, kind, turn, k, x)
  PROVE  /\ View(c, kind, turn) = View(b, kind, turn) \o x
         /\ \A other : other # kind => View(c, other, turn) = View(b, other, turn)
<1>0. /\ Len(b) \in Nat /\ k \in 1..Len(b) /\ Shows(b[k], kind, turn)
      /\ \A i \in 1..Len(b) : b[i].kind = kind => i <= k
      /\ Len(c) = Len(b) /\ Shows(c[k], kind, turn) /\ c[k].text = b[k].text \o x
      /\ \A i \in 1..Len(b) : i # k => c[i] = b[i]
  BY LenProperties DEF LastOf, GrownBy
<1>1. View(c, kind, turn) = View(b, kind, turn) \o x
  <2> DEFINE f == ShownTexts(b, kind, turn)
             g == ShownTexts(c, kind, turn)
  <2>1. f \in Pieces /\ Len(f) = Len(b)
        /\ \A i \in 1..Len(b) : f[i] = IF Shows(b[i], kind, turn) THEN b[i].text ELSE <<>>
    BY ShownFacts
  <2>2. g \in Pieces /\ Len(g) = Len(b)
        /\ \A i \in 1..Len(b) : g[i] = IF Shows(c[i], kind, turn) THEN c[i].text ELSE <<>>
    BY <1>0, ShownFacts
  <2> HIDE DEF f, g
  <2>3. k \in 1..Len(f) /\ Len(g) = Len(f) /\ g[k] = f[k] \o x
    BY <1>0, <2>1, <2>2
  <2>4. \A i \in 1..Len(f) : i # k => g[i] = f[i]
    BY <1>0, <2>1, <2>2
  <2>5. \A i \in 1..Len(f) : k < i => f[i] = <<>>
    BY <1>0, <2>1 DEF Shows
  <2>6. Joined(g) = Joined(f) \o x
    BY <2>1, <2>2, <2>3, <2>4, <2>5, JoinedGrown
  <2> QED
    BY <2>6 DEF View, f, g
<1>2. ASSUME NEW other, other # kind PROVE View(c, other, turn) = View(b, other, turn)
  <2> DEFINE f == ShownTexts(b, other, turn)
             g == ShownTexts(c, other, turn)
  <2>1. f \in Pieces /\ Len(f) = Len(b)
        /\ \A i \in 1..Len(b) : f[i] = IF Shows(b[i], other, turn) THEN b[i].text ELSE <<>>
    BY ShownFacts
  <2>2. g \in Pieces /\ Len(g) = Len(b)
        /\ \A i \in 1..Len(b) : g[i] = IF Shows(c[i], other, turn) THEN c[i].text ELSE <<>>
    BY <1>0, ShownFacts
  <2> HIDE DEF f, g
  <2>3. ~Shows(b[k], other, turn) /\ ~Shows(c[k], other, turn)
    BY <1>0, <1>2 DEF Shows
  <2>4. Len(g) = Len(f) /\ \A i \in 1..Len(f) : g[i] = f[i]
    BY <1>0, <2>1, <2>2, <2>3
  <2> QED
    BY <2>1, <2>2, <2>4, JoinedEqual DEF View, f, g
<1> QED
  BY <1>1, <1>2

\* and the same for what was said: an entry at the end,
LEMMA SaidAppended ==
  ASSUME NEW s \in Seq(Entry), NEW e \in Entry, NEW kind
  PROVE  /\ Append(s, e) \in Seq(Entry)
         /\ SaidText(Append(s, e), kind) = SaidText(s, kind) \o (IF e.kind = kind THEN e.text ELSE <<>>)
<1> DEFINE f == TextsOf(s, kind)
           t == Append(s, e)
           g == TextsOf(t, kind)
           x == IF e.kind = kind THEN e.text ELSE <<>>
<1>0. t \in Seq(Entry) /\ Len(t) = Len(s) + 1 /\ t[Len(s) + 1] = e /\ \A i \in 1..Len(s) : t[i] = s[i]
  BY AppendProperties
<1> HIDE DEF t
<1>1. f \in Pieces /\ Len(f) = Len(s) /\ Len(s) \in Nat
      /\ \A i \in 1..Len(s) : f[i] = IF s[i].kind = kind THEN s[i].text ELSE <<>>
  BY SaidFacts
<1>2. g \in Pieces /\ Len(g) = Len(t)
      /\ \A i \in 1..Len(t) : g[i] = IF t[i].kind = kind THEN t[i].text ELSE <<>>
  BY <1>0, SaidFacts
<1>3. g[Len(s) + 1] = x
  BY <1>0, <1>1, <1>2
<1>4. x \in Words
  BY EmptySeq DEF Entry, Words
<1> HIDE DEF f, g, x
<1>5. Len(g) = Len(f) + 1 /\ g[Len(f) + 1] = x /\ \A i \in 1..Len(f) : g[i] = f[i]
  BY <1>0, <1>1, <1>2, <1>3
<1>6. Joined(g) = Joined(f) \o x
  BY <1>1, <1>2, <1>4, <1>5, JoinedAppend
<1> QED
  BY <1>0, <1>6 DEF SaidText, f, g, x, t

\* and the last entry of its kind with another text.
ReplacedAt(s, t, kind, k) ==
  /\ Len(t) = Len(s) /\ k \in 1..Len(s) /\ s[k].kind = kind /\ t[k].kind = kind
  /\ \A i \in 1..Len(s) : i # k => t[i] = s[i]
  /\ \A i \in 1..Len(s) : s[i].kind = kind => i <= k

FrontOf(s, kind, k) == JoinedTo(TextsOf(s, kind))[k - 1]

\* What was said then has another end.
LEMMA SaidReplaced ==
  ASSUME NEW s \in Seq(Entry), NEW t \in Seq(Entry), NEW kind, NEW k, ReplacedAt(s, t, kind, k)
  PROVE  /\ FrontOf(s, kind, k) \in Words
         /\ SaidText(s, kind) = FrontOf(s, kind, k) \o s[k].text
         /\ SaidText(t, kind) = FrontOf(s, kind, k) \o t[k].text
<1> DEFINE f == TextsOf(s, kind)
           g == TextsOf(t, kind)
<1>0. /\ Len(t) = Len(s) /\ k \in 1..Len(s) /\ s[k].kind = kind /\ t[k].kind = kind
      /\ \A i \in 1..Len(s) : i # k => t[i] = s[i]
      /\ \A i \in 1..Len(s) : s[i].kind = kind => i <= k
  BY DEF ReplacedAt
<1>1. f \in Pieces /\ Len(f) = Len(s) /\ Len(s) \in Nat
      /\ \A i \in 1..Len(s) : f[i] = IF s[i].kind = kind THEN s[i].text ELSE <<>>
  BY SaidFacts
<1>2. g \in Pieces /\ Len(g) = Len(t)
      /\ \A i \in 1..Len(t) : g[i] = IF t[i].kind = kind THEN t[i].text ELSE <<>>
  BY SaidFacts
<1> HIDE DEF f, g
<1>3. k \in 1..Len(f) /\ Len(g) = Len(f) /\ f[k] = s[k].text /\ g[k] = t[k].text
  BY <1>0, <1>1, <1>2
<1>4. \A i \in 1..Len(f) : i # k => g[i] = f[i]
  BY <1>0, <1>1, <1>2
<1>5. \A i \in 1..Len(f) : k < i => f[i] = <<>>
  BY <1>0, <1>1
<1>6. /\ Joined(f) = JoinedTo(f)[k - 1] \o f[k] /\ Joined(g) = JoinedTo(f)[k - 1] \o g[k]
      /\ JoinedTo(f)[k - 1] \in Words
  BY <1>1, <1>2, <1>3, <1>4, <1>5, JoinedReplaced
<1> QED
  BY <1>3, <1>6 DEF SaidText, FrontOf, f, g

\* Entries of one kind leave what was said of another.
LEMMA SaidElsewhere ==
  ASSUME NEW s \in Seq(Entry), NEW t \in Seq(Entry), Len(t) = Len(s), NEW kind,
         \A i \in 1..Len(s) : t[i] = s[i] \/ (s[i].kind # kind /\ t[i].kind # kind)
  PROVE  SaidText(t, kind) = SaidText(s, kind)
<1> DEFINE f == TextsOf(s, kind)
           g == TextsOf(t, kind)
<1>1. f \in Pieces /\ Len(f) = Len(s)
      /\ \A i \in 1..Len(s) : f[i] = IF s[i].kind = kind THEN s[i].text ELSE <<>>
  BY SaidFacts
<1>2. g \in Pieces /\ Len(g) = Len(t)
      /\ \A i \in 1..Len(t) : g[i] = IF t[i].kind = kind THEN t[i].text ELSE <<>>
  BY SaidFacts
<1> HIDE DEF f, g
<1>3. Len(g) = Len(f) /\ \A i \in 1..Len(f) : g[i] = f[i]
  BY <1>1, <1>2
<1> QED
  BY <1>1, <1>2, <1>3, JoinedEqual DEF SaidText, f, g

-----------------------------------------------------------------------------
(* The operations of the screen, field by field. *)

\* A new block is the last one, and empty.
LEMMA BlockAdded ==
  ASSUME NEW at \in Screens, NEW kind \in Speech, turnsBegun \in Nat
  PROVE  LET new == AddTextBlock(at, kind)
             n == Len(at.passages)
         IN  /\ new \in Screens /\ new.stream = at.stream /\ new.thinking = at.thinking
             /\ Len(new.passages) = n + 1 /\ \A i \in 1..n : new.passages[i] = at.passages[i]
             /\ new.passages[n + 1].kind = kind /\ new.passages[n + 1].text = <<>>
             /\ ~new.passages[n + 1].gone /\ ~new.passages[n + 1].done
             /\ new.passages[n + 1].turn = turnsBegun
<1> DEFINE x == TextBlock(kind)
           b == Append(at.passages, x)
           new == AddTextBlock(at, kind)
<1>1. x \in Passage /\ x.kind = kind /\ x.text = <<>> /\ ~x.gone /\ ~x.done /\ x.turn = turnsBegun
  BY EmptySeq DEF TextBlock, Passage, Speech, Words
<1>2. at.passages \in Seq(Passage) /\ at.stream \in Streams /\ at.thinking \in Thoughts
      /\ Len(at.passages) \in Nat
  BY ScreenFacts
<1> HIDE DEF x
<1>3. /\ b \in Seq(Passage) /\ Len(b) = Len(at.passages) + 1 /\ b[Len(at.passages) + 1] = x
      /\ \A i \in 1..Len(at.passages) : b[i] = at.passages[i]
  BY <1>1, <1>2, AppendProperties
<1>4. new = [at EXCEPT !.passages = b]
  BY DEF AddTextBlock, x
<1> HIDE DEF b
<1>5. new \in Screens /\ new.passages = b /\ new.stream = at.stream /\ new.thinking = at.thinking
  BY <1>2, <1>3, <1>4 DEF Screens
<1> HIDE DEF new
<1> QED
  BY <1>1, <1>3, <1>5 DEF new

\* A block gets more text.
LEMMA TextAdded ==
  ASSUME NEW at \in Screens, NEW k \in 1..Len(at.passages), NEW text \in Words
  PROVE  LET new == AddText(at, k, text)
         IN  /\ new \in Screens /\ new.stream = at.stream /\ new.thinking = at.thinking
             /\ Len(new.passages) = Len(at.passages)
             /\ \A i \in 1..Len(at.passages) : i # k => new.passages[i] = at.passages[i]
             /\ new.passages[k].kind = at.passages[k].kind
             /\ new.passages[k].text = at.passages[k].text \o text
             /\ new.passages[k].gone = at.passages[k].gone /\ ~new.passages[k].done
             /\ new.passages[k].turn = at.passages[k].turn
<1> DEFINE x == at.passages[k]
           y == [x EXCEPT !.text = @ \o text, !.done = FALSE]
           b == [at.passages EXCEPT ![k] = y]
           new == AddText(at, k, text)
<1>1. at.passages \in Seq(Passage) /\ at.stream \in Streams /\ at.thinking \in Thoughts /\ x \in Passage
  BY ScreenFacts
<1>2. x.text \o text \in Words
  BY <1>1, ConcatProperties DEF Passage, Words
<1>3. y \in Passage /\ y.kind = x.kind /\ y.text = x.text \o text /\ y.gone = x.gone /\ ~y.done
      /\ y.turn = x.turn
  <2> HIDE DEF x
  <2> QED
    BY <1>1, <1>2 DEF Passage
<1>4. new = [at EXCEPT !.passages = b]
  BY DEF AddText
<1> HIDE DEF y
<1>5. /\ b \in Seq(Passage) /\ Len(b) = Len(at.passages)
      /\ \A i \in 1..Len(at.passages) : b[i] = IF i = k THEN y ELSE at.passages[i]
  BY <1>1, <1>3, ExceptSeq
<1> HIDE DEF b
<1>6. new \in Screens /\ new.passages = b /\ new.stream = at.stream /\ new.thinking = at.thinking
  BY <1>1, <1>4, <1>5 DEF Screens
<1> HIDE DEF new, x
<1> QED
  BY <1>3, <1>5, <1>6 DEF new, x

\* The block the stream or the thinking stands at is in the transcript.
StandsWell(at) ==
  /\ at.stream.current # None => at.stream.current \in 1..Len(at.passages)
  /\ at.thinking.current # None => at.thinking.current \in 1..Len(at.passages)

\* The blocks of before are as they were; the thoughts, exactly.
ThoughtsKept(at, new) ==
  /\ Len(at.passages) <= Len(new.passages)
  /\ \A i \in 1..Len(new.passages) :
       new.passages[i].kind = "thinking" => i <= Len(at.passages) /\ new.passages[i] = at.passages[i]
  /\ \A i \in 1..Len(at.passages) :
       at.passages[i].kind = "thinking" => new.passages[i] = at.passages[i]

\* A plain delta is shown behind all the text of the turn.
LEMMA PlainAppended ==
  ASSUME NEW at \in Screens, turnsBegun \in Nat, NEW text \in Words, StandsWell(at),
         at.stream.current # None /\ at.stream.part = None =>
           LastOf(at.passages, "assistant", at.stream.current, turnsBegun),
         \A i \in 1..Len(at.passages) : at.passages[i].turn <= turnsBegun
  PROVE  LET new == AppendPlain(at, text)
         IN  /\ new \in Screens /\ StandsWell(new) /\ new.thinking = at.thinking
             /\ View(new.passages, "assistant", turnsBegun)
                  = View(at.passages, "assistant", turnsBegun) \o text
             /\ View(new.passages, "thinking", turnsBegun) = View(at.passages, "thinking", turnsBegun)
             /\ new.stream.text = at.stream.text \o text
             /\ new.stream.current # None /\ new.stream.part = None
             /\ LastOf(new.passages, "assistant", new.stream.current, turnsBegun)
             /\ \A i \in 1..Len(new.passages) : new.passages[i].turn <= turnsBegun
             /\ ThoughtsKept(at, new)
<1> DEFINE fresh == at.stream.current = None \/ at.stream.part # None
           mid == IF fresh THEN AddTextBlock(at, "assistant") ELSE at
           k == IF fresh THEN Len(mid.passages) ELSE at.stream.current
           more == AddText(mid, k, text)
           new == AppendPlain(at, text)
           View0 == View(at.passages, "assistant", turnsBegun)
<1>a. Len(at.passages) \in Nat /\ at.passages \in Seq(Passage)
  BY ScreenFacts
<1>1. /\ mid \in Screens /\ mid.stream = at.stream /\ mid.thinking = at.thinking
      /\ LastOf(mid.passages, "assistant", k, turnsBegun)
      /\ View(mid.passages, "assistant", turnsBegun) = View0
      /\ View(mid.passages, "thinking", turnsBegun) = View(at.passages, "thinking", turnsBegun)
      /\ \A i \in 1..Len(mid.passages) : mid.passages[i].turn <= turnsBegun
      /\ ThoughtsKept(at, mid)
  <2>1. CASE fresh
    <3> DEFINE add == AddTextBlock(at, "assistant")
               n == Len(at.passages)
    <3>1. mid = add /\ k = Len(add.passages)
      BY <2>1
    <3>2. /\ add \in Screens /\ add.stream = at.stream /\ add.thinking = at.thinking
          /\ Len(add.passages) = n + 1 /\ \A i \in 1..n : add.passages[i] = at.passages[i]
          /\ add.passages[n + 1].kind = "assistant" /\ add.passages[n + 1].text = <<>>
          /\ ~add.passages[n + 1].gone /\ add.passages[n + 1].turn = turnsBegun
      BY BlockAdded DEF Speech
    <3> HIDE DEF add
    <3>3. add.passages \in Seq(Passage)
      BY <3>2, ScreenFacts
    <3>4. \A kind : View(add.passages, kind, turnsBegun) = View(at.passages, kind, turnsBegun)
      <4> SUFFICES ASSUME NEW kind
                   PROVE  View(add.passages, kind, turnsBegun) = View(at.passages, kind, turnsBegun)
        OBVIOUS
      <4>1. View(add.passages, kind, turnsBegun)
              = View(at.passages, kind, turnsBegun)
                  \o (IF Shows(add.passages[n + 1], kind, turnsBegun) THEN add.passages[n + 1].text ELSE <<>>)
        <5> DEFINE b == at.passages
                   c == add.passages
        <5>1. OneBehind(b, c)
          BY <1>a, <3>2, <3>3 DEF OneBehind
        <5> HIDE DEF b, c
        <5>2. View(c, kind, turnsBegun)
                = View(b, kind, turnsBegun)
                    \o (IF Shows(c[Len(b) + 1], kind, turnsBegun) THEN c[Len(b) + 1].text ELSE <<>>)
          BY <5>1, ViewAppended
        <5> QED
          BY <5>2 DEF b, c
      <4>2. View(at.passages, kind, turnsBegun) \o <<>> = View(at.passages, kind, turnsBegun)
        BY <1>a, ShownFacts, ConcatEmptySeq DEF Words
      <4> QED
        BY <3>2, <4>1, <4>2
    <3>5. LastOf(add.passages, "assistant", n + 1, turnsBegun)
      BY <1>a, <3>2 DEF LastOf, Shows
    <3>6. \A i \in 1..Len(add.passages) : add.passages[i].turn <= turnsBegun
      <4>1. ASSUME NEW i \in 1..Len(add.passages) PROVE add.passages[i].turn <= turnsBegun
        <5>1. i \in 1..n \/ i = n + 1
          BY <1>a, <3>2
        <5>2. CASE i \in 1..n
          BY <3>2, <5>2
        <5>3. CASE i = n + 1
          BY <3>2, <5>3
        <5> QED
          BY <5>1, <5>2, <5>3
      <4> QED
        BY <4>1
    <3>7. ThoughtsKept(at, add)
      BY <1>a, <3>2 DEF ThoughtsKept
    <3> QED
      BY <3>1, <3>2, <3>4, <3>5, <3>6, <3>7
  <2>2. CASE ~fresh
    BY <1>a, <2>2 DEF ThoughtsKept
  <2> QED
    BY <2>1, <2>2
<1> HIDE DEF mid, k
<1>2. k \in 1..Len(mid.passages) /\ Shows(mid.passages[k], "assistant", turnsBegun)
  BY <1>1 DEF LastOf
<1>3. /\ more \in Screens /\ more.stream = mid.stream /\ more.thinking = mid.thinking
      /\ Len(more.passages) = Len(mid.passages)
      /\ \A i \in 1..Len(mid.passages) : i # k => more.passages[i] = mid.passages[i]
      /\ more.passages[k].kind = mid.passages[k].kind
      /\ more.passages[k].text = mid.passages[k].text \o text
      /\ more.passages[k].gone = mid.passages[k].gone
      /\ more.passages[k].turn = mid.passages[k].turn
  BY <1>1, <1>2, TextAdded
<1> HIDE DEF more
<1>4. Shows(more.passages[k], "assistant", turnsBegun)
  BY <1>2, <1>3 DEF Shows
<1>5. mid.passages \in Seq(Passage) /\ more.passages \in Seq(Passage)
  BY <1>1, <1>3, ScreenFacts
<1>6. /\ View(more.passages, "assistant", turnsBegun) = View0 \o text
      /\ View(more.passages, "thinking", turnsBegun) = View(at.passages, "thinking", turnsBegun)
  <2>1. /\ View(more.passages, "assistant", turnsBegun) = View(mid.passages, "assistant", turnsBegun) \o text
        /\ \A other : other # "assistant" =>
             View(more.passages, other, turnsBegun) = View(mid.passages, other, turnsBegun)
    <3> DEFINE b == mid.passages
               c == more.passages
    <3>1. b \in Seq(Passage) /\ c \in Seq(Passage) /\ GrownBy(b, c, "assistant", turnsBegun, k, text)
      BY <1>1, <1>3, <1>4, <1>5 DEF GrownBy
    <3> HIDE DEF b, c
    <3>2. /\ View(c, "assistant", turnsBegun) = View(b, "assistant", turnsBegun) \o text
          /\ \A other : other # "assistant" => View(c, other, turnsBegun) = View(b, other, turnsBegun)
      BY <3>1, ViewGrown
    <3> QED
      BY <3>2 DEF b, c
  <2> QED
    BY <1>1, <2>1
<1>7. LastOf(more.passages, "assistant", k, turnsBegun)
  BY <1>1, <1>2, <1>3, <1>4 DEF LastOf
<1>8. \A i \in 1..Len(more.passages) : more.passages[i].turn <= turnsBegun
  BY <1>1, <1>3
<1>9. ThoughtsKept(at, more)
  <2>1. mid.passages[k].kind = "assistant" /\ more.passages[k].kind = "assistant"
    BY <1>2, <1>3 DEF Shows
  <2>2. Len(at.passages) <= Len(more.passages)
    BY <1>1, <1>3 DEF ThoughtsKept
  <2>3. ASSUME NEW i \in 1..Len(more.passages), more.passages[i].kind = "thinking"
        PROVE  i <= Len(at.passages) /\ more.passages[i] = at.passages[i]
    <3>1. i # k /\ i \in 1..Len(mid.passages)
      BY <1>3, <2>1, <2>3
    <3>2. more.passages[i] = mid.passages[i]
      BY <1>3, <3>1
    <3> QED
      BY <1>1, <2>3, <3>1, <3>2 DEF ThoughtsKept
  <2>4. ASSUME NEW i \in 1..Len(at.passages), at.passages[i].kind = "thinking"
        PROVE  more.passages[i] = at.passages[i]
    <3>1. mid.passages[i] = at.passages[i]
      BY <1>1, <2>4 DEF ThoughtsKept
    <3>2. i \in 1..Len(mid.passages) /\ i # k
      <4>1. Len(mid.passages) \in Nat
        BY <1>5, LenProperties
      <4> QED
        BY <1>a, <1>3, <2>1, <2>2, <2>4, <3>1, <4>1
    <3> QED
      BY <1>3, <3>1, <3>2
  <2> QED
    BY <2>2, <2>3, <2>4 DEF ThoughtsKept
<1>10. new = [more EXCEPT !.stream.current = k, !.stream.part = None, !.stream.text = @ \o text]
  BY DEF AppendPlain, more, mid, k
<1>11. /\ more.stream.text \o text \in Words /\ k \in Nat /\ k # None
  <2>1. k \in Nat
    BY <1>2, <1>5, LenProperties
  <2>2. more.stream.text \in Words
    BY <1>3, ScreenFacts
  <2> QED
    BY <2>1, <2>2, ConcatProperties, TextAssumption DEF Words
<1>12. /\ new \in Screens /\ new.passages = more.passages /\ new.thinking = more.thinking
       /\ new.stream.current = k /\ new.stream.part = None
       /\ new.stream.text = more.stream.text \o text
  <2> DEFINE str == [more.stream EXCEPT !.current = k, !.part = None, !.text = @ \o text]
  <2>1. new = [more EXCEPT !.stream = str]
    BY <1>3, <1>10 DEF Screens, Streams
  <2>2. /\ str \in Streams /\ str.current = k /\ str.part = None
        /\ str.text = more.stream.text \o text
    BY <1>3, <1>11, ScreenFacts DEF Streams, MaybeBlock
  <2> HIDE DEF str, new
  <2> QED
    BY <1>3, <2>1, <2>2 DEF Screens
<1> HIDE DEF new
<1>13. StandsWell(new)
  <2>1. Len(at.passages) <= Len(new.passages) /\ Len(new.passages) \in Nat
    BY <1>9, <1>12, ScreenFacts DEF ThoughtsKept
  <2>2. new.thinking = at.thinking
    BY <1>1, <1>3, <1>12
  <2> QED
    BY <1>2, <1>3, <1>12, <1>a, <2>1, <2>2 DEF StandsWell
<1>14. ThoughtsKept(at, new)
  BY <1>9, <1>12 DEF ThoughtsKept
<1> QED
  BY <1>1, <1>3, <1>6, <1>7, <1>8, <1>11, <1>12, <1>13, <1>14 DEF new

\* A thought that is over looks as before.
LEMMA ThinkingSettled ==
  ASSUME NEW at \in Screens, NEW k, k # None => k \in 1..Len(at.passages)
  PROVE  LET new == SettleThinking(at, k)
         IN  /\ new \in Screens /\ new.stream = at.stream /\ new.thinking = at.thinking
             /\ LookAlike(at.passages, new.passages)
             /\ \A i \in 1..Len(at.passages) :
                  new.passages[i].done <=> at.passages[i].done \/ (k # None /\ i = k)
<1> DEFINE new == SettleThinking(at, k)
<1>0. at.passages \in Seq(Passage) /\ at.stream \in Streams /\ at.thinking \in Thoughts
  BY ScreenFacts
<1>1. CASE k = None
  BY <1>1 DEF SettleThinking, LookAlike
<1>2. CASE k # None
  <2> DEFINE x == at.passages[k]
             y == [x EXCEPT !.done = TRUE]
             b == [at.passages EXCEPT ![k] = y]
  <2>0. k \in 1..Len(at.passages) /\ x \in Passage
    BY <1>2, ScreenFacts
  <2>1. y \in Passage /\ y.kind = x.kind /\ y.text = x.text /\ y.gone = x.gone /\ y.done = TRUE
        /\ y.turn = x.turn
    <3> HIDE DEF x
    <3> QED
      BY <2>0 DEF Passage
  <2>2. new = [at EXCEPT !.passages = b]
    BY <1>2 DEF SettleThinking
  <2> HIDE DEF y
  <2>3. /\ b \in Seq(Passage) /\ Len(b) = Len(at.passages)
        /\ \A i \in 1..Len(at.passages) : b[i] = IF i = k THEN y ELSE at.passages[i]
    BY <1>0, <2>0, <2>1, ExceptSeq
  <2> HIDE DEF b
  <2>4. new \in Screens /\ new.passages = b /\ new.stream = at.stream /\ new.thinking = at.thinking
    BY <1>0, <2>2, <2>3 DEF Screens
  <2>5. LookAlike(at.passages, b)
    BY <2>1, <2>3 DEF LookAlike
  <2>6. \A i \in 1..Len(at.passages) : b[i].done <=> at.passages[i].done \/ i = k
    BY <2>1, <2>3
  <2> HIDE DEF new, x
  <2> QED
    BY <1>2, <2>4, <2>5, <2>6 DEF new
<1> QED
  BY <1>1, <1>2

\* The thinking comes to its end.
LEMMA Completed ==
  ASSUME NEW at \in Screens, at.thinking.current # None => at.thinking.current \in 1..Len(at.passages)
  PROVE  LET new == CompleteThinking(at)
         IN  /\ new \in Screens /\ new.stream = at.stream
             /\ new.thinking.current = None /\ new.thinking.part = None
             /\ new.thinking.views = at.thinking.views
             /\ LookAlike(at.passages, new.passages)
             /\ \A i \in 1..Len(at.passages) :
                  new.passages[i].done <=>
                    at.passages[i].done \/ (at.thinking.current # None /\ i = at.thinking.current)
<1> DEFINE mid == SettleThinking(at, at.thinking.current)
           new == CompleteThinking(at)
<1>1. /\ mid \in Screens /\ mid.stream = at.stream /\ mid.thinking = at.thinking
      /\ LookAlike(at.passages, mid.passages)
      /\ \A i \in 1..Len(at.passages) :
           mid.passages[i].done <=>
             at.passages[i].done \/ (at.thinking.current # None /\ i = at.thinking.current)
  BY ThinkingSettled
<1>2. new = [mid EXCEPT !.thinking.current = None, !.thinking.part = None]
  BY DEF CompleteThinking
<1> HIDE DEF mid
<1> DEFINE th == [mid.thinking EXCEPT !.current = None, !.part = None]
<1>3. new = [mid EXCEPT !.thinking = th]
  BY <1>1, <1>2 DEF Screens, Thoughts
<1>4. /\ th \in Thoughts /\ th.current = None /\ th.part = None /\ th.views = mid.thinking.views
  BY <1>1, ScreenFacts DEF Thoughts, MaybeBlock
<1> HIDE DEF th, new
<1>5. /\ new \in Screens /\ new.passages = mid.passages /\ new.stream = mid.stream /\ new.thinking = th
  BY <1>1, <1>3, <1>4 DEF Screens
<1> QED
  BY <1>1, <1>4, <1>5 DEF new

\* The stream lets go of its block.
LEMMA Broken ==
  ASSUME NEW at \in Screens
  PROVE  LET new == BreakSegment(at)
         IN  /\ new \in Screens /\ new.passages = at.passages /\ new.thinking = at.thinking
             /\ new.stream.current = None /\ new.stream.part = None
             /\ new.stream.text = at.stream.text /\ new.stream.segments = at.stream.segments
<1> DEFINE str == [at.stream EXCEPT !.current = None, !.part = None]
           new == BreakSegment(at)
<1>1. new = [at EXCEPT !.stream = str]
  BY DEF BreakSegment, Screens, Streams
<1>2. /\ str \in Streams /\ str.current = None /\ str.part = None
      /\ str.text = at.stream.text /\ str.segments = at.stream.segments
  BY ScreenFacts DEF Streams, MaybeBlock
<1> HIDE DEF str, new
<1>3. /\ new \in Screens /\ new.passages = at.passages /\ new.stream = str
      /\ new.thinking = at.thinking
  BY <1>1, <1>2 DEF Screens
<1> QED
  BY <1>2, <1>3 DEF new

\* A block, there or new at the end, has this text now; no other changed.
Wrote(b, c, k, kind, text) ==
  \/ /\ Len(c) = Len(b) + 1 /\ k = Len(b) + 1 /\ \A i \in 1..Len(b) : c[i] = b[i]
     /\ c[k].kind = kind /\ c[k].text = text /\ ~c[k].gone /\ c[k].turn = turnsBegun
  \/ /\ Len(c) = Len(b) /\ k \in 1..Len(b) /\ \A i \in 1..Len(b) : i # k => c[i] = b[i]
     /\ c[k].kind = b[k].kind /\ c[k].text = text /\ c[k].gone = b[k].gone /\ c[k].turn = b[k].turn

\* The thinking has a view for the part, or for no part.
KnownView(at, p) ==
  IF p # None THEN at.thinking.views[p]
  ELSE IF at.thinking.part = None THEN at.thinking.current ELSE None

\* The thinking has a block, known or new.
LEMMA ThinkingEnsured ==
  ASSUME NEW at \in Screens, turnsBegun \in Nat, NEW p \in ThoughtPart \cup {None},
         KnownView(at, p) # None => KnownView(at, p) \in 1..Len(at.passages)
  PROVE  LET new == EnsureThinking(at, p)
             known == KnownView(at, p)
             n == Len(at.passages)
             k == IF known = None THEN n + 1 ELSE known
         IN  /\ new \in Screens /\ new.stream = at.stream
             /\ new.thinking.current = k /\ new.thinking.part = p
             /\ \A q \in ThoughtPart : new.thinking.views[q] = IF q = p THEN k ELSE at.thinking.views[q]
             /\ k \in 1..Len(new.passages)
             /\ known # None => new.passages = at.passages
             /\ known = None =>
                  /\ Len(new.passages) = n + 1 /\ \A i \in 1..n : new.passages[i] = at.passages[i]
                  /\ new.passages[k].kind = "thinking" /\ new.passages[k].text = <<>>
                  /\ ~new.passages[k].gone /\ new.passages[k].turn = turnsBegun
<1> DEFINE known == KnownView(at, p)
           n == Len(at.passages)
           k == IF known = None THEN n + 1 ELSE known
           add == AddTextBlock(at, "thinking")
           mid == IF known = None THEN add ELSE at
           new == EnsureThinking(at, p)
           th == [mid.thinking EXCEPT !.current = k, !.part = p,
                                      !.views = [q \in ThoughtPart |-> IF q = p THEN k ELSE @[q]]]
<1>0. n \in Nat
  BY ScreenFacts
<1>1. /\ add \in Screens /\ add.stream = at.stream /\ add.thinking = at.thinking
      /\ Len(add.passages) = n + 1 /\ \A i \in 1..n : add.passages[i] = at.passages[i]
      /\ add.passages[n + 1].kind = "thinking" /\ add.passages[n + 1].text = <<>>
      /\ ~add.passages[n + 1].gone /\ add.passages[n + 1].turn = turnsBegun
  BY BlockAdded DEF Speech
<1>2. new = [mid EXCEPT !.thinking.current = k, !.thinking.part = p,
                        !.thinking.views = [q \in ThoughtPart |-> IF q = p THEN k ELSE @[q]]]
  <2>1. Len(add.passages) = n + 1
    BY <1>1
  <2> QED
    BY <2>1 DEF EnsureThinking, KnownView
<1> HIDE DEF add
<1>3. mid \in Screens /\ mid.stream = at.stream /\ mid.thinking = at.thinking
  BY <1>1
<1>4. k \in 1..Len(mid.passages) /\ k \in Nat /\ k \in MaybeBlock
  <2>1. CASE known = None
    BY <1>0, <1>1, <2>1 DEF MaybeBlock
  <2>2. CASE known # None
    BY <1>0, <2>2 DEF MaybeBlock
  <2> QED
    BY <2>1, <2>2
<1>5. /\ known # None => mid.passages = at.passages
      /\ known = None => mid.passages = add.passages /\ k = n + 1
  OBVIOUS
<1> HIDE DEF mid, k, known
<1>6. new = [mid EXCEPT !.thinking = th]
  BY <1>2, <1>3 DEF Screens, Thoughts
<1>7. /\ th \in Thoughts /\ th.current = k /\ th.part = p
      /\ \A q \in ThoughtPart : th.views[q] = IF q = p THEN k ELSE mid.thinking.views[q]
  <2> DEFINE v == [q \in ThoughtPart |-> IF q = p THEN k ELSE mid.thinking.views[q]]
  <2>1. v \in [ThoughtPart -> MaybeBlock]
    BY <1>3, <1>4, ScreenFacts
  <2>2. th = [mid.thinking EXCEPT !.current = k, !.part = p, !.views = v]
    BY <1>3 DEF Screens, Thoughts
  <2>3. \A q \in ThoughtPart : v[q] = IF q = p THEN k ELSE mid.thinking.views[q]
    OBVIOUS
  <2> HIDE DEF v, th
  <2>4. th \in Thoughts /\ th.current = k /\ th.part = p /\ th.views = v
    BY <1>3, <1>4, <2>1, <2>2, ScreenFacts DEF Thoughts
  <2> QED
    BY <2>3, <2>4
<1> HIDE DEF th, new
<1>8. /\ new \in Screens /\ new.passages = mid.passages /\ new.stream = mid.stream /\ new.thinking = th
  BY <1>3, <1>6, <1>7 DEF Screens
<1>9. known = None => /\ Len(new.passages) = n + 1 /\ \A i \in 1..n : new.passages[i] = at.passages[i]
                      /\ new.passages[k].kind = "thinking" /\ new.passages[k].text = <<>>
                      /\ ~new.passages[k].gone /\ new.passages[k].turn = turnsBegun
  BY <1>1, <1>5, <1>8
<1> QED
  BY <1>3, <1>4, <1>5, <1>7, <1>8, <1>9 DEF new, k, known

\* The text of a block that is there, or of a new one.
TextAt(at, known) == IF known = None THEN <<>> ELSE at.passages[known].text

\* What is thought is written to the block of the part.
LEMMA ThoughtAppended ==
  ASSUME NEW at \in Screens, turnsBegun \in Nat, NEW p \in ThoughtPart \cup {None},
         KnownView(at, p) # None => KnownView(at, p) \in 1..Len(at.passages), NEW text \in Words
  PROVE  LET new == AppendThinking(at, p, text)
             known == KnownView(at, p)
             k == IF known = None THEN Len(at.passages) + 1 ELSE known
         IN  /\ new \in Screens /\ new.stream = at.stream
             /\ new.thinking.current = k /\ new.thinking.part = p
             /\ \A q \in ThoughtPart : new.thinking.views[q] = IF q = p THEN k ELSE at.thinking.views[q]
             /\ k \in 1..Len(new.passages)
             /\ Wrote(at.passages, new.passages, k, "thinking", TextAt(at, known) \o text)
<1> DEFINE known == KnownView(at, p)
           n == Len(at.passages)
           k == IF known = None THEN n + 1 ELSE known
           mid == EnsureThinking(at, p)
           new == AppendThinking(at, p, text)
           more == AddText(mid, k, text)
<1>1. /\ mid \in Screens /\ mid.stream = at.stream
      /\ mid.thinking.current = k /\ mid.thinking.part = p
      /\ \A q \in ThoughtPart : mid.thinking.views[q] = IF q = p THEN k ELSE at.thinking.views[q]
      /\ k \in 1..Len(mid.passages)
      /\ known # None => mid.passages = at.passages
      /\ known = None =>
           /\ Len(mid.passages) = n + 1 /\ \A i \in 1..n : mid.passages[i] = at.passages[i]
           /\ mid.passages[k].kind = "thinking" /\ mid.passages[k].text = <<>>
           /\ ~mid.passages[k].gone /\ mid.passages[k].turn = turnsBegun
  BY ThinkingEnsured
<1>2. new = AddText(mid, mid.thinking.current, text)
  BY DEF AppendThinking
<1>3. known = None => k = n + 1
  OBVIOUS
<1>4. known # None => k = known
  OBVIOUS
<1> HIDE DEF mid, k, known
<1>5. /\ more \in Screens /\ more.stream = mid.stream /\ more.thinking = mid.thinking
      /\ Len(more.passages) = Len(mid.passages)
      /\ \A i \in 1..Len(mid.passages) : i # k => more.passages[i] = mid.passages[i]
      /\ more.passages[k].kind = mid.passages[k].kind
      /\ more.passages[k].text = mid.passages[k].text \o text
      /\ more.passages[k].gone = mid.passages[k].gone
      /\ more.passages[k].turn = mid.passages[k].turn
  <2>1. mid \in Screens /\ k \in 1..Len(mid.passages)
    BY <1>1
  <2> QED
    BY <2>1, TextAdded
<1>6. new = more
  BY <1>1, <1>2
<1> HIDE DEF more, new
<1>7. Wrote(at.passages, more.passages, k, "thinking", TextAt(at, known) \o text)
  <2>1. n \in Nat
    BY ScreenFacts
  <2>2. CASE known = None
    <3>1. \A i \in 1..n : i \in 1..Len(mid.passages) /\ i # k
      BY <1>1, <1>3, <2>1, <2>2
    <3> QED
      BY <1>1, <1>3, <1>5, <2>2, <3>1 DEF Wrote, TextAt
  <2>3. CASE known # None
    BY <1>1, <1>4, <1>5, <2>3 DEF Wrote, TextAt
  <2> QED
    BY <2>2, <2>3
<1>8. /\ new \in Screens /\ new.stream = at.stream
      /\ new.thinking.current = k /\ new.thinking.part = p
      /\ \A q \in ThoughtPart : new.thinking.views[q] = IF q = p THEN k ELSE at.thinking.views[q]
      /\ k \in 1..Len(new.passages)
  BY <1>1, <1>5, <1>6
<1>9. Wrote(at.passages, new.passages, k, "thinking", TextAt(at, known) \o text)
  BY <1>6, <1>7
<1> QED
  BY <1>8, <1>9 DEF new, k, known

\* or replaces its text.
LEMMA ThoughtUpserted ==
  ASSUME NEW at \in Screens, turnsBegun \in Nat, NEW p \in ThoughtPart \cup {None},
         KnownView(at, p) # None => KnownView(at, p) \in 1..Len(at.passages), NEW text \in Words
  PROVE  LET new == UpsertThought(at, p, text)
             known == KnownView(at, p)
             k == IF known = None THEN Len(at.passages) + 1 ELSE known
         IN  /\ new \in Screens /\ new.stream = at.stream
             /\ new.thinking.current = k /\ new.thinking.part = p
             /\ \A q \in ThoughtPart : new.thinking.views[q] = IF q = p THEN k ELSE at.thinking.views[q]
             /\ k \in 1..Len(new.passages)
             /\ Wrote(at.passages, new.passages, k, "thinking", text)
<1> DEFINE known == KnownView(at, p)
           n == Len(at.passages)
           k == IF known = None THEN n + 1 ELSE known
           mid == EnsureThinking(at, p)
           new == UpsertThought(at, p, text)
<1>1. /\ mid \in Screens /\ mid.stream = at.stream
      /\ mid.thinking.current = k /\ mid.thinking.part = p
      /\ \A q \in ThoughtPart : mid.thinking.views[q] = IF q = p THEN k ELSE at.thinking.views[q]
      /\ k \in 1..Len(mid.passages)
      /\ known # None => mid.passages = at.passages
      /\ known = None =>
           /\ Len(mid.passages) = n + 1 /\ \A i \in 1..n : mid.passages[i] = at.passages[i]
           /\ mid.passages[k].kind = "thinking" /\ mid.passages[k].text = <<>>
           /\ ~mid.passages[k].gone /\ mid.passages[k].turn = turnsBegun
  BY ThinkingEnsured
<1>2. new = [mid EXCEPT !.passages[mid.thinking.current].text = text]
  BY DEF UpsertThought
<1>3. known = None => k = n + 1
  OBVIOUS
<1>4. known # None => k = known
  OBVIOUS
<1> HIDE DEF mid, k, known
<1> DEFINE x == mid.passages[k]
           y == [x EXCEPT !.text = text]
           b == [mid.passages EXCEPT ![k] = y]
<1>5. mid.passages \in Seq(Passage) /\ mid.stream \in Streams /\ mid.thinking \in Thoughts /\ x \in Passage
  BY <1>1, ScreenFacts
<1>6. y \in Passage /\ y.kind = x.kind /\ y.text = text /\ y.gone = x.gone /\ y.turn = x.turn
  <2> HIDE DEF x
  <2> QED
    BY <1>5 DEF Passage
<1>7. new = [mid EXCEPT !.passages = b]
  BY <1>1, <1>2
<1> HIDE DEF y
<1>8. /\ b \in Seq(Passage) /\ Len(b) = Len(mid.passages)
      /\ \A i \in 1..Len(mid.passages) : b[i] = IF i = k THEN y ELSE mid.passages[i]
  BY <1>1, <1>5, <1>6, ExceptSeq
<1> HIDE DEF b, new
<1>9. new \in Screens /\ new.passages = b /\ new.stream = mid.stream /\ new.thinking = mid.thinking
  BY <1>1, <1>5, <1>7, <1>8 DEF Screens
<1>10. Wrote(at.passages, b, k, "thinking", text)
  <2>1. n \in Nat
    BY ScreenFacts
  <2>2. CASE known = None
    <3>1. \A i \in 1..n : i \in 1..Len(mid.passages) /\ i # k
      BY <1>1, <1>3, <2>1, <2>2
    <3>2. \A i \in 1..n : b[i] = at.passages[i]
      BY <1>1, <1>8, <2>2, <3>1
    <3> QED
      BY <1>1, <1>3, <1>6, <1>8, <2>2, <3>2 DEF Wrote
  <2>3. CASE known # None
    BY <1>1, <1>4, <1>6, <1>8, <2>3 DEF Wrote
  <2> QED
    BY <2>2, <2>3
<1> QED
  BY <1>1, <1>5, <1>9, <1>10 DEF new, b, k, known

\* A text part has a segment.
LEMMA SegmentEnsured ==
  ASSUME NEW at \in Screens, turnsBegun \in Nat, NEW p \in TextPart,
         at.stream.segments[p].block # None => at.stream.segments[p].block \in 1..Len(at.passages)
  PROVE  LET new == EnsureSegment(at, p)
             known == at.stream.segments[p].block
             n == Len(at.passages)
             k == IF known = None THEN n + 1 ELSE known
             old == IF known = None THEN <<>> ELSE at.stream.segments[p].text
         IN  /\ new \in Screens /\ new.thinking = at.thinking /\ new.stream.text = at.stream.text
             /\ new.stream.segments[p].block = k /\ new.stream.segments[p].text = old
             /\ \A q \in TextPart : q # p => new.stream.segments[q] = at.stream.segments[q]
             /\ k \in 1..Len(new.passages)
             /\ known # None => new.passages = at.passages
             /\ known = None =>
                  /\ Len(new.passages) = n + 1 /\ \A i \in 1..n : new.passages[i] = at.passages[i]
                  /\ new.passages[k].kind = "assistant" /\ new.passages[k].text = <<>>
                  /\ ~new.passages[k].gone /\ new.passages[k].turn = turnsBegun
<1> DEFINE new == EnsureSegment(at, p)
           known == at.stream.segments[p].block
           n == Len(at.passages)
<1>0. n \in Nat
  BY ScreenFacts
<1>1. CASE known # None
  BY <1>1 DEF EnsureSegment
<1>2. CASE known = None
  <2> DEFINE add == AddTextBlock(at, "assistant")
             segment == [block |-> n + 1, text |-> <<>>]
             segments == [add.stream.segments EXCEPT ![p] = segment]
             str == [add.stream EXCEPT !.segments = segments]
  <2>1. /\ add \in Screens /\ add.stream = at.stream /\ add.thinking = at.thinking
        /\ Len(add.passages) = n + 1 /\ \A i \in 1..n : add.passages[i] = at.passages[i]
        /\ add.passages[n + 1].kind = "assistant" /\ add.passages[n + 1].text = <<>>
        /\ ~add.passages[n + 1].gone /\ add.passages[n + 1].turn = turnsBegun
    BY BlockAdded DEF Speech
  <2>2. new = [add EXCEPT !.stream.segments[p] = segment]
    BY <1>2, <2>1 DEF EnsureSegment
  <2> HIDE DEF add
  <2>3. segment \in Segment /\ segment.block = n + 1 /\ segment.text = <<>>
    BY <1>0, EmptySeq DEF Segment, MaybeBlock, Words
  <2> HIDE DEF segment
  <2>4. /\ segments \in [TextPart -> Segment] /\ segments[p] = segment
        /\ \A q \in TextPart : q # p => segments[q] = at.stream.segments[q]
    BY <2>1, <2>3, ScreenFacts
  <2>5. new = [add EXCEPT !.stream = str]
    BY <2>1, <2>2 DEF Screens, Streams
  <2> HIDE DEF segments
  <2>6. /\ str \in Streams /\ str.segments = segments /\ str.text = at.stream.text
    BY <2>1, <2>4, ScreenFacts DEF Streams
  <2> HIDE DEF str, new
  <2>7. new \in Screens /\ new.passages = add.passages /\ new.stream = str /\ new.thinking = add.thinking
    BY <2>1, <2>5, <2>6 DEF Screens
  <2>8. n + 1 \in 1..Len(new.passages)
    BY <1>0, <2>1, <2>7
  <2> QED
    BY <1>2, <2>1, <2>3, <2>4, <2>6, <2>7, <2>8 DEF new
<1> QED
  BY <1>1, <1>2

\* A part of a text with another text is a text.
LEMMA CutTyped ==
  ASSUME NEW S, NEW s \in Seq(S), NEW m \in Nat, NEW n \in Nat, 1 <= m, n <= Len(s)
  PROVE  /\ SubSeq(s, m, n) \in Seq(S) /\ Len(SubSeq(s, m, n)) = IF m <= n THEN n - m + 1 ELSE 0
         /\ \A i \in 1 .. n - m + 1 : SubSeq(s, m, n)[i] = s[m + i - 1]
<1>1. \A i \in m..n : s[i] \in S
  <2>1. Len(s) \in Nat
    BY LenProperties
  <2>2. \A i \in m..n : i \in 1..Len(s)
    BY <2>1
  <2> QED
    BY <2>2, ElementOfSeq
<1> QED
  BY <1>1, SubSeqProperties

\* What was streamed stays a text.
LEMMA StreamedTyped ==
  ASSUME NEW streamed \in Words, NEW previous \in Words, NEW text \in Words
  PROVE  StreamedAfter(streamed, previous, text) \in Words
<1>1. Len(streamed) \in Nat /\ Len(previous) \in Nat /\ Len(text) \in Nat
  BY LenProperties DEF Words
<1>2. SubSeq(text, Len(previous) + 1, Len(text)) \in Words
  BY <1>1, CutTyped DEF Words
<1>3. EndsWith(streamed, previous) => SubSeq(streamed, 1, Len(streamed) - Len(previous)) \in Words
  <2>1. ASSUME EndsWith(streamed, previous) PROVE Len(streamed) - Len(previous) \in Nat
    BY <1>1, <2>1 DEF EndsWith
  <2> QED
    BY <1>1, <2>1, CutTyped DEF Words
<1> QED
  BY <1>2, <1>3, ConcatProperties DEF StreamedAfter, Words

\* The known block of a text part.
KnownSegment(at, p) == at.stream.segments[p].block

\* The text of a part is written to the part's segment and block.
LEMMA PartAppended ==
  ASSUME NEW at \in Screens, turnsBegun \in Nat, NEW p \in TextPart, NEW text \in Words,
         KnownSegment(at, p) # None =>
           /\ KnownSegment(at, p) \in 1..Len(at.passages)
           /\ at.passages[KnownSegment(at, p)].text = at.stream.segments[p].text
  PROVE  LET new == AppendPart(at, p, text)
             known == KnownSegment(at, p)
             k == IF known = None THEN Len(at.passages) + 1 ELSE known
             now == (IF known = None THEN <<>> ELSE at.stream.segments[p].text) \o text
         IN  /\ new \in Screens /\ new.thinking = at.thinking
             /\ new.stream.text = at.stream.text \o text
             /\ new.stream.current = k /\ new.stream.part = p
             /\ new.stream.segments[p].block = k /\ new.stream.segments[p].text = now
             /\ \A q \in TextPart : q # p => new.stream.segments[q] = at.stream.segments[q]
             /\ k \in 1..Len(new.passages)
             /\ Wrote(at.passages, new.passages, k, "assistant", now)
<1> DEFINE new == AppendPart(at, p, text)
           known == KnownSegment(at, p)
           n == Len(at.passages)
           k == IF known = None THEN n + 1 ELSE known
           old == IF known = None THEN <<>> ELSE at.stream.segments[p].text
           mid == EnsureSegment(at, p)
           more == AddText(mid, k, text)
<1>0. n \in Nat
  BY ScreenFacts
<1>1. /\ mid \in Screens /\ mid.thinking = at.thinking /\ mid.stream.text = at.stream.text
      /\ mid.stream.segments[p].block = k /\ mid.stream.segments[p].text = old
      /\ \A q \in TextPart : q # p => mid.stream.segments[q] = at.stream.segments[q]
      /\ k \in 1..Len(mid.passages)
      /\ known # None => mid.passages = at.passages
      /\ known = None =>
           /\ Len(mid.passages) = n + 1 /\ \A i \in 1..n : mid.passages[i] = at.passages[i]
           /\ mid.passages[k].kind = "assistant" /\ mid.passages[k].text = <<>>
           /\ ~mid.passages[k].gone /\ mid.passages[k].turn = turnsBegun
  BY SegmentEnsured DEF KnownSegment
<1>2. known = None => k = n + 1 /\ old = <<>>
  OBVIOUS
<1>3. known # None => k = known /\ at.passages[known].text = old
  OBVIOUS
<1>4. new = [AddText(mid, mid.stream.segments[p].block, text) EXCEPT
               !.stream.segments[p].text = @ \o text, !.stream.current = mid.stream.segments[p].block,
               !.stream.part = p, !.stream.text = @ \o text]
  BY DEF AppendPart
<1> HIDE DEF mid, k, known, old
<1>5. /\ more \in Screens /\ more.stream = mid.stream /\ more.thinking = mid.thinking
      /\ Len(more.passages) = Len(mid.passages)
      /\ \A i \in 1..Len(mid.passages) : i # k => more.passages[i] = mid.passages[i]
      /\ more.passages[k].kind = mid.passages[k].kind
      /\ more.passages[k].text = mid.passages[k].text \o text
      /\ more.passages[k].gone = mid.passages[k].gone
      /\ more.passages[k].turn = mid.passages[k].turn
  BY <1>1, TextAdded
<1>6. new = [more EXCEPT !.stream.segments[p].text = @ \o text, !.stream.current = k,
                         !.stream.part = p, !.stream.text = @ \o text]
  BY <1>1, <1>4
<1> HIDE DEF more
<1>7. k \in Nat /\ k \in MaybeBlock /\ old \in Words /\ old \o text \in Words
      /\ at.stream.text \o text \in Words
  <2>1. k \in Nat
    BY <1>1, ScreenFacts
  <2>2. mid.stream.segments[p] \in Segment /\ at.stream.text \in Words
    BY <1>1, ScreenFacts
  <2>3. old \in Words
    BY <1>1, <2>2 DEF Segment
  <2> QED
    BY <2>1, <2>2, <2>3, ConcatProperties DEF MaybeBlock, Words
<1> DEFINE segment == [more.stream.segments[p] EXCEPT !.text = @ \o text]
           segments == [more.stream.segments EXCEPT ![p] = segment]
           str == [more.stream EXCEPT !.segments = segments, !.current = k, !.part = p,
                                      !.text = @ \o text]
<1>8. new = [more EXCEPT !.stream = str]
  BY <1>5, <1>6, ScreenFacts DEF Screens, Streams
<1>9. segment \in Segment /\ segment.block = k /\ segment.text = old \o text
  <2>1. more.stream.segments[p] \in Segment
    BY <1>5, ScreenFacts
  <2> QED
    BY <1>1, <1>5, <1>7, <2>1 DEF Segment
<1> HIDE DEF segment
<1>10. /\ segments \in [TextPart -> Segment] /\ segments[p] = segment
       /\ \A q \in TextPart : q # p => segments[q] = at.stream.segments[q]
  BY <1>1, <1>5, <1>9, ScreenFacts
<1> HIDE DEF segments
<1>11. /\ str \in Streams /\ str.segments = segments /\ str.current = k /\ str.part = p
       /\ str.text = at.stream.text \o text
  BY <1>1, <1>5, <1>7, <1>10, ScreenFacts DEF Streams
<1> HIDE DEF str, new
<1>12. new \in Screens /\ new.passages = more.passages /\ new.stream = str /\ new.thinking = more.thinking
  BY <1>5, <1>8, <1>11 DEF Screens
<1>13. Wrote(at.passages, more.passages, k, "assistant", old \o text)
  <2>1. CASE known = None
    <3>1. \A i \in 1..n : i \in 1..Len(mid.passages) /\ i # k
      BY <1>0, <1>1, <1>2, <2>1
    <3> QED
      BY <1>1, <1>2, <1>5, <2>1, <3>1 DEF Wrote
  <2>2. CASE known # None
    BY <1>1, <1>3, <1>5, <2>2 DEF Wrote
  <2> QED
    BY <2>1, <2>2
<1> QED
  BY <1>1, <1>5, <1>9, <1>10, <1>11, <1>12, <1>13 DEF new, k, known, old

\* or replaces the part's text.
LEMMA PartUpserted ==
  ASSUME NEW at \in Screens, turnsBegun \in Nat, NEW p \in TextPart, NEW text \in Words,
         KnownSegment(at, p) # None => KnownSegment(at, p) \in 1..Len(at.passages)
  PROVE  LET new == Upsert(at, p, text)
             known == KnownSegment(at, p)
             k == IF known = None THEN Len(at.passages) + 1 ELSE known
             old == IF known = None THEN <<>> ELSE at.stream.segments[p].text
         IN  /\ new \in Screens /\ new.thinking = at.thinking
             /\ new.stream.text = StreamedAfter(at.stream.text, old, text)
             /\ new.stream.current = k /\ new.stream.part = p
             /\ new.stream.segments[p].block = k /\ new.stream.segments[p].text = text
             /\ \A q \in TextPart : q # p => new.stream.segments[q] = at.stream.segments[q]
             /\ k \in 1..Len(new.passages)
             /\ Wrote(at.passages, new.passages, k, "assistant", text)
<1> DEFINE new == Upsert(at, p, text)
           known == KnownSegment(at, p)
           n == Len(at.passages)
           k == IF known = None THEN n + 1 ELSE known
           old == IF known = None THEN <<>> ELSE at.stream.segments[p].text
           mid == EnsureSegment(at, p)
           streamed == StreamedAfter(at.stream.text, old, text)
<1>0. n \in Nat
  BY ScreenFacts
<1>1. /\ mid \in Screens /\ mid.thinking = at.thinking /\ mid.stream.text = at.stream.text
      /\ mid.stream.segments[p].block = k /\ mid.stream.segments[p].text = old
      /\ \A q \in TextPart : q # p => mid.stream.segments[q] = at.stream.segments[q]
      /\ k \in 1..Len(mid.passages)
      /\ known # None => mid.passages = at.passages
      /\ known = None =>
           /\ Len(mid.passages) = n + 1 /\ \A i \in 1..n : mid.passages[i] = at.passages[i]
           /\ mid.passages[k].kind = "assistant" /\ mid.passages[k].text = <<>>
           /\ ~mid.passages[k].gone /\ mid.passages[k].turn = turnsBegun
  BY SegmentEnsured DEF KnownSegment
<1>2. known = None => k = n + 1
  OBVIOUS
<1>3. known # None => k = known
  OBVIOUS
<1>4. new = [mid EXCEPT !.passages[mid.stream.segments[p].block].text = text,
                        !.stream.segments[p].text = text,
                        !.stream.current = mid.stream.segments[p].block, !.stream.part = p,
                        !.stream.text = StreamedAfter(@, mid.stream.segments[p].text, text)]
  BY DEF Upsert
<1> HIDE DEF mid, k, known, old
<1>5. new = [mid EXCEPT !.passages[k].text = text, !.stream.segments[p].text = text,
                        !.stream.current = k, !.stream.part = p, !.stream.text = streamed]
  BY <1>1, <1>4
<1>6. k \in Nat /\ k \in MaybeBlock /\ old \in Words /\ streamed \in Words
  <2>1. k \in Nat
    BY <1>1, ScreenFacts
  <2>2. mid.stream.segments[p] \in Segment /\ at.stream.text \in Words
    BY <1>1, ScreenFacts
  <2>3. old \in Words
    BY <1>1, <2>2 DEF Segment
  <2> QED
    BY <2>1, <2>2, <2>3, StreamedTyped DEF MaybeBlock
<1> HIDE DEF streamed
<1> DEFINE x == mid.passages[k]
           y == [x EXCEPT !.text = text]
           b == [mid.passages EXCEPT ![k] = y]
           segment == [mid.stream.segments[p] EXCEPT !.text = text]
           segments == [mid.stream.segments EXCEPT ![p] = segment]
           str == [mid.stream EXCEPT !.segments = segments, !.current = k, !.part = p,
                                     !.text = streamed]
<1>7. new = [mid EXCEPT !.passages = b, !.stream = str]
  BY <1>1, <1>5, ScreenFacts DEF Screens, Streams
<1>8. x \in Passage /\ mid.passages \in Seq(Passage)
  BY <1>1, ScreenFacts
<1>9. y \in Passage /\ y.kind = x.kind /\ y.text = text /\ y.gone = x.gone /\ y.turn = x.turn
  <2> HIDE DEF x
  <2> QED
    BY <1>8 DEF Passage
<1>10. segment \in Segment /\ segment.block = k /\ segment.text = text
  <2>1. mid.stream.segments[p] \in Segment
    BY <1>1, ScreenFacts
  <2> QED
    BY <1>1, <2>1 DEF Segment
<1> HIDE DEF y, segment
<1>11. /\ b \in Seq(Passage) /\ Len(b) = Len(mid.passages)
       /\ \A i \in 1..Len(mid.passages) : b[i] = IF i = k THEN y ELSE mid.passages[i]
  BY <1>1, <1>8, <1>9, ExceptSeq
<1>12. /\ segments \in [TextPart -> Segment] /\ segments[p] = segment
       /\ \A q \in TextPart : q # p => segments[q] = at.stream.segments[q]
  BY <1>1, <1>10, ScreenFacts
<1> HIDE DEF segments, b
<1>13. /\ str \in Streams /\ str.segments = segments /\ str.current = k /\ str.part = p
       /\ str.text = streamed
  BY <1>1, <1>6, <1>12, ScreenFacts DEF Streams
<1> HIDE DEF str, new
<1>14. new \in Screens /\ new.passages = b /\ new.stream = str /\ new.thinking = mid.thinking
  BY <1>1, <1>7, <1>11, <1>13 DEF Screens
<1>15. Wrote(at.passages, b, k, "assistant", text)
  <2>1. CASE known = None
    <3>1. \A i \in 1..n : i \in 1..Len(mid.passages) /\ i # k
      BY <1>0, <1>1, <1>2, <2>1
    <3>2. \A i \in 1..n : b[i] = at.passages[i]
      BY <1>1, <1>11, <2>1, <3>1
    <3> QED
      BY <1>1, <1>2, <1>9, <1>11, <2>1, <3>2 DEF Wrote
  <2>2. CASE known # None
    BY <1>1, <1>3, <1>9, <1>11, <2>2 DEF Wrote
  <2> QED
    BY <2>1, <2>2
<1> QED
  BY <1>1, <1>10, <1>11, <1>12, <1>13, <1>14, <1>15 DEF new, k, known, old, streamed

-----------------------------------------------------------------------------
(* Entries and blocks, one for one. *)

\* Places of two sequences belong to each other, in one order.
PairedBy(s, t, M, b) ==
  /\ M \subseteq 1..Len(s) /\ b \in [M -> 1..Len(t)]
  /\ \A i \in M, j \in M : i < j => b[i] < b[j]

\* Texts at paired places are the same, and all others empty.
SameWhere(s, t, M, b) ==
  /\ \A i \in M : s[i] = t[b[i]]
  /\ \A i \in 1..Len(s) : i \notin M => s[i] = <<>>
  /\ \A j \in 1..Len(t) : (\A i \in M : b[i] # j) => t[j] = <<>>

\* Pairs are in the order of either place.
LEMMA PairedInOrder ==
  ASSUME NEW s \in Pieces, NEW t \in Pieces, NEW M, NEW b, PairedBy(s, t, M, b), NEW i \in M, NEW j \in M
  PROVE  /\ i \in Nat /\ j \in Nat /\ b[i] \in Nat /\ b[j] \in Nat
         /\ i < j <=> b[i] < b[j]
         /\ i <= j <=> b[i] <= b[j]
<1>1. Len(s) \in Nat /\ Len(t) \in Nat
  BY LenProperties DEF Pieces
<1>2. i \in 1..Len(s) /\ j \in 1..Len(s) /\ b[i] \in 1..Len(t) /\ b[j] \in 1..Len(t)
  BY DEF PairedBy
<1>3. (i < j => b[i] < b[j]) /\ (j < i => b[j] < b[i]) /\ (i = j => b[i] = b[j])
  BY DEF PairedBy
<1> QED
  BY <1>1, <1>2, <1>3

\* Sequences with the same texts in the same order are joined alike.
LEMMA JoinedMatch ==
  ASSUME NEW s \in Pieces, NEW t \in Pieces, NEW M, NEW b, PairedBy(s, t, M, b),
         SameWhere(s, t, M, b)
  PROVE  Joined(s) = Joined(t)
<1> DEFINE J == JoinedTo(s)
           K == JoinedTo(t)
           Meets(n, m) == \A i \in M : i <= n <=> b[i] <= m
           P == {n \in 0..Len(s) : \A m \in 0..Len(t) : Meets(n, m) => J[n] = K[m]}
<1>1. Len(s) \in Nat /\ Len(t) \in Nat
  BY LenProperties DEF Pieces
<1>2. J[0] = <<>> /\ \A i \in 1..Len(s) : J[i] = J[i - 1] \o s[i]
  BY <1>1, JoinedFollows
<1>3. K[0] = <<>> /\ \A i \in 1..Len(t) : K[i] = K[i - 1] \o t[i]
  BY <1>1, JoinedFollows
<1>4. \A m \in 0..Len(t), n \in 0..Len(t) :
        m <= n /\ (\A i \in 1..Len(t) : m < i /\ i <= n => t[i] = <<>>) => K[n] = K[m]
  BY JoinedFlat
<1>5. \A i \in 0..Len(s) : J[i] \in Words
  BY JoinedTyped DEF Pieces, Words
<1> HIDE DEF J, K
<1>6. \A i \in M : i \in 1..Len(s) /\ b[i] \in 1..Len(t) /\ i \in Nat /\ b[i] \in Nat
  BY <1>1 DEF PairedBy
<1>7. \A i \in M, j \in M : (i < j <=> b[i] < b[j]) /\ (i <= j <=> b[i] <= b[j])
  BY PairedInOrder
<1>8. 0 \in P
  <2>1. ASSUME NEW m \in 0..Len(t), Meets(0, m) PROVE J[0] = K[m]
    <3>1. \A i \in M : ~(b[i] <= m)
      BY <1>6, <2>1
    <3>2. ASSUME NEW j \in 1..Len(t), 0 < j, j <= m PROVE t[j] = <<>>
      <4>1. \A i \in M : b[i] # j
        BY <3>1, <3>2
      <4> QED
        BY <4>1 DEF SameWhere
    <3>3. 0 \in 0..Len(t) /\ 0 <= m
      BY <1>1
    <3>4. K[m] = K[0]
      BY <1>4, <3>2, <3>3
    <3> QED
      BY <1>2, <1>3, <3>4
  <2> QED
    BY <1>1, <2>1
<1>9. ASSUME NEW n \in 1..Len(s), n - 1 \in P PROVE n \in P
  <2>1. n \in Nat /\ n - 1 \in Nat /\ n \in 0..Len(s) /\ n - 1 \in 0..Len(s)
    BY <1>1
  <2>2. ASSUME NEW m \in 0..Len(t), Meets(n, m) PROVE J[n] = K[m]
    <3>0. m \in Nat
      BY <1>1
    <3>1. CASE n \notin M
      <4>1. Meets(n - 1, m)
        <5>1. \A i \in M : i <= n - 1 <=> i <= n
          BY <1>6, <2>1, <3>1
        <5> QED
          BY <2>2, <5>1
      <4>2. J[n - 1] = K[m]
        BY <1>9, <4>1
      <4>3. s[n] = <<>>
        BY <3>1 DEF SameWhere
      <4>4. J[n - 1] \o <<>> = J[n - 1]
        BY <1>5, <2>1, ConcatEmptySeq DEF Words
      <4> QED
        BY <1>2, <4>2, <4>3, <4>4
    <3>2. CASE n \in M
      <4> DEFINE c == b[n]
      <4>1. c \in 1..Len(t) /\ c \in Nat /\ c <= m
        BY <1>6, <2>1, <2>2, <3>2
      <4>2. c - 1 \in 0..Len(t) /\ c \in 0..Len(t)
        BY <1>1, <4>1
      <4>3. K[m] = K[c]
        <5>1. ASSUME NEW j \in 1..Len(t), c < j, j <= m PROVE t[j] = <<>>
          <6>1. ASSUME NEW i \in M, b[i] = j PROVE FALSE
            <7>1. i <= n
              BY <2>2, <5>1, <6>1
            <7>2. b[i] <= b[n]
              BY <1>7, <3>2, <7>1
            <7> QED
              BY <1>1, <4>1, <5>1, <6>1, <7>2
          <6> QED
            BY <6>1 DEF SameWhere
        <5> HIDE DEF c
        <5> QED
          BY <1>4, <4>1, <4>2, <5>1
      <4>4. Meets(n - 1, c - 1)
        <5>1. ASSUME NEW i \in M PROVE i <= n - 1 <=> b[i] <= c - 1
          <6>1. i < n <=> b[i] < c
            BY <1>7, <3>2
          <6> HIDE DEF c
          <6> QED
            BY <1>6, <2>1, <4>1, <6>1
        <5> QED
          BY <5>1
      <4>5. J[n - 1] = K[c - 1]
        <5> HIDE DEF c
        <5> QED
          BY <1>9, <4>2, <4>4
      <4>6. s[n] = t[c]
        BY <3>2 DEF SameWhere
      <4> HIDE DEF c
      <4>7. K[c] = K[c - 1] \o t[c]
        BY <1>3, <4>1
      <4> QED
        BY <1>2, <4>3, <4>5, <4>6, <4>7
    <3> QED
      BY <3>1, <3>2
  <2> QED
    BY <2>1, <2>2
<1> HIDE DEF P
<1>10. \A n \in 0..Len(s) : n \in P
  BY <1>1, <1>8, <1>9, UpTo
<1>11. Len(s) \in P /\ Len(t) \in 0..Len(t)
  BY <1>1, <1>10
<1>12. Meets(Len(s), Len(t))
  BY <1>1, <1>6
<1>13. J[Len(s)] = K[Len(t)]
  BY <1>11, <1>12 DEF P
<1> QED
  BY <1>13 DEF J, K, Joined

\* An entry of a part is in the part's block, whole.
Matches(at, e, turn) ==
  /\ e.part \in AnyPart /\ e.kind = PassageKind(e.part) /\ e.text # <<>>
  /\ BlockOf(at, e.part) \in 1..Len(at.passages)
  /\ Shows(at.passages[BlockOf(at, e.part)], e.kind, turn)
  /\ at.passages[BlockOf(at, e.part)].text = e.text
  /\ e.part \in TextPart => at.stream.segments[e.part].text = e.text

\* What was taken back.
Blank(e) == e.part = None /\ e.kind = "gone" /\ e.text = <<>>

\* Entries and blocks of the turn, one for one and in one order.
Aligned(at, said, turn) ==
  /\ \A i \in 1..Len(said) : Blank(said[i]) \/ Matches(at, said[i], turn)
  /\ \A i \in 1..Len(said), j \in 1..Len(said) :
       said[i].part # None /\ said[j].part # None /\ i < j =>
         BlockOf(at, said[i].part) < BlockOf(at, said[j].part)
  /\ \A p \in AnyPart : BlockOf(at, p) # None => \E i \in 1..Len(said) : said[i].part = p
  /\ \A k \in 1..Len(at.passages) :
       at.passages[k].turn = turn /\ ~at.passages[k].gone =>
         \E i \in 1..Len(said) : said[i].part # None /\ BlockOf(at, said[i].part) = k

\* A part's block, and its kind.
LEMMA PartFacts ==
  ASSUME NEW at \in Screens, NEW p \in AnyPart
  PROVE  BlockOf(at, p) \in MaybeBlock /\ p # None /\ PassageKind(p) \in Speech /\ PassageKind(p) # "gone"
<1>1. p # None
  BY TextAssumption DEF AnyPart
<1>2. PassageKind(p) \in Speech /\ PassageKind(p) # "gone"
  BY DEF PassageKind, Speech
<1>3. CASE p \in TextPart
  <2>1. at.stream.segments[p] \in Segment
    BY <1>3, ScreenFacts
  <2> QED
    BY <1>1, <1>2, <1>3, <2>1 DEF BlockOf, Segment
<1>4. CASE p \notin TextPart
  <2>1. p \in ThoughtPart
    BY <1>4 DEF AnyPart
  <2>2. at.thinking.views[p] \in MaybeBlock
    BY <2>1, ScreenFacts
  <2> QED
    BY <1>1, <1>2, <1>4, <2>2 DEF BlockOf
<1> QED
  BY <1>3, <1>4

\* Then what was said is shown.
LEMMA AlignedShows ==
  ASSUME NEW at \in Screens, NEW said \in Seq(Entry), NEW turn, Aligned(at, said, turn),
         NEW kind \in Speech
  PROVE  View(at.passages, kind, turn) = SaidText(said, kind)
<1> DEFINE b == at.passages
           s == TextsOf(said, kind)
           t == ShownTexts(b, kind, turn)
           M == {i \in 1..Len(said) : said[i].part # None}
           at0 == [i \in M |-> BlockOf(at, said[i].part)]
<1>1. /\ s \in Pieces /\ Len(s) = Len(said) /\ Len(said) \in Nat
      /\ \A i \in 1..Len(said) : s[i] = IF said[i].kind = kind THEN said[i].text ELSE <<>>
  BY SaidFacts
<1>2. b \in Seq(Passage) /\ \A i \in 1..Len(b) : b[i] \in Passage
  BY ScreenFacts
<1>3. /\ t \in Pieces /\ Len(t) = Len(b) /\ Len(b) \in Nat
      /\ \A i \in 1..Len(b) : t[i] = IF Shows(b[i], kind, turn) THEN b[i].text ELSE <<>>
  BY <1>2, ShownFacts
<1> HIDE DEF s, t
<1>4. \A i \in M : Matches(at, said[i], turn)
  BY DEF Aligned, Blank
<1>5. \A i \in M : i \in 1..Len(said) /\ at0[i] = BlockOf(at, said[i].part) /\ said[i].part # None
  OBVIOUS
<1>6. M \subseteq 1..Len(s)
  BY <1>1
<1>7. \A i \in M : BlockOf(at, said[i].part) \in 1..Len(t)
  BY <1>3, <1>4 DEF Matches
<1>8. at0 \in [M -> 1..Len(t)]
  BY <1>7
<1> HIDE DEF M, at0
<1>9. PairedBy(s, t, M, at0)
  <2>1. ASSUME NEW i \in M, NEW j \in M, i < j PROVE at0[i] < at0[j]
    BY <1>5, <2>1 DEF Aligned
  <2> QED
    BY <1>6, <1>8, <2>1 DEF PairedBy
<1>10. SameWhere(s, t, M, at0)
  <2>1. ASSUME NEW i \in M PROVE s[i] = t[at0[i]]
    <3> DEFINE k == BlockOf(at, said[i].part)
    <3>1. at0[i] = k /\ i \in 1..Len(said)
      BY <1>5
    <3>2. /\ k \in 1..Len(b) /\ Shows(b[k], said[i].kind, turn) /\ b[k].text = said[i].text
      BY <1>4 DEF Matches
    <3> HIDE DEF k
    <3>3. s[i] = IF said[i].kind = kind THEN said[i].text ELSE <<>>
      BY <1>1, <3>1
    <3>4. t[k] = IF Shows(b[k], kind, turn) THEN b[k].text ELSE <<>>
      BY <1>3, <3>2
    <3>5. Shows(b[k], kind, turn) <=> said[i].kind = kind
      BY <3>2 DEF Shows
    <3> QED
      BY <3>1, <3>2, <3>3, <3>4, <3>5
  <2>2. ASSUME NEW i \in 1..Len(s), i \notin M PROVE s[i] = <<>>
    <3>1. said[i].part = None /\ i \in 1..Len(said)
      BY <1>1, <2>2 DEF M
    <3>2. said[i].text = <<>>
      <4>1. None \notin AnyPart
        BY TextAssumption DEF AnyPart
      <4> QED
        BY <3>1, <4>1 DEF Aligned, Blank, Matches
    <3> QED
      BY <1>1, <3>1, <3>2
  <2>3. ASSUME NEW j \in 1..Len(t), \A i \in M : at0[i] # j PROVE t[j] = <<>>
    <3>1. j \in 1..Len(b)
      BY <1>3
    <3>2. ASSUME Shows(b[j], kind, turn) PROVE FALSE
      <4>1. b[j].turn = turn /\ ~b[j].gone
        BY <3>2 DEF Shows
      <4>2. PICK i \in 1..Len(said) : said[i].part # None /\ BlockOf(at, said[i].part) = j
        BY <3>1, <4>1 DEF Aligned
      <4>3. i \in M
        BY <4>2 DEF M
      <4> QED
        BY <1>5, <2>3, <4>2, <4>3
    <3> QED
      BY <1>3, <3>1, <3>2
  <2> QED
    BY <2>1, <2>2, <2>3 DEF SameWhere
<1>11. Joined(s) = Joined(t)
  BY <1>1, <1>3, <1>9, <1>10, JoinedMatch
<1> QED
  BY <1>11 DEF s, t, View, SaidText

\* Entries and blocks stay paired while the screen looks the same.
LEMMA AlignedAlike ==
  ASSUME NEW at \in Screens, NEW new \in Screens, NEW said \in Seq(Entry), NEW turn,
         Aligned(at, said, turn), LookAlike(at.passages, new.passages),
         new.stream.segments = at.stream.segments, new.thinking.views = at.thinking.views
  PROVE  Aligned(new, said, turn)
<1>1. \A p : BlockOf(new, p) = BlockOf(at, p)
  BY DEF BlockOf
<1>2. /\ Len(new.passages) = Len(at.passages)
      /\ \A kind : \A k \in 1..Len(at.passages) :
           /\ Shows(new.passages[k], kind, turn) <=> Shows(at.passages[k], kind, turn)
           /\ new.passages[k].text = at.passages[k].text /\ new.passages[k].turn = at.passages[k].turn
           /\ new.passages[k].gone <=> at.passages[k].gone
  BY DEF LookAlike, Shows
<1>3. ASSUME NEW e, Matches(at, e, turn) PROVE Matches(new, e, turn)
  <2> DEFINE k == BlockOf(at, e.part)
  <2>1. k \in 1..Len(at.passages) /\ BlockOf(new, e.part) = k
    BY <1>1, <1>3 DEF Matches
  <2>2. /\ Shows(new.passages[k], e.kind, turn) <=> Shows(at.passages[k], e.kind, turn)
        /\ new.passages[k].text = at.passages[k].text /\ k \in 1..Len(new.passages)
    BY <1>2, <2>1
  <2> QED
    BY <1>3, <2>1, <2>2 DEF Matches
<1>4. \A k \in 1..Len(new.passages) :
        new.passages[k].turn = turn /\ ~new.passages[k].gone =>
          \E i \in 1..Len(said) : said[i].part # None /\ BlockOf(new, said[i].part) = k
  <2>1. \A k \in 1..Len(at.passages) :
          new.passages[k].turn = at.passages[k].turn /\ (new.passages[k].gone <=> at.passages[k].gone)
    BY DEF LookAlike
  <2> QED
    BY <1>1, <1>2, <2>1 DEF Aligned
<1>5. \A i \in 1..Len(said) : Blank(said[i]) \/ Matches(new, said[i], turn)
  BY <1>3 DEF Aligned
<1> QED
  BY <1>1, <1>4, <1>5 DEF Aligned

\* What was said, once a part has this text.
Retold(said, p, text) ==
  IF {i \in DOMAIN said : said[i].part = p} = {}
  THEN Append(said, Said(PassageKind(p), p, text))
  ELSE [i \in DOMAIN said |-> IF said[i].part = p THEN Said(PassageKind(p), p, text) ELSE said[i]]

\* An entry of a part.
LEMMA EntryOf ==
  ASSUME NEW p \in AnyPart, NEW text \in Words
  PROVE  LET e == Said(PassageKind(p), p, text)
         IN  e \in Entry /\ e.kind = PassageKind(p) /\ e.part = p /\ e.text = text
<1>1. PassageKind(p) \in {"assistant", "thinking"}
  BY DEF PassageKind
<1> HIDE DEF Words
<1> QED
  BY <1>1 DEF Said, Entry

\* The entry of a part is the last one now, or where it was.
LEMMA RetoldFacts ==
  ASSUME NEW said \in Seq(Entry), NEW p \in AnyPart, NEW text \in Words
  PROVE  LET r == Retold(said, p, text)
             e == Said(PassageKind(p), p, text)
             n == Len(said)
         IN  /\ r \in Seq(Entry) /\ n \in Nat
             /\ (\A i \in 1..n : said[i].part # p) =>
                  Len(r) = n + 1 /\ r[n + 1] = e /\ (\A i \in 1..n : r[i] = said[i])
             /\ (\E i \in 1..n : said[i].part = p) =>
                  /\ Len(r) = n
                  /\ \A i \in 1..n : r[i] = IF said[i].part = p THEN e ELSE said[i]
<1> DEFINE r == Retold(said, p, text)
           e == Said(PassageKind(p), p, text)
           n == Len(said)
           T == {i \in DOMAIN said : said[i].part = p}
<1>1. n \in Nat /\ DOMAIN said = 1..n /\ \A i \in 1..n : said[i] \in Entry
  BY LenProperties, ElementOfSeq
<1>2. e \in Entry
  BY EntryOf
<1> HIDE DEF e
<1>3. CASE T = {}
  <2>1. r = Append(said, e)
    BY <1>3 DEF Retold, e
  <2>2. r \in Seq(Entry) /\ Len(r) = n + 1 /\ r[n + 1] = e /\ \A i \in 1..n : r[i] = said[i]
    BY <1>2, <2>1, AppendProperties
  <2>3. \A i \in 1..n : said[i].part # p
    BY <1>1, <1>3
  <2> HIDE DEF r
  <2> QED
    BY <1>1, <2>2, <2>3 DEF r, e
<1>4. CASE T # {}
  <2>1. r = [i \in 1..n |-> IF said[i].part = p THEN e ELSE said[i]]
    BY <1>1, <1>4 DEF Retold, e
  <2>2. \E i \in 1..n : said[i].part = p
    BY <1>1, <1>4
  <2> HIDE DEF r
  <2>3. r \in [1..n -> Entry]
    BY <1>1, <1>2, <2>1
  <2>4. r \in Seq(Entry) /\ Len(r) = n
    BY <1>1, <2>3, FunctionIsSeq
  <2>5. \A i \in 1..n : r[i] = IF said[i].part = p THEN e ELSE said[i]
    BY <2>1
  <2> QED
    BY <1>1, <2>2, <2>4, <2>5 DEF r, e
<1> QED
  BY <1>3, <1>4

\* The block a part has or gets.
BlockFor(at, p) == IF BlockOf(at, p) = None THEN Len(at.passages) + 1 ELSE BlockOf(at, p)

\* The screen, once the text of a part is this.
Rewritten(at, new, p, text) ==
  /\ Wrote(at.passages, new.passages, BlockFor(at, p), PassageKind(p), text)
  /\ BlockOf(new, p) = BlockFor(at, p)
  /\ \A q \in AnyPart : q # p => BlockOf(new, q) = BlockOf(at, q)
  /\ p \in TextPart => new.stream.segments[p].text = text
  /\ \A q \in TextPart : q # p => new.stream.segments[q].text = at.stream.segments[q].text

\* A part that was not told has no block, one that was has the block of its entry alone.
LEMMA BlockKnown ==
  ASSUME NEW at \in Screens, NEW said \in Seq(Entry), NEW turn, Aligned(at, said, turn),
         NEW p \in AnyPart
  PROVE  /\ (\A i \in 1..Len(said) : said[i].part # p) => BlockOf(at, p) = None
         /\ \A i \in 1..Len(said) : said[i].part = p =>
              /\ Matches(at, said[i], turn) /\ BlockOf(at, p) \in 1..Len(at.passages)
              /\ BlockOf(at, p) # None
              /\ \A j \in 1..Len(said) : j # i => said[j].part # p
<1>1. (\A i \in 1..Len(said) : said[i].part # p) => BlockOf(at, p) = None
  BY DEF Aligned
<1>2. ASSUME NEW i \in 1..Len(said), said[i].part = p
      PROVE  /\ Matches(at, said[i], turn) /\ BlockOf(at, p) \in 1..Len(at.passages)
             /\ BlockOf(at, p) # None
             /\ \A j \in 1..Len(said) : j # i => said[j].part # p
  <2>0. p # None /\ Len(said) \in Nat /\ Len(at.passages) \in Nat
    BY PartFacts, ScreenFacts, LenProperties
  <2>1. Matches(at, said[i], turn)
    BY <1>2, <2>0 DEF Aligned, Blank
  <2>2. BlockOf(at, p) \in 1..Len(at.passages)
    BY <1>2, <2>1 DEF Matches
  <2>3. BlockOf(at, p) # None
    BY <2>0, <2>2, TextAssumption
  <2>4. ASSUME NEW j \in 1..Len(said), j # i, said[j].part = p PROVE FALSE
    <3>1. i < j => BlockOf(at, p) < BlockOf(at, p)
      BY <1>2, <2>0, <2>4 DEF Aligned
    <3>2. j < i => BlockOf(at, p) < BlockOf(at, p)
      BY <1>2, <2>0, <2>4 DEF Aligned
    <3> QED
      BY <2>0, <2>2, <2>4, <3>1, <3>2
  <2> QED
    BY <2>1, <2>2, <2>3, <2>4
<1> QED
  BY <1>1, <1>2

\* Two parts that were told have two blocks.
LEMMA BlocksDiffer ==
  ASSUME NEW at \in Screens, NEW said \in Seq(Entry), NEW turn, Aligned(at, said, turn),
         NEW i \in 1..Len(said), NEW j \in 1..Len(said), said[i].part # None, said[j].part # None,
         i # j
  PROVE  BlockOf(at, said[i].part) # BlockOf(at, said[j].part)
<1>0. Len(said) \in Nat /\ Len(at.passages) \in Nat
  BY ScreenFacts, LenProperties
<1>1. Matches(at, said[i], turn) /\ Matches(at, said[j], turn)
  BY DEF Aligned, Blank
<1>2. BlockOf(at, said[i].part) \in Nat /\ BlockOf(at, said[j].part) \in Nat
  BY <1>0, <1>1 DEF Matches
<1>3. i < j => BlockOf(at, said[i].part) < BlockOf(at, said[j].part)
  BY DEF Aligned
<1>4. j < i => BlockOf(at, said[j].part) < BlockOf(at, said[i].part)
  BY DEF Aligned
<1> QED
  BY <1>0, <1>2, <1>3, <1>4

\* Entries and blocks stay paired while a part is told, first
LEMMA AlignedBegun ==
  ASSUME NEW at \in Screens, NEW new \in Screens, NEW said \in Seq(Entry), turnsBegun \in Nat,
         Aligned(at, said, turnsBegun), NEW p \in AnyPart, NEW text \in Words, text # <<>>,
         Rewritten(at, new, p, text), \A i \in 1..Len(said) : said[i].part # p
  PROVE  Aligned(new, Retold(said, p, text), turnsBegun)
<1> DEFINE r == Retold(said, p, text)
           e == Said(PassageKind(p), p, text)
           n == Len(said)
           l == Len(at.passages)
<1>1. /\ r \in Seq(Entry) /\ n \in Nat /\ Len(r) = n + 1 /\ r[n + 1] = e
      /\ \A i \in 1..n : r[i] = said[i]
  BY RetoldFacts
<1>2. e.kind = PassageKind(p) /\ e.part = p /\ e.text = text
  BY EntryOf
<1> HIDE DEF r, e
<1>3. l \in Nat /\ BlockOf(at, p) = None /\ p # None
  BY ScreenFacts, BlockKnown, PartFacts
<1>4. BlockFor(at, p) = l + 1 /\ l + 1 \notin 1..l
  BY <1>3 DEF BlockFor
<1>5. /\ Len(new.passages) = l + 1 /\ \A i \in 1..l : new.passages[i] = at.passages[i]
      /\ new.passages[l + 1].kind = PassageKind(p) /\ new.passages[l + 1].text = text
      /\ ~new.passages[l + 1].gone /\ new.passages[l + 1].turn = turnsBegun
  BY <1>4 DEF Rewritten, Wrote
<1>6. /\ BlockOf(new, p) = l + 1
      /\ \A q \in AnyPart : q # p => BlockOf(new, q) = BlockOf(at, q)
      /\ p \in TextPart => new.stream.segments[p].text = text
      /\ \A q \in TextPart : q # p => new.stream.segments[q].text = at.stream.segments[q].text
  BY <1>4 DEF Rewritten
<1>7. Matches(new, e, turnsBegun)
  <2>1. l + 1 \in 1..Len(new.passages)
    BY <1>3, <1>5
  <2> QED
    BY <1>2, <1>5, <1>6, <2>1 DEF Matches, Shows
<1>8. ASSUME NEW i \in 1..n, Matches(at, said[i], turnsBegun)
      PROVE  Matches(new, said[i], turnsBegun) /\ BlockOf(new, said[i].part) = BlockOf(at, said[i].part)
  <2>1. said[i].part \in AnyPart /\ said[i].part # p
    BY <1>8 DEF Matches
  <2>2. BlockOf(new, said[i].part) = BlockOf(at, said[i].part)
    BY <1>6, <2>1
  <2>3. BlockOf(at, said[i].part) \in 1..l /\ BlockOf(at, said[i].part) \in 1..Len(new.passages)
    BY <1>3, <1>5, <1>8 DEF Matches
  <2> QED
    BY <1>5, <1>6, <1>8, <2>1, <2>2, <2>3 DEF Matches
<1>9. \A i \in 1..n : Blank(said[i]) \/ Matches(at, said[i], turnsBegun)
  BY DEF Aligned
<1>10. \A i \in 1..Len(r) : i \in 1..n \/ i = n + 1
  BY <1>1
<1>11. \A i \in 1..Len(r) : Blank(r[i]) \/ Matches(new, r[i], turnsBegun)
  BY <1>1, <1>7, <1>8, <1>9, <1>10
<1>12. ASSUME NEW i \in 1..Len(r), NEW j \in 1..Len(r), r[i].part # None, r[j].part # None, i < j
       PROVE  BlockOf(new, r[i].part) < BlockOf(new, r[j].part)
  <2>1. i \in 1..n /\ r[i] = said[i] /\ Matches(at, said[i], turnsBegun)
    BY <1>1, <1>9, <1>12 DEF Blank
  <2>2. BlockOf(new, r[i].part) = BlockOf(at, said[i].part) /\ BlockOf(at, said[i].part) \in 1..l
    BY <1>8, <2>1 DEF Matches
  <2>3. CASE j \in 1..n
    <3>1. r[j] = said[j] /\ Matches(at, said[j], turnsBegun)
      BY <1>1, <1>9, <1>12, <2>3 DEF Blank
    <3>2. BlockOf(at, said[i].part) < BlockOf(at, said[j].part)
      BY <1>12, <2>1, <2>3, <3>1 DEF Aligned
    <3> QED
      BY <1>8, <2>2, <2>3, <3>1, <3>2
  <2>4. CASE j = n + 1
    BY <1>1, <1>2, <1>3, <1>6, <2>2, <2>4
  <2> QED
    BY <1>10, <2>3, <2>4
<1>13. ASSUME NEW q \in AnyPart, BlockOf(new, q) # None PROVE \E i \in 1..Len(r) : r[i].part = q
  <2>1. CASE q = p
    <3>1. n + 1 \in 1..Len(r) /\ r[n + 1].part = q
      BY <1>1, <1>2, <2>1
    <3> QED
      BY <3>1
  <2>2. CASE q # p
    <3>1. BlockOf(at, q) # None
      BY <1>6, <1>13, <2>2
    <3>2. PICK i \in 1..n : said[i].part = q
      BY <3>1 DEF Aligned
    <3>3. i \in 1..Len(r) /\ r[i].part = q
      BY <1>1, <3>2
    <3> QED
      BY <3>3
  <2> QED
    BY <2>1, <2>2
<1>14. ASSUME NEW k \in 1..Len(new.passages), new.passages[k].turn = turnsBegun, ~new.passages[k].gone
       PROVE  \E i \in 1..Len(r) : r[i].part # None /\ BlockOf(new, r[i].part) = k
  <2>1. CASE k = l + 1
    <3>1. n + 1 \in 1..Len(r) /\ r[n + 1].part = p
      BY <1>1, <1>2
    <3> QED
      BY <1>3, <1>6, <2>1, <3>1
  <2>2. CASE k # l + 1
    <3>1. k \in 1..l /\ new.passages[k] = at.passages[k]
      BY <1>3, <1>5, <2>2
    <3>2. PICK i \in 1..n : said[i].part # None /\ BlockOf(at, said[i].part) = k
      BY <1>14, <3>1 DEF Aligned
    <3>3. i \in 1..Len(r) /\ r[i] = said[i]
      BY <1>1
    <3>4. BlockOf(new, said[i].part) = k
      BY <1>8, <1>9, <3>2 DEF Blank
    <3> QED
      BY <3>2, <3>3, <3>4
  <2> QED
    BY <2>1, <2>2
<1> QED
  BY <1>11, <1>12, <1>13, <1>14 DEF Aligned, r

\* or again.
LEMMA AlignedAgain ==
  ASSUME NEW at \in Screens, NEW new \in Screens, NEW said \in Seq(Entry), turnsBegun \in Nat,
         Aligned(at, said, turnsBegun), NEW p \in AnyPart, NEW text \in Words, text # <<>>,
         Rewritten(at, new, p, text), NEW o \in 1..Len(said), said[o].part = p
  PROVE  Aligned(new, Retold(said, p, text), turnsBegun)
<1> DEFINE r == Retold(said, p, text)
           e == Said(PassageKind(p), p, text)
           n == Len(said)
           l == Len(at.passages)
           c == BlockOf(at, p)
<1>1. /\ r \in Seq(Entry) /\ n \in Nat /\ Len(r) = n
      /\ \A i \in 1..n : r[i] = IF said[i].part = p THEN e ELSE said[i]
  BY RetoldFacts
<1>2. e.kind = PassageKind(p) /\ e.part = p /\ e.text = text
  BY EntryOf
<1> HIDE DEF r, e
<1>3. /\ Matches(at, said[o], turnsBegun) /\ c \in 1..l /\ c # None
      /\ \A j \in 1..n : j # o => said[j].part # p
  BY BlockKnown
<1>4. l \in Nat /\ p # None
  BY ScreenFacts, PartFacts
<1>5. BlockFor(at, p) = c /\ c # l + 1
  BY <1>3, <1>4 DEF BlockFor
<1>6. /\ Len(new.passages) = l /\ \A i \in 1..l : i # c => new.passages[i] = at.passages[i]
      /\ new.passages[c].kind = at.passages[c].kind /\ new.passages[c].text = text
      /\ new.passages[c].gone = at.passages[c].gone /\ new.passages[c].turn = at.passages[c].turn
  BY <1>5 DEF Rewritten, Wrote
<1>7. /\ BlockOf(new, p) = c
      /\ \A q \in AnyPart : q # p => BlockOf(new, q) = BlockOf(at, q)
      /\ p \in TextPart => new.stream.segments[p].text = text
      /\ \A q \in TextPart : q # p => new.stream.segments[q].text = at.stream.segments[q].text
  BY <1>5 DEF Rewritten
<1> HIDE DEF c
<1>8. Matches(new, e, turnsBegun)
  <2>1. Shows(at.passages[c], PassageKind(p), turnsBegun)
    BY <1>3 DEF Matches, c
  <2>2. Shows(new.passages[c], PassageKind(p), turnsBegun)
    BY <1>6, <2>1 DEF Shows
  <2> QED
    BY <1>2, <1>3, <1>6, <1>7, <2>2 DEF Matches
<1>9. \A i \in 1..n : Blank(said[i]) \/ Matches(at, said[i], turnsBegun)
  BY DEF Aligned
<1>10. ASSUME NEW i \in 1..n, said[i].part # p, Matches(at, said[i], turnsBegun)
       PROVE  Matches(new, said[i], turnsBegun)
  <2>1. said[i].part \in AnyPart /\ said[i].part # None
    BY <1>10, PartFacts DEF Matches
  <2>2. BlockOf(new, said[i].part) = BlockOf(at, said[i].part)
    BY <1>7, <1>10, <2>1
  <2>3. BlockOf(at, said[i].part) # c
    <3>1. i # o /\ said[o].part # None
      BY <1>4, <1>10
    <3>2. BlockOf(at, said[i].part) # BlockOf(at, said[o].part)
      BY <2>1, <3>1, BlocksDiffer
    <3> QED
      BY <3>2 DEF c
  <2>4. BlockOf(at, said[i].part) \in 1..l
    BY <1>10 DEF Matches
  <2> QED
    BY <1>6, <1>7, <1>10, <2>1, <2>2, <2>3, <2>4 DEF Matches
<1>11. ASSUME NEW i \in 1..n
       PROVE  /\ r[i].part = said[i].part
              /\ Blank(r[i]) \/ Matches(new, r[i], turnsBegun)
              /\ said[i].part # None => BlockOf(new, r[i].part) = BlockOf(at, said[i].part)
  <2>1. CASE said[i].part = p
    BY <1>1, <1>2, <1>7, <1>8, <2>1 DEF c
  <2>2. CASE said[i].part # p
    <3>1. r[i] = said[i]
      BY <1>1, <2>2
    <3>2. said[i].part # None => said[i].part \in AnyPart
      BY <1>9 DEF Blank, Matches
    <3> QED
      BY <1>7, <1>9, <1>10, <2>2, <3>1, <3>2
  <2> QED
    BY <2>1, <2>2
<1>12. \A i \in 1..n : r[i].part = said[i].part
  BY <1>1, <1>2
<1>13. \A i \in 1..n, j \in 1..n : r[i].part # None /\ r[j].part # None /\ i < j =>
         BlockOf(new, r[i].part) < BlockOf(new, r[j].part)
  BY <1>11, <1>12 DEF Aligned
<1>14. \A q \in AnyPart : BlockOf(new, q) # None => \E i \in 1..n : r[i].part = q
  <2>1. \A q \in AnyPart : BlockOf(new, q) # None => BlockOf(at, q) # None
    BY <1>3, <1>7 DEF c
  <2> QED
    BY <1>12, <2>1 DEF Aligned
<1>15. ASSUME NEW k \in 1..Len(new.passages), new.passages[k].turn = turnsBegun, ~new.passages[k].gone
       PROVE  \E i \in 1..n : r[i].part # None /\ BlockOf(new, r[i].part) = k
  <2>1. k \in 1..l /\ at.passages[k].turn = turnsBegun /\ ~at.passages[k].gone
    BY <1>6, <1>15
  <2>2. PICK i \in 1..n : said[i].part # None /\ BlockOf(at, said[i].part) = k
    BY <2>1 DEF Aligned
  <2> QED
    BY <1>11, <1>12, <2>2
<1>16. \A i \in 1..n : Blank(r[i]) \/ Matches(new, r[i], turnsBegun)
  BY <1>11
<1> QED
  BY <1>1, <1>13, <1>14, <1>15, <1>16 DEF Aligned, r

\* The blocks of the parts ps.
BlocksOf(at, ps) == {BlockOf(at, p) : p \in {q \in ps : BlockOf(at, q) # None}}

\* Parts that are taken back have no block, and their blocks are gone.
LEMMA TakenBack ==
  ASSUME NEW at \in Screens, NEW ps \in SUBSET AnyPart
  PROVE  LET new == TakeBack(at, ps)
         IN  /\ new \in Screens /\ Len(new.passages) = Len(at.passages)
             /\ \A i \in 1..Len(at.passages) :
                  /\ new.passages[i].turn = at.passages[i].turn
                  /\ i \in BlocksOf(at, ps) => new.passages[i].gone
                  /\ i \notin BlocksOf(at, ps) => new.passages[i] = at.passages[i]
             /\ \A p \in AnyPart : BlockOf(new, p) = IF p \in ps THEN None ELSE BlockOf(at, p)
             /\ \A p \in TextPart : p \notin ps => new.stream.segments[p] = at.stream.segments[p]
             /\ new.stream.text = at.stream.text
             /\ \/ new.stream.current = None /\ new.stream.part = None
                \/ new.stream.current = at.stream.current /\ new.stream.part = at.stream.part
             /\ new.thinking.current \in {None, at.thinking.current}
<1> DEFINE shown == {p \in ps : BlockOf(at, p) # None}
           blocks == {BlockOf(at, p) : p \in shown}
           s == at.stream
           th == at.thinking
           broken == s.part \in shown
           left == th.current \in blocks
           b == [i \in DOMAIN at.passages |->
                   IF i \in blocks THEN [at.passages[i] EXCEPT !.gone = TRUE] ELSE at.passages[i]]
           segments == [p \in TextPart |-> IF p \in shown THEN NoSegments[p] ELSE s.segments[p]]
           views == [p \in ThoughtPart |-> IF p \in shown THEN None ELSE th.views[p]]
           str == [s EXCEPT !.segments = segments,
                            !.current = IF broken THEN None ELSE @,
                            !.part = IF broken THEN None ELSE @]
           tho == [th EXCEPT !.views = views,
                             !.current = IF left THEN None ELSE @,
                             !.part = IF left THEN None ELSE @]
           new == TakeBack(at, ps)
           n == Len(at.passages)
<1>1. new = Screen(b, str, tho)
  BY DEF TakeBack
<1>2. blocks = BlocksOf(at, ps)
  BY DEF BlocksOf
<1>3. /\ n \in Nat /\ DOMAIN at.passages = 1..n /\ \A i \in 1..n : at.passages[i] \in Passage
  BY ScreenFacts
<1>4. /\ b \in Seq(Passage) /\ Len(b) = n
      /\ \A i \in 1..n : /\ b[i].turn = at.passages[i].turn
                         /\ i \in blocks => b[i].gone
                         /\ i \notin blocks => b[i] = at.passages[i]
  <2> HIDE DEF blocks
  <2>1. b = [i \in 1..n |->
               IF i \in blocks THEN [at.passages[i] EXCEPT !.gone = TRUE] ELSE at.passages[i]]
    BY <1>3
  <2> HIDE DEF b
  <2>2. ASSUME NEW i \in 1..n
        PROVE  LET x == [at.passages[i] EXCEPT !.gone = TRUE]
               IN  x \in Passage /\ x.gone /\ x.turn = at.passages[i].turn
    BY <1>3 DEF Passage
  <2>3. b \in [1..n -> Passage]
    BY <1>3, <2>1, <2>2
  <2>4. b \in Seq(Passage) /\ Len(b) = n
    BY <1>3, <2>3, FunctionIsSeq
  <2>5. \A i \in 1..n : /\ b[i].turn = at.passages[i].turn
                        /\ i \in blocks => b[i].gone
                        /\ i \notin blocks => b[i] = at.passages[i]
    BY <2>1, <2>2
  <2> QED
    BY <2>4, <2>5
<1>5. /\ segments \in [TextPart -> Segment]
      /\ \A p \in TextPart : segments[p] = IF p \in shown THEN NoSegments[p] ELSE s.segments[p]
  <2>1. \A p \in TextPart : NoSegments[p] \in Segment /\ s.segments[p] \in Segment
    BY ScreenFacts, EmptySeq DEF NoSegments, Segment, MaybeBlock, Words
  <2> HIDE DEF shown
  <2> QED
    BY <2>1
<1>6. /\ views \in [ThoughtPart -> MaybeBlock]
      /\ \A p \in ThoughtPart : views[p] = IF p \in shown THEN None ELSE th.views[p]
  <2>1. \A p \in ThoughtPart : th.views[p] \in MaybeBlock /\ None \in MaybeBlock
    BY ScreenFacts DEF MaybeBlock
  <2> HIDE DEF shown
  <2> QED
    BY <2>1
<1>7. /\ str \in Streams /\ str.segments = segments /\ str.text = s.text
      /\ \/ str.current = None /\ str.part = None
         \/ str.current = s.current /\ str.part = s.part
  <2> HIDE DEF segments, broken
  <2>1. s \in Streams /\ None \in MaybeBlock
    BY ScreenFacts DEF MaybeBlock
  <2> HIDE DEF s
  <2> QED
    BY <1>5, <2>1 DEF Streams
<1>8. /\ tho \in Thoughts /\ tho.views = views /\ tho.current \in {None, th.current}
  <2> HIDE DEF views, left
  <2>1. th \in Thoughts /\ None \in MaybeBlock
    BY ScreenFacts DEF MaybeBlock
  <2> HIDE DEF th
  <2> QED
    BY <1>6, <2>1 DEF Thoughts
<1> HIDE DEF b, str, tho
<1>9. new \in Screens /\ new.passages = b /\ new.stream = str /\ new.thinking = tho
  BY <1>1, <1>4, <1>7, <1>8, ScreenOf
<1>10. ASSUME NEW p \in AnyPart
       PROVE  BlockOf(new, p) = IF p \in ps THEN None ELSE BlockOf(at, p)
  <2>1. p \in shown <=> p \in ps /\ BlockOf(at, p) # None
    OBVIOUS
  <2> HIDE DEF shown
  <2>2. CASE p \in TextPart
    <3>1. BlockOf(new, p) = segments[p].block /\ BlockOf(at, p) = s.segments[p].block
      BY <1>7, <1>9, <2>2 DEF BlockOf
    <3>2. NoSegments[p].block = None
      BY <2>2 DEF NoSegments
    <3> HIDE DEF segments
    <3> QED
      BY <1>5, <2>1, <2>2, <3>1, <3>2
  <2>3. CASE p \notin TextPart
    <3>1. p \in ThoughtPart
      BY <2>3 DEF AnyPart
    <3>2. BlockOf(new, p) = views[p] /\ BlockOf(at, p) = th.views[p]
      BY <1>8, <1>9, <2>3 DEF BlockOf
    <3> HIDE DEF views
    <3> QED
      BY <1>6, <2>1, <3>1, <3>2
  <2> QED
    BY <2>2, <2>3
<1>11. \A p \in TextPart : p \notin ps => new.stream.segments[p] = at.stream.segments[p]
  BY <1>5, <1>7, <1>9
<1> HIDE DEF new, segments, views, blocks
<1> QED
  BY <1>2, <1>4, <1>7, <1>8, <1>9, <1>10, <1>11 DEF new

\* What was said, without some parts.
Forgotten(said, ps) ==
  [i \in DOMAIN said |-> IF said[i].part \in ps THEN Said("gone", None, <<>>) ELSE said[i]]

\* Their entries are blank, and the others as they were.
LEMMA ForgottenFacts ==
  ASSUME NEW said \in Seq(Entry), NEW ps
  PROVE  LET r == Forgotten(said, ps)
             gone == Said("gone", None, <<>>)
         IN  /\ r \in Seq(Entry) /\ Len(r) = Len(said) /\ Len(said) \in Nat
             /\ Blank(gone)
             /\ \A i \in 1..Len(said) : r[i] = IF said[i].part \in ps THEN gone ELSE said[i]
<1> DEFINE r == Forgotten(said, ps)
           gone == Said("gone", None, <<>>)
           n == Len(said)
<1>1. n \in Nat /\ DOMAIN said = 1..n /\ \A i \in 1..n : said[i] \in Entry
  BY LenProperties, ElementOfSeq
<1>2. gone \in Entry /\ Blank(gone)
  <2>1. <<>> \in Words
    BY EmptySeq DEF Words
  <2> QED
    BY <2>1 DEF Said, Entry, Blank
<1> HIDE DEF gone
<1>3. r = [i \in 1..n |-> IF said[i].part \in ps THEN gone ELSE said[i]]
  BY <1>1 DEF Forgotten, gone
<1> HIDE DEF r
<1>4. r \in [1..n -> Entry]
  BY <1>1, <1>2, <1>3
<1>5. r \in Seq(Entry) /\ Len(r) = n
  BY <1>1, <1>4, FunctionIsSeq
<1>6. \A i \in 1..n : r[i] = IF said[i].part \in ps THEN gone ELSE said[i]
  BY <1>3
<1> QED
  BY <1>1, <1>2, <1>5, <1>6 DEF r, gone

\* Entries and blocks stay paired when parts are taken back.
LEMMA AlignedTakenBack ==
  ASSUME NEW at \in Screens, NEW said \in Seq(Entry), NEW turn, Aligned(at, said, turn),
         NEW ps \in SUBSET AnyPart
  PROVE  Aligned(TakeBack(at, ps), Forgotten(said, ps), turn)
<1> DEFINE new == TakeBack(at, ps)
           r == Forgotten(said, ps)
           gone == Said("gone", None, <<>>)
           n == Len(said)
           l == Len(at.passages)
           blocks == BlocksOf(at, ps)
<1>1. /\ new \in Screens /\ Len(new.passages) = l
      /\ \A i \in 1..l : /\ new.passages[i].turn = at.passages[i].turn
                         /\ i \in blocks => new.passages[i].gone
                         /\ i \notin blocks => new.passages[i] = at.passages[i]
      /\ \A p \in AnyPart : BlockOf(new, p) = IF p \in ps THEN None ELSE BlockOf(at, p)
      /\ \A p \in TextPart : p \notin ps => new.stream.segments[p] = at.stream.segments[p]
  BY TakenBack
<1>2. /\ r \in Seq(Entry) /\ Len(r) = n /\ n \in Nat /\ Blank(gone)
      /\ \A i \in 1..n : r[i] = IF said[i].part \in ps THEN gone ELSE said[i]
  BY ForgottenFacts
<1>3. \A i \in 1..n : Blank(said[i]) \/ Matches(at, said[i], turn)
  BY DEF Aligned
<1> HIDE DEF new, r, gone
<1>4. \A q \in AnyPart : BlockOf(at, q) # None => \E i \in 1..n : said[i].part = q
  BY DEF Aligned
<1>5. ASSUME NEW i \in 1..n, said[i].part \notin ps, Matches(at, said[i], turn)
      PROVE  BlockOf(at, said[i].part) \notin blocks
  <2>1. ASSUME NEW q \in ps, BlockOf(at, q) # None, BlockOf(at, said[i].part) = BlockOf(at, q)
        PROVE  FALSE
    <3>1. q \in AnyPart /\ q # None
      BY PartFacts
    <3>2. PICK j \in 1..n : said[j].part = q
      BY <1>4, <2>1, <3>1
    <3>3. said[i].part # None /\ i # j
      BY <1>5, <3>2, PartFacts DEF Matches
    <3>4. BlockOf(at, said[i].part) # BlockOf(at, said[j].part)
      BY <3>1, <3>2, <3>3, BlocksDiffer
    <3> QED
      BY <2>1, <3>2, <3>4
  <2> QED
    BY <2>1 DEF BlocksOf
<1> HIDE DEF blocks
<1>6. ASSUME NEW i \in 1..n, said[i].part \notin ps, Matches(at, said[i], turn)
      PROVE  Matches(new, said[i], turn) /\ BlockOf(new, said[i].part) = BlockOf(at, said[i].part)
  <2>1. said[i].part \in AnyPart /\ BlockOf(at, said[i].part) \in 1..l
    BY <1>6 DEF Matches
  <2>2. BlockOf(new, said[i].part) = BlockOf(at, said[i].part)
    BY <1>1, <1>6, <2>1
  <2>3. new.passages[BlockOf(at, said[i].part)] = at.passages[BlockOf(at, said[i].part)]
    BY <1>1, <1>5, <1>6, <2>1
  <2> QED
    BY <1>1, <1>6, <2>1, <2>2, <2>3 DEF Matches
<1>7. ASSUME NEW i \in 1..n PROVE Blank(r[i]) \/ Matches(new, r[i], turn)
  <2>1. CASE said[i].part \in ps
    BY <1>2, <2>1
  <2>2. CASE said[i].part \notin ps
    <3>1. r[i] = said[i]
      BY <1>2, <2>2
    <3> QED
      BY <1>3, <1>6, <2>2, <3>1
  <2> QED
    BY <2>1, <2>2
<1>8. ASSUME NEW i \in 1..n, r[i].part # None
      PROVE  /\ r[i] = said[i] /\ said[i].part # None
             /\ BlockOf(new, r[i].part) = BlockOf(at, said[i].part)
  <2>1. said[i].part \notin ps
    BY <1>2, <1>8 DEF Blank
  <2>2. r[i] = said[i]
    BY <1>2, <2>1
  <2>3. Matches(at, said[i], turn)
    BY <1>3, <1>8, <2>2 DEF Blank
  <2> QED
    BY <1>6, <1>8, <2>1, <2>2, <2>3
<1>9. \A i \in 1..n, j \in 1..n : r[i].part # None /\ r[j].part # None /\ i < j =>
        BlockOf(new, r[i].part) < BlockOf(new, r[j].part)
  BY <1>8 DEF Aligned
<1>10. ASSUME NEW q \in AnyPart, BlockOf(new, q) # None PROVE \E i \in 1..n : r[i].part = q
  <2>1. q \notin ps /\ BlockOf(at, q) # None
    BY <1>1, <1>10
  <2>2. PICK i \in 1..n : said[i].part = q
    BY <1>4, <2>1
  <2>3. r[i] = said[i]
    BY <1>2, <2>1, <2>2
  <2> QED
    BY <2>2, <2>3
<1>11. ASSUME NEW k \in 1..l, new.passages[k].turn = turn, ~new.passages[k].gone
       PROVE  \E i \in 1..n : r[i].part # None /\ BlockOf(new, r[i].part) = k
  <2>1. k \notin blocks /\ at.passages[k].turn = turn /\ ~at.passages[k].gone
    BY <1>1, <1>11
  <2>2. PICK i \in 1..n : said[i].part # None /\ BlockOf(at, said[i].part) = k
    BY <2>1 DEF Aligned
  <2>3. Matches(at, said[i], turn)
    BY <1>3, <2>2 DEF Blank
  <2>4. said[i].part \notin ps
    <3>1. BlockOf(at, said[i].part) # None
      <4>1. said[i].part \in AnyPart /\ BlockOf(at, said[i].part) \in Nat
        BY <2>3, ScreenFacts DEF Matches
      <4> QED
        BY <4>1, TextAssumption
    <3> QED
      BY <2>1, <2>2, <3>1 DEF blocks, BlocksOf
  <2>5. r[i] = said[i]
    BY <1>2, <2>4
  <2> QED
    BY <1>6, <2>2, <2>3, <2>4, <2>5
<1> QED
  BY <1>1, <1>2, <1>7, <1>9, <1>10, <1>11 DEF Aligned, new, r

-----------------------------------------------------------------------------
(* The streamed text. *)

\* A text of one token.
LEMMA OneWord ==
  ASSUME NEW f \in Nat
  PROVE  <<f>> \in Words /\ Len(<<f>>) = 1 /\ <<f>>[1] = f /\ <<f>> # <<>>
<1>1. <<f>> \in Seq(Nat) /\ Len(<<f>>) = 1 /\ <<f>>[1] = f
  OBVIOUS
<1>2. <<f>> # <<>>
  BY <1>1, EmptySeq
<1> QED
  BY <1>1, <1>2 DEF Words

\* A text of two parts, cut between them.
LEMMA WordsCut ==
  ASSUME NEW a \in Words, NEW b \in Words
  PROVE  /\ a \o b \in Words /\ Len(a) \in Nat /\ Len(b) \in Nat /\ Len(a \o b) = Len(a) + Len(b)
         /\ SubSeq(a \o b, 1, Len(a)) = a
         /\ SubSeq(a \o b, Len(a) + 1, Len(a \o b)) = b
<1> DEFINE w == a \o b
<1>1. /\ w \in Words /\ Len(a) \in Nat /\ Len(b) \in Nat /\ Len(w) = Len(a) + Len(b)
      /\ \A i \in 1 .. Len(a) + Len(b) : w[i] = IF i <= Len(a) THEN a[i] ELSE b[i - Len(a)]
  BY ConcatProperties, LenProperties DEF Words
<1> HIDE DEF w
<1>2. SubSeq(w, 1, Len(a)) = a
  <2> DEFINE x == SubSeq(w, 1, Len(a))
  <2>1. Len(a) <= Len(w) /\ (1 <= Len(a) => Len(a) - 1 + 1 = Len(a)) /\ (~(1 <= Len(a)) => Len(a) = 0)
    BY <1>1
  <2>2. /\ x \in Words /\ Len(x) = IF 1 <= Len(a) THEN Len(a) - 1 + 1 ELSE 0
        /\ \A i \in 1 .. Len(a) - 1 + 1 : x[i] = w[1 + i - 1]
    BY <1>1, <2>1, CutTyped DEF Words
  <2> HIDE DEF x
  <2>3. Len(x) = Len(a)
    BY <1>1, <2>1, <2>2
  <2>4. \A i \in 1..Len(x) : x[i] = a[i]
    BY <1>1, <2>2, <2>3
  <2>5. x = a
    BY <2>2, <2>3, <2>4, SeqEqual DEF Words
  <2> QED
    BY <2>5 DEF x
<1>3. SubSeq(w, Len(a) + 1, Len(w)) = b
  <2>1. CASE Len(b) = 0
    <3>1. b = <<>>
      BY <2>1, EmptySeq DEF Words
    <3>2. Len(w) < Len(a) + 1 /\ Len(a) + 1 \in Int /\ Len(w) \in Int
      BY <1>1, <2>1
    <3> QED
      BY <3>1, <3>2, SubSeqEmpty
  <2>2. CASE Len(b) # 0
    <3>1. /\ Len(a) + 1 \in Len(a) + 1 .. Len(a) + Len(b) /\ Len(w) \in Len(a) + 1 .. Len(a) + Len(b)
          /\ (Len(a) + 1) - Len(a) = 1 /\ Len(w) - Len(a) = Len(b)
      BY <1>1, <2>2
    <3>2. SubSeq(a \o b, Len(a) + 1, Len(w)) = SubSeq(b, (Len(a) + 1) - Len(a), Len(w) - Len(a))
      BY <3>1, SubSeqOfConcat2 DEF Words
    <3>3. SubSeq(b, 1, Len(b)) = b
      BY SubSeqFull DEF Words
    <3> QED
      BY <3>1, <3>2, <3>3 DEF w
  <2> QED
    BY <2>1, <2>2
<1> QED
  BY <1>1, <1>2, <1>3 DEF w

\* The first part is a prefix, the last one a suffix.
LEMMA CutEnds ==
  ASSUME NEW a \in Words, NEW b \in Words
  PROVE  IsPrefix(a, a \o b) /\ EndsWith(a \o b, b)
<1>1. /\ a \o b \in Words /\ Len(a) \in Nat /\ Len(b) \in Nat /\ Len(a \o b) = Len(a) + Len(b)
      /\ SubSeq(a \o b, 1, Len(a)) = a /\ SubSeq(a \o b, Len(a) + 1, Len(a \o b)) = b
  BY WordsCut
<1>2. SubSeq(a, 1, Len(a)) = a
  BY SubSeqFull DEF Words
<1>3. Len(a) <= Len(a \o b) /\ Len(b) <= Len(a \o b) /\ Len(a \o b) - Len(b) + 1 = Len(a) + 1
  BY <1>1
<1> QED
  BY <1>1, <1>2, <1>3 DEF IsPrefix, EndsWith

\* Nothing is left of a text behind itself.
LEMMA NothingLeft ==
  ASSUME NEW a \in Words
  PROVE  IsPrefix(a, a) /\ SubSeq(a, Len(a) + 1, Len(a)) = <<>> /\ a \o <<>> = a
<1>1. Len(a) \in Nat
  BY LenProperties DEF Words
<1>2. SubSeq(a, Len(a) + 1, Len(a)) = <<>>
  BY <1>1, SubSeqEmpty
<1>3. a \o <<>> = a
  BY ConcatEmptySeq DEF Words
<1> QED
  BY <1>1, <1>2, <1>3 DEF IsPrefix

\* A new token is in no text of before: it is not its start,
LEMMA NoPrefix ==
  ASSUME NEW n \in Nat, NEW a \in Seq(1..n), a # <<>>, NEW f \in Nat, n < f
  PROVE  ~IsPrefix(a, <<f>>)
<1>1. Len(a) \in Nat /\ Len(a) # 0
  BY EmptySeq
<1>2. Len(<<f>>) = 1 /\ <<f>>[1] = f /\ <<f>> \in Seq(Nat)
  OBVIOUS
<1>3. ASSUME IsPrefix(a, <<f>>) PROVE FALSE
  <2>1. Len(a) = 1 /\ SubSeq(a, 1, 1) = SubSeq(<<f>>, 1, 1)
    BY <1>1, <1>2, <1>3 DEF IsPrefix
  <2>2. SubSeq(a, 1, Len(a)) = a /\ SubSeq(<<f>>, 1, Len(<<f>>)) = <<f>>
    BY <1>2, SubSeqFull
  <2>3. a = <<f>>
    BY <1>2, <2>1, <2>2
  <2>4. a[1] \in 1..n
    BY <2>1, ElementOfSeq
  <2> QED
    BY <1>2, <2>3, <2>4
<1> QED
  BY <1>3

\* nor its end.
LEMMA NoEnd ==
  ASSUME NEW n \in Nat, NEW a \in Seq(1..n), NEW f \in Nat, n < f
  PROVE  ~EndsWith(a, <<f>>)
<1>1. Len(a) \in Nat
  BY LenProperties
<1>2. Len(<<f>>) = 1 /\ <<f>>[1] = f
  OBVIOUS
<1>3. ASSUME EndsWith(a, <<f>>) PROVE FALSE
  <2>1. 1 <= Len(a) /\ SubSeq(a, Len(a), Len(a)) = <<f>>
    BY <1>1, <1>2, <1>3 DEF EndsWith
  <2>2. Len(a) \in 1..Len(a) /\ a[Len(a)] \in 1..n
    BY <1>1, <2>1, ElementOfSeq
  <2>3. Len(a) \in Len(a) .. Len(a)
    BY <1>1
  <2>4. Head(SubSeq(a, Len(a), Len(a))) = a[Len(a)]
    BY <2>2, <2>3, HeadTailOfSubSeq
  <2>5. Head(<<f>>) = f
    OBVIOUS
  <2> QED
    BY <2>1, <2>2, <2>4, <2>5
<1> QED
  BY <1>3

\* A part with more text, or with the same,
LEMMA StreamedMore ==
  ASSUME NEW streamed \in Words, NEW old \in Words, NEW x \in Words
  PROVE  /\ StreamedAfter(streamed, old, old \o x) = streamed \o x
         /\ StreamedAfter(streamed, old, old) = streamed
<1>1. IsPrefix(old, old \o x) /\ SubSeq(old \o x, Len(old) + 1, Len(old \o x)) = x
  BY CutEnds, WordsCut
<1>2. IsPrefix(old, old) /\ SubSeq(old, Len(old) + 1, Len(old)) = <<>> /\ streamed \o <<>> = streamed
  BY NothingLeft
<1> QED
  BY <1>1, <1>2 DEF StreamedAfter

\* or with another text at the end.
LEMMA StreamedOther ==
  ASSUME NEW n \in Nat, NEW front \in Words, NEW old \in Seq(1..n), old # <<>>,
         NEW f \in Nat, n < f
  PROVE  StreamedAfter(front \o old, old, <<f>>) = front \o <<f>>
<1>1. old \in Words
  BY SeqMonotonic DEF Words
<1>2. ~IsPrefix(old, <<f>>)
  BY NoPrefix
<1>3. EndsWith(front \o old, old)
  BY <1>1, CutEnds
<1>4. SubSeq(front \o old, 1, Len(front)) = front /\ Len(front \o old) - Len(old) = Len(front)
  BY <1>1, WordsCut
<1> QED
  BY <1>2, <1>3, <1>4 DEF StreamedAfter

\* A later part of what is joined is the end of the whole.
LEMMA JoinedSuffix ==
  ASSUME NEW s \in Pieces, NEW t \in Pieces, Len(t) = Len(s), NEW D,
         \A i \in 1..Len(s) : t[i] = IF i \in D THEN <<>> ELSE s[i],
         \A i \in 1..Len(s), j \in 1..Len(s) : i < j /\ j \in D => i \in D
  PROVE  \E front \in Words : Joined(s) = front \o Joined(t)
<1> DEFINE J == JoinedTo(s)
           K == JoinedTo(t)
           P == {n \in 0..Len(s) : \E front \in Words : J[n] = front \o K[n]}
<1>1. Len(s) \in Nat
  BY LenProperties DEF Pieces
<1>2. J[0] = <<>> /\ \A i \in 1..Len(s) : J[i] = J[i - 1] \o s[i]
  BY <1>1, JoinedFollows
<1>3. K[0] = <<>> /\ \A i \in 1..Len(s) : K[i] = K[i - 1] \o t[i]
  BY <1>1, JoinedFollows
<1>4. \A i \in 0..Len(s) : J[i] \in Words /\ K[i] \in Words
  BY JoinedTyped DEF Pieces, Words
<1>5. \A n \in 0..Len(s) : (\A i \in 1..Len(t) : 0 < i /\ i <= n => t[i] = <<>>) => K[n] = K[0]
  <2>1. 0 \in 0..Len(t) /\ \A n \in 0..Len(s) : n \in 0..Len(t) /\ 0 <= n
    BY <1>1
  <2> QED
    BY <2>1, JoinedFlat
<1>6. \A i \in 1..Len(s) : s[i] \in Words
  BY ElementOfSeq DEF Pieces
<1> HIDE DEF J, K
<1>7. <<>> \in Words /\ <<>> \o <<>> = <<>> /\ \A w \in Words : w \o <<>> = w
  BY EmptySeq, ConcatEmptySeq DEF Words
<1>8. 0 \in P
  <2>1. J[0] = <<>> \o K[0] /\ 0 \in 0..Len(s)
    BY <1>1, <1>2, <1>3, <1>7
  <2> QED
    BY <1>7, <2>1
<1>9. ASSUME NEW n \in 1..Len(s), n - 1 \in P PROVE n \in P
  <2>1. n \in 0..Len(s) /\ n - 1 \in 0..Len(s) /\ n \in Nat
    BY <1>1
  <2>2. CASE n \in D
    <3>1. ASSUME NEW i \in 1..Len(t), 0 < i, i <= n PROVE t[i] = <<>>
      <4>1. i \in 1..Len(s) /\ (i < n \/ i = n)
        BY <1>1, <2>1, <3>1
      <4>2. i \in D
        BY <2>2, <4>1
      <4> QED
        BY <4>1, <4>2
    <3>2. K[n] = <<>>
      BY <1>3, <1>5, <2>1, <3>1
    <3>3. J[n] = J[n] \o K[n]
      BY <1>4, <1>7, <2>1, <3>2
    <3> QED
      BY <1>4, <2>1, <3>3
  <2>3. CASE n \notin D
    <3>1. PICK front \in Words : J[n - 1] = front \o K[n - 1]
      BY <1>9
    <3>2. J[n] = (front \o K[n - 1]) \o s[n]
      BY <1>2, <3>1
    <3>3. K[n] = K[n - 1] \o s[n]
      BY <1>3, <2>3
    <3>4. (front \o K[n - 1]) \o s[n] = front \o (K[n - 1] \o s[n])
      <4>1. K[n - 1] \in Words /\ s[n] \in Words
        BY <1>4, <1>6, <2>1
      <4> QED
        BY <4>1, WordsGroup
    <3>5. J[n] = front \o K[n]
      BY <3>2, <3>3, <3>4
    <3> QED
      BY <2>1, <3>5
  <2> QED
    BY <2>2, <2>3
<1> HIDE DEF P
<1>10. \A n \in 0..Len(s) : n \in P
  BY <1>1, <1>8, <1>9, UpTo
<1>11. Len(s) \in P
  BY <1>1, <1>10
<1> QED
  BY <1>11 DEF P, J, K, Joined

\* The last message is the end of what was said.
LEMMA LastMessageEnds ==
  ASSUME told \in Seq(Entry)
  PROVE  /\ LastMessage \in Words
         /\ \E front \in Words : SaidText(told, "assistant") = front \o LastMessage
<1> DEFINE s == TextsOf(told, "assistant")
           t == [i \in DOMAIN told |->
                   IF told[i].kind = "assistant" /\ ~Superseded(i) THEN told[i].text ELSE <<>>]
           D == {i \in 1..Len(told) : Superseded(i)}
           n == Len(told)
<1>1. n \in Nat /\ DOMAIN told = 1..n /\ \A i \in 1..n : told[i] \in Entry
  BY LenProperties, ElementOfSeq
<1>2. /\ s \in Pieces /\ Len(s) = n
      /\ \A i \in 1..n : s[i] = IF told[i].kind = "assistant" THEN told[i].text ELSE <<>>
  BY SaidFacts
<1>3. t = [i \in 1..n |->
             IF told[i].kind = "assistant" /\ ~Superseded(i) THEN told[i].text ELSE <<>>]
  BY <1>1
<1>4. LastMessage = Joined(t)
  BY DEF LastMessage
<1>5. <<>> \in Words /\ \A i \in 1..n : told[i].text \in Words
  BY <1>1, EmptySeq DEF Entry, Words
<1> HIDE DEF s, t
<1>6. t \in [1..n -> Words]
  BY <1>3, <1>5
<1>7. t \in Pieces /\ Len(t) = n
  BY <1>1, <1>6, FunctionIsSeq DEF Pieces
<1>8. \A i \in 1..n : t[i] = IF i \in D THEN <<>> ELSE s[i]
  <2>1. \A i \in 1..n : i \in D <=> Superseded(i)
    OBVIOUS
  <2> HIDE DEF D
  <2> QED
    BY <1>2, <1>3, <2>1
<1>9. ASSUME NEW i \in 1..n, NEW j \in 1..n, i < j, j \in D PROVE i \in D
  <2>1. PICK k \in DOMAIN told :
          k > j /\ (told[k].kind = "tool" \/ (protocol = "parts" /\ told[k].kind = "assistant"))
    BY <1>9 DEF Superseded
  <2>2. k > i
    BY <1>1, <1>9, <2>1
  <2> QED
    BY <2>1, <2>2 DEF Superseded
<1> HIDE DEF D
<1>10. \E front \in Words : Joined(s) = front \o Joined(t)
  BY <1>2, <1>7, <1>8, <1>9, JoinedSuffix
<1>11. Joined(t) \in Words
  BY <1>7, JoinedTyped DEF Pieces, Words
<1> QED
  BY <1>4, <1>10, <1>11 DEF SaidText, s

-----------------------------------------------------------------------------
(* The result of a turn. *)

\* A screen of the given turn.
Standing(at, turn) ==
  /\ at \in Screens /\ StandsWell(at)
  /\ \A i \in 1..Len(at.passages) : at.passages[i].turn <= turn

\* A plain delta belongs behind all the text of the turn.
Ready(at) ==
  /\ Standing(at, turnsBegun)
  /\ at.stream.current # None /\ at.stream.part = None =>
       LastOf(at.passages, "assistant", at.stream.current, turnsBegun)

\* Only the current thought is active; none is.
OneActive(at) ==
  \A i \in 1..Len(at.passages) :
    at.passages[i].kind = "thinking" /\ ~at.passages[i].done =>
      at.thinking.current # None /\ i = at.thinking.current

ThoughtsDone(b) == \A i \in 1..Len(b) : b[i].kind = "thinking" => b[i].done

\* Everything but the text of the turn stays.
TextOnly(at, new) ==
  /\ Standing(new, turnsBegun) /\ new.thinking = at.thinking
  /\ View(new.passages, "thinking", turnsBegun) = View(at.passages, "thinking", turnsBegun)
  /\ ThoughtsKept(at, new)

\* Text is appended behind the text of the turn.
LEMMA DeltaAppended ==
  ASSUME NEW at, Ready(at), turnsBegun \in Nat, NEW text \in Words
  PROVE  /\ TextOnly(at, AppendDelta(at, text))
         /\ View(AppendDelta(at, text).passages, "assistant", turnsBegun)
              = View(at.passages, "assistant", turnsBegun) \o text
<1>0. /\ at \in Screens /\ StandsWell(at)
      /\ at.stream.current # None /\ at.stream.part = None =>
           LastOf(at.passages, "assistant", at.stream.current, turnsBegun)
      /\ \A i \in 1..Len(at.passages) : at.passages[i].turn <= turnsBegun
  BY DEF Ready, Standing
<1>a. Len(at.passages) \in Nat /\ at.passages \in Seq(Passage)
  BY <1>0, ScreenFacts
<1>1. CASE text = <<>>
  <2>1. AppendDelta(at, text) = at
    BY <1>1 DEF AppendDelta
  <2>2. View(at.passages, "assistant", turnsBegun) \o text = View(at.passages, "assistant", turnsBegun)
    <3>1. View(at.passages, "assistant", turnsBegun) \in Words
      BY <1>a, ShownFacts
    <3> QED
      BY <1>1, <3>1, ConcatEmptySeq DEF Words
  <2>3. ThoughtsKept(at, at)
    BY <1>a DEF ThoughtsKept
  <2> QED
    BY <1>0, <2>1, <2>2, <2>3 DEF TextOnly, Standing
<1>2. CASE text # <<>>
  <2> DEFINE new == AppendPlain(at, text)
  <2>1. /\ new \in Screens /\ StandsWell(new) /\ new.thinking = at.thinking
        /\ View(new.passages, "assistant", turnsBegun)
             = View(at.passages, "assistant", turnsBegun) \o text
        /\ View(new.passages, "thinking", turnsBegun) = View(at.passages, "thinking", turnsBegun)
        /\ \A i \in 1..Len(new.passages) : new.passages[i].turn <= turnsBegun
        /\ ThoughtsKept(at, new)
    BY <1>0, PlainAppended
  <2>2. AppendDelta(at, text) = new
    BY <1>2 DEF AppendDelta
  <2> HIDE DEF new
  <2> QED
    BY <2>1, <2>2 DEF TextOnly, Standing
<1> QED
  BY <1>1, <1>2

\* The stream may let go of its block before.
LEMMA BrokenReady ==
  ASSUME NEW at, Ready(at)
  PROVE  /\ Ready(BreakSegment(at)) /\ BreakSegment(at).passages = at.passages
         /\ BreakSegment(at).thinking = at.thinking
<1>1. LET new == BreakSegment(at)
      IN  /\ new \in Screens /\ new.passages = at.passages /\ new.thinking = at.thinking
          /\ new.stream.current = None /\ new.stream.part = None
  BY Broken DEF Ready, Standing
<1> HIDE DEF Words
<1> QED
  BY <1>1 DEF Ready, Standing, StandsWell

\* So with a result, whatever it says.
LEMMA Reconciled ==
  ASSUME NEW at, Ready(at), turnsBegun \in Nat, NEW response \in Words
  PROVE  TextOnly(at, ReconcileText(at, response))
<1>1. at \in Screens /\ at.stream.text \in Words
  BY ScreenFacts DEF Ready, Standing
<1>2. CASE IsPrefix(at.stream.text, response)
  <2> DEFINE more == SubSeq(response, Len(at.stream.text) + 1, Len(response))
  <2>1. more \in Words
    BY <1>1, LenProperties, CutTyped DEF Words
  <2>2. ReconcileText(at, response) = AppendDelta(at, more)
    BY <1>2 DEF ReconcileText
  <2> HIDE DEF more
  <2> QED
    BY <2>1, <2>2, DeltaAppended
<1>3. CASE ~IsPrefix(at.stream.text, response) /\ EndsWith(at.stream.text, response)
  <2>1. ReconcileText(at, response) = at
    BY <1>3 DEF ReconcileText
  <2>2. Len(at.passages) \in Nat
    BY <1>1, ScreenFacts
  <2>3. ThoughtsKept(at, at)
    BY <2>2 DEF ThoughtsKept
  <2>4. TextOnly(at, at)
    BY <2>3 DEF TextOnly, Ready
  <2> QED
    BY <2>1, <2>4
<1>4. CASE ~IsPrefix(at.stream.text, response) /\ ~EndsWith(at.stream.text, response)
  <2> DEFINE mid == BreakSegment(at)
  <2>1. Ready(mid) /\ mid.passages = at.passages /\ mid.thinking = at.thinking
    BY BrokenReady
  <2>2. ReconcileText(at, response) = AppendDelta(mid, response)
    BY <1>4 DEF ReconcileText
  <2> HIDE DEF mid
  <2>3. TextOnly(mid, AppendDelta(mid, response))
    BY <2>1, DeltaAppended
  <2> QED
    BY <2>1, <2>2, <2>3 DEF TextOnly, ThoughtsKept
<1> QED
  BY <1>2, <1>3, <1>4

\* A result that ends the streamed text says nothing new.
LEMMA ReconciledNothing ==
  ASSUME NEW at \in Screens, NEW response \in Words, EndsWith(at.stream.text, response)
  PROVE  ReconcileText(at, response) = at
<1>1. at.stream.text \in Words
  BY ScreenFacts
<1>2. Len(at.stream.text) \in Nat /\ Len(response) \in Nat
  BY <1>1, LenProperties DEF Words
<1>3. CASE IsPrefix(at.stream.text, response)
  <2> DEFINE m == Len(at.stream.text) + 1
             n == Len(response)
  <2>1. n < m /\ m \in Int /\ n \in Int
    BY <1>2, <1>3 DEF IsPrefix, EndsWith
  <2>2. ReconcileText(at, response) = AppendDelta(at, SubSeq(response, m, n))
    BY <1>3 DEF ReconcileText
  <2> HIDE DEF m, n
  <2>3. SubSeq(response, m, n) = <<>>
    BY <2>1, SubSeqEmpty
  <2> QED
    BY <2>2, <2>3 DEF AppendDelta
<1>4. CASE ~IsPrefix(at.stream.text, response)
  BY <1>4 DEF ReconcileText
<1> QED
  BY <1>3, <1>4

\* A result with a new end, or with a new text alone.
NewEnd(at, response, f) ==
  \/ response = at.stream.text \o <<f>>
  \/ response = <<f>> /\ \E n \in Nat : n < f /\ at.stream.text \in Seq(1..n)

\* The result adds its one new token, and nothing else.
LEMMA ReconciledEnd ==
  ASSUME NEW at, Ready(at), turnsBegun \in Nat, NEW response \in Words, NEW f \in Nat,
         NewEnd(at, response, f)
  PROVE  View(ReconcileText(at, response).passages, "assistant", turnsBegun)
           = View(at.passages, "assistant", turnsBegun) \o <<f>>
<1> DEFINE streamed == at.stream.text
           more == SubSeq(response, Len(streamed) + 1, Len(response))
<1>1. at \in Screens /\ streamed \in Words
  BY ScreenFacts DEF Ready, Standing
<1>2. <<f>> \in Words /\ Len(<<f>>) = 1
  BY OneWord
<1>3. ASSUME IsPrefix(streamed, response), more = <<f>>
      PROVE  View(ReconcileText(at, response).passages, "assistant", turnsBegun)
               = View(at.passages, "assistant", turnsBegun) \o <<f>>
  <2>1. ReconcileText(at, response) = AppendDelta(at, <<f>>)
    BY <1>3 DEF ReconcileText
  <2> QED
    BY <1>2, <2>1, DeltaAppended
<1>4. CASE response = streamed \o <<f>>
  <2>1. IsPrefix(streamed, response) /\ more = <<f>>
    BY <1>1, <1>2, <1>4, CutEnds, WordsCut
  <2> QED
    BY <1>3, <2>1
<1>5. CASE response = <<f>> /\ streamed = <<>>
  <2>1. <<>> \o <<f>> = <<f>>
    BY <1>2, ConcatEmptySeq DEF Words
  <2> QED
    BY <1>4, <1>5, <2>1
<1>6. CASE response = <<f>> /\ streamed # <<>> /\ \E n \in Nat : n < f /\ streamed \in Seq(1..n)
  <2> DEFINE mid == BreakSegment(at)
  <2>1. ~IsPrefix(streamed, <<f>>) /\ ~EndsWith(streamed, <<f>>)
    <3>1. PICK n \in Nat : n < f /\ streamed \in Seq(1..n)
      BY <1>6
    <3> HIDE DEF streamed
    <3> QED
      BY <1>6, <3>1, NoPrefix, NoEnd
  <2>2. ReconcileText(at, response) = AppendDelta(mid, <<f>>)
    BY <1>6, <2>1 DEF ReconcileText
  <2>3. Ready(mid) /\ mid.passages = at.passages
    BY BrokenReady
  <2> HIDE DEF mid
  <2>4. View(AppendDelta(mid, <<f>>).passages, "assistant", turnsBegun)
          = View(mid.passages, "assistant", turnsBegun) \o <<f>>
    BY <1>2, <2>3, DeltaAppended
  <2> QED
    BY <2>2, <2>3, <2>4
<1> QED
  BY <1>4, <1>5, <1>6 DEF NewEnd

\* The thinking may come to its end before.
LEMMA CompletedReady ==
  ASSUME NEW at, Ready(at)
  PROVE  LET new == CompleteThinking(at)
         IN  /\ Ready(new) /\ new.stream = at.stream /\ new.thinking.current = None
             /\ LookAlike(at.passages, new.passages)
             /\ \A kind : View(new.passages, kind, turnsBegun) = View(at.passages, kind, turnsBegun)
             /\ OneActive(at) => ThoughtsDone(new.passages)
<1> DEFINE new == CompleteThinking(at)
<1>1. at \in Screens /\ StandsWell(at)
  BY DEF Ready, Standing
<1>2. /\ new \in Screens /\ new.stream = at.stream /\ new.thinking.current = None
      /\ LookAlike(at.passages, new.passages)
      /\ \A i \in 1..Len(at.passages) :
           new.passages[i].done <=>
             at.passages[i].done \/ (at.thinking.current # None /\ i = at.thinking.current)
  BY <1>1, Completed DEF StandsWell
<1> HIDE DEF new
<1>3. at.passages \in Seq(Passage) /\ new.passages \in Seq(Passage)
  BY <1>1, <1>2, ScreenFacts
<1>4. \A kind : View(new.passages, kind, turnsBegun) = View(at.passages, kind, turnsBegun)
  BY <1>2, <1>3, ViewAlike
<1>5. Standing(new, turnsBegun)
  BY <1>2 DEF Ready, Standing, StandsWell, LookAlike
<1>6. Ready(new)
  BY <1>2, <1>5 DEF Ready, LastOf, Shows, LookAlike
<1>7. OneActive(at) => ThoughtsDone(new.passages)
  BY <1>2 DEF OneActive, ThoughtsDone, LookAlike
<1> QED
  BY <1>2, <1>4, <1>6, <1>7 DEF new

\* Everything is over.
LEMMA Finished ==
  ASSUME NEW at, Standing(at, turnsBegun)
  PROVE  LET new == FinishText(at)
         IN  /\ Standing(new, turnsBegun) /\ LookAlike(at.passages, new.passages)
             /\ \A kind : View(new.passages, kind, turnsBegun) = View(at.passages, kind, turnsBegun)
             /\ OneActive(at) => ThoughtsDone(new.passages)
             /\ new.stream.current = None /\ new.stream.part = None
             /\ new.stream.text = at.stream.text /\ new.stream.segments = at.stream.segments
             /\ new.thinking.current = None /\ new.thinking.part = None
             /\ new.thinking.views = at.thinking.views
<1> DEFINE mid == CompleteThinking(at)
           new == FinishText(at)
<1>1. at \in Screens /\ StandsWell(at)
  BY DEF Standing
<1>2. /\ mid \in Screens /\ mid.stream = at.stream
      /\ mid.thinking.current = None /\ mid.thinking.part = None
      /\ mid.thinking.views = at.thinking.views
      /\ LookAlike(at.passages, mid.passages)
      /\ \A i \in 1..Len(at.passages) :
           mid.passages[i].done <=>
             at.passages[i].done \/ (at.thinking.current # None /\ i = at.thinking.current)
  BY <1>1, Completed DEF StandsWell
<1>3. new = BreakSegment(mid)
  BY DEF FinishText
<1> HIDE DEF mid
<1>4. /\ new \in Screens /\ new.passages = mid.passages /\ new.thinking = mid.thinking
      /\ new.stream.current = None /\ new.stream.part = None
      /\ new.stream.text = mid.stream.text /\ new.stream.segments = mid.stream.segments
  BY <1>2, <1>3, Broken
<1> HIDE DEF new
<1>5. at.passages \in Seq(Passage) /\ new.passages \in Seq(Passage)
  BY <1>1, <1>4, ScreenFacts
<1>6. \A kind : View(new.passages, kind, turnsBegun) = View(at.passages, kind, turnsBegun)
  BY <1>2, <1>4, <1>5, ViewAlike
<1>7. Standing(new, turnsBegun)
  BY <1>2, <1>4 DEF Standing, StandsWell, LookAlike
<1>8. OneActive(at) => ThoughtsDone(new.passages)
  BY <1>2, <1>4 DEF OneActive, ThoughtsDone, LookAlike
<1> QED
  BY <1>2, <1>4, <1>6, <1>7, <1>8 DEF new

\* The screen once the result came and the turn is over.
Answered(at, response) ==
  FinishText(IF response = <<>> THEN at ELSE ReconcileText(CompleteThinking(at), response))

\* What the screen shows then.
LEMMA AnsweredFacts ==
  ASSUME NEW at, Ready(at), turnsBegun \in Nat, NEW response \in Words
  PROVE  LET new == Answered(at, response)
         IN  /\ Standing(new, turnsBegun)
             /\ View(new.passages, "thinking", turnsBegun) = View(at.passages, "thinking", turnsBegun)
             /\ OneActive(at) => ThoughtsDone(new.passages)
             /\ response = <<>> \/ EndsWith(at.stream.text, response) =>
                  View(new.passages, "assistant", turnsBegun) = View(at.passages, "assistant", turnsBegun)
             /\ \A f \in Nat : response # <<>> /\ NewEnd(at, response, f) =>
                  View(new.passages, "assistant", turnsBegun)
                    = View(at.passages, "assistant", turnsBegun) \o <<f>>
<1> DEFINE new == Answered(at, response)
<1>1. CASE response = <<>>
  <2>1. new = FinishText(at)
    BY <1>1 DEF Answered
  <2> HIDE DEF new
  <2>2. Standing(at, turnsBegun)
    BY DEF Ready
  <2> QED
    BY <1>1, <2>1, <2>2, Finished DEF new
<1>2. CASE response # <<>>
  <2> DEFINE mid == CompleteThinking(at)
             more == ReconcileText(mid, response)
  <2>1. new = FinishText(more)
    BY <1>2 DEF Answered
  <2> HIDE DEF new
  <2>2. /\ Ready(mid) /\ mid.stream = at.stream /\ mid.thinking.current = None
        /\ \A kind : View(mid.passages, kind, turnsBegun) = View(at.passages, kind, turnsBegun)
        /\ OneActive(at) => ThoughtsDone(mid.passages)
    BY CompletedReady
  <2> HIDE DEF mid
  <2>3. TextOnly(mid, more)
    BY <2>2, Reconciled
  <2>4. EndsWith(at.stream.text, response) => more = mid
    BY <2>2, ReconciledNothing DEF Ready, Standing
  <2>5. \A f \in Nat : NewEnd(at, response, f) =>
          View(more.passages, "assistant", turnsBegun)
            = View(at.passages, "assistant", turnsBegun) \o <<f>>
    <3> SUFFICES ASSUME NEW f \in Nat, NewEnd(at, response, f)
                 PROVE  View(more.passages, "assistant", turnsBegun)
                          = View(at.passages, "assistant", turnsBegun) \o <<f>>
      OBVIOUS
    <3>1. NewEnd(mid, response, f)
      BY <2>2 DEF NewEnd
    <3>2. View(more.passages, "assistant", turnsBegun)
            = View(mid.passages, "assistant", turnsBegun) \o <<f>>
      BY <2>2, <3>1, ReconciledEnd
    <3> QED
      BY <2>2, <3>2
  <2> HIDE DEF more
  <2>6. /\ Standing(new, turnsBegun)
        /\ \A kind : View(new.passages, kind, turnsBegun) = View(more.passages, kind, turnsBegun)
        /\ OneActive(more) => ThoughtsDone(new.passages)
    BY <2>1, <2>3, Finished DEF TextOnly
  <2>7. OneActive(at) => ThoughtsDone(new.passages)
    <3>1. ThoughtsDone(mid.passages) => OneActive(more)
      BY <2>3 DEF TextOnly, ThoughtsKept, ThoughtsDone, OneActive
    <3> QED
      BY <2>2, <2>6, <3>1
  <2>8. View(new.passages, "thinking", turnsBegun) = View(at.passages, "thinking", turnsBegun)
    BY <2>2, <2>3, <2>6 DEF TextOnly
  <2>9. EndsWith(at.stream.text, response) =>
          View(new.passages, "assistant", turnsBegun) = View(at.passages, "assistant", turnsBegun)
    BY <2>2, <2>4, <2>6
  <2>10. \A f \in Nat : NewEnd(at, response, f) =>
           View(new.passages, "assistant", turnsBegun)
             = View(at.passages, "assistant", turnsBegun) \o <<f>>
    BY <2>5, <2>6
  <2> QED
    BY <1>2, <2>6, <2>7, <2>8, <2>9, <2>10 DEF new
<1> QED
  BY <1>1, <1>2

-----------------------------------------------------------------------------
(* The invariant. *)

\* The tokens of what was said are among the first n.
Fresh(said, n) ==
  /\ said \in Seq(Entry)
  /\ \A i \in 1..Len(said) : said[i].text \in Seq(1..n)

\* What was said is shown.
SaysIt(at, said, turn) ==
  \A kind \in Speech : View(at.passages, kind, turn) = SaidText(said, kind)

\* A turn of plain deltas: they all come last.
NoParts(said) == \A i \in 1..Len(said) : said[i].part = None

PlainInv(at, said, turn) ==
  /\ NoParts(said) /\ at.stream.part = None /\ at.thinking.part = None
  /\ at.stream.current # None => LastOf(at.passages, "assistant", at.stream.current, turn)
  /\ at.thinking.current # None => LastOf(at.passages, "thinking", at.thinking.current, turn)
  /\ OneActive(at) /\ SaysIt(at, said, turn)
  /\ at.stream.text = SaidText(said, "assistant")

\* A turn of parts: each has its block.
PartsInv(at, said, turn, changed) ==
  /\ Aligned(at, said, turn)
  /\ at.stream.current # None => at.stream.part # None
  /\ ~changed => at.stream.text = SaidText(said, "assistant")

SaidInv ==
  /\ protocol \in {"plain", "parts"} /\ talk \in {"idle", "on", "answered"}
  /\ turnsBegun \in Nat /\ tokens \in Nat /\ revised \in BOOLEAN
  /\ Standing(Here, turnsBegun) /\ Fresh(told, tokens)
  /\ talk = "on" /\ protocol = "plain" => ~revised /\ PlainInv(Here, told, turnsBegun)
  /\ talk = "on" /\ protocol = "parts" => PartsInv(Here, told, turnsBegun, revised)
  /\ talk # "on" => SaidIsShownOnce

\* Then the property holds.
LEMMA SaidInvShows ==
  ASSUME SaidInv
  PROVE  SaidIsShownOnce
<1>1. CASE talk # "on"
  BY <1>1 DEF SaidInv
<1>2. CASE talk = "on"
  <2>1. Here \in Screens /\ told \in Seq(Entry)
    BY DEF SaidInv, Standing, Fresh
  <2>2. SaysIt(Here, told, turnsBegun)
    <3>1. CASE protocol = "plain"
      BY <1>2, <3>1 DEF SaidInv, PlainInv
    <3>2. CASE protocol = "parts"
      BY <1>2, <2>1, <3>2, AlignedShows DEF SaidInv, PartsInv, SaysIt
    <3> QED
      BY <3>1, <3>2 DEF SaidInv
  <2>3. Here.passages = passages
    BY DEF Here, Screen
  <2>4. \A kind \in Speech : OnView(kind) = TextOf(kind)
    BY <2>2, <2>3 DEF SaysIt, View, SaidText, OnView, TextOf
  <2> QED
    BY <1>2, <2>4 DEF SaidIsShownOnce, Speech
<1> QED
  BY <1>1, <1>2

\* The screen goes to another one.
LEMMA MoveIs ==
  ASSUME NEW at \in Screens, passages' = at.passages, stream' = at.stream, thinking' = at.thinking
  PROVE  Here' = at
BY DEF Here, Screen, Screens

\* What was said are texts of the tokens used.
LEMMA FreshText0 ==
  ASSUME NEW n \in Nat, NEW said, Fresh(said, n), NEW kind
  PROVE  SaidText(said, kind) \in Seq(1..n)
<1> DEFINE f == TextsOf(said, kind)
<1>1. /\ said \in Seq(Entry) /\ Len(said) \in Nat /\ DOMAIN said = 1..Len(said)
      /\ \A i \in 1..Len(said) : said[i].text \in Seq(1..n)
  BY LenProperties DEF Fresh
<1>2. f = [i \in 1..Len(said) |-> IF said[i].kind = kind THEN said[i].text ELSE <<>>]
  BY <1>1 DEF TextsOf
<1>3. <<>> \in Seq(1..n)
  BY EmptySeq
<1> HIDE DEF f
<1>4. f \in [1..Len(said) -> Seq(1..n)]
  BY <1>1, <1>2, <1>3
<1>5. f \in Seq(Seq(1..n))
  BY <1>1, <1>4, FunctionIsSeq
<1>6. Joined(f) \in Seq(1..n)
  BY <1>5, JoinedTyped
<1> QED
  BY <1>6 DEF SaidText, f

\* Entries of before, and texts of at most m tokens.
LEMMA FreshFrom ==
  ASSUME NEW n \in Nat, NEW m \in Nat, n <= m, NEW said, Fresh(said, n), NEW now \in Seq(Entry),
         \A i \in 1..Len(now) :
           now[i].text \in Seq(1..m) \/ \E j \in 1..Len(said) : now[i] = said[j]
  PROVE  Fresh(now, m)
<1>1. 1..n \subseteq 1..m
  OBVIOUS
<1>2. \A w \in Seq(1..n) : w \in Seq(1..m)
  BY <1>1, SeqMonotonic
<1> QED
  BY <1>2 DEF Fresh

\* A token more.
LEMMA OneMore ==
  ASSUME NEW n \in Nat, NEW w \in Seq(1..n)
  PROVE  /\ <<n + 1>> \in Seq(1 .. n + 1) /\ w \in Seq(1 .. n + 1)
         /\ w \o <<n + 1>> \in Seq(1 .. n + 1)
         /\ Append(w, n + 1) = w \o <<n + 1>> /\ w \in Words
<1>1. n + 1 \in 1 .. n + 1 /\ 1..n \subseteq 1 .. n + 1 /\ 1..n \subseteq Nat
  OBVIOUS
<1>2. w \in Seq(1 .. n + 1) /\ w \in Words
  BY <1>1, SeqMonotonic DEF Words
<1>3. <<n + 1>> \in Seq(1 .. n + 1)
  BY <1>1
<1>4. w \o <<n + 1>> \in Seq(1 .. n + 1)
  BY <1>2, <1>3, ConcatProperties
<1>5. Append(w, n + 1) = w \o <<n + 1>>
  BY <1>1, <1>2, AppendIsConcat
<1> QED
  BY <1>2, <1>3, <1>4, <1>5

\* Nothing is shown of a turn without blocks.
LEMMA ViewOfNewTurn ==
  ASSUME NEW b \in Seq(Passage), NEW kind, NEW turn, \A i \in 1..Len(b) : b[i].turn # turn
  PROVE  View(b, kind, turn) = <<>>
<1> DEFINE f == ShownTexts(b, kind, turn)
<1>1. /\ f \in Pieces /\ Len(f) = Len(b) /\ Len(b) \in Nat
      /\ \A i \in 1..Len(b) : f[i] = IF Shows(b[i], kind, turn) THEN b[i].text ELSE <<>>
  BY ShownFacts
<1> HIDE DEF f
<1>2. \A i \in 1..Len(f) : f[i] = <<>>
  BY <1>1 DEF Shows
<1>3. 0 \in 0..Len(f) /\ Len(f) \in 0..Len(f) /\ 0 <= Len(f)
  BY <1>1
<1>4. JoinedTo(f)[Len(f)] = JoinedTo(f)[0]
  BY <1>1, <1>2, <1>3, JoinedFlat
<1>5. JoinedTo(f)[0] = <<>>
  BY <1>1, JoinedFollows
<1> QED
  BY <1>4, <1>5 DEF View, Joined, f

\* One thing more was said, in plain words.
LEMMA PlainSaid ==
  ASSUME NEW n \in Nat, NEW m \in Nat, n <= m, NEW x \in Seq(1..m), NEW said, Fresh(said, n),
         NEW kind \in Speech, NoParts(said)
  PROVE  LET now == Append(said, Said(kind, None, x))
         IN  /\ Fresh(now, m) /\ NoParts(now)
             /\ SaidText(now, kind) = SaidText(said, kind) \o x
             /\ \A other : other # kind => SaidText(now, other) = SaidText(said, other)
<1> DEFINE e == Said(kind, None, x)
           now == Append(said, e)
<1>1. /\ said \in Seq(Entry) /\ Len(said) \in Nat
      /\ \A i \in 1..Len(said) : said[i].part = None
  BY LenProperties DEF Fresh, NoParts
<1>2. x \in Words /\ x \in Seq(1..m)
  <2>1. 1..m \subseteq Nat
    OBVIOUS
  <2> QED
    BY <2>1, SeqMonotonic DEF Words
<1>3. e \in Entry /\ e.kind = kind /\ e.part = None /\ e.text = x
  BY <1>2 DEF Said, Entry, Speech
<1> HIDE DEF e
<1>4. /\ now \in Seq(Entry) /\ Len(now) = Len(said) + 1 /\ now[Len(said) + 1] = e
      /\ \A i \in 1..Len(said) : now[i] = said[i]
  BY <1>1, <1>3, AppendProperties
<1>5. \A other : SaidText(now, other) = SaidText(said, other) \o (IF e.kind = other THEN e.text ELSE <<>>)
  BY <1>1, <1>3, SaidAppended
<1>6. \A other : SaidText(said, other) \in Words /\ SaidText(said, other) \o <<>> = SaidText(said, other)
  BY <1>1, SaidFacts, ConcatEmptySeq DEF Words
<1> HIDE DEF now
<1>7. \A i \in 1..Len(now) : i \in 1..Len(said) \/ i = Len(said) + 1
  BY <1>1, <1>4
<1>8. \A i \in 1..Len(now) : now[i].text \in Seq(1..m) \/ \E j \in 1..Len(said) : now[i] = said[j]
  BY <1>2, <1>3, <1>4, <1>7
<1>9. Fresh(now, m)
  <2>1. 1..n \subseteq 1..m
    OBVIOUS
  <2>2. \A w \in Seq(1..n) : w \in Seq(1..m)
    BY <2>1, SeqMonotonic
  <2>3. \A j \in 1..Len(said) : said[j].text \in Seq(1..n)
    BY DEF Fresh
  <2>4. \A i \in 1..Len(now) : now[i].text \in Seq(1..m)
    BY <1>8, <2>2, <2>3
  <2> QED
    BY <1>4, <2>4 DEF Fresh
<1>10. \A i \in 1..Len(now) : now[i].part = None
  BY <1>1, <1>3, <1>4, <1>7
<1>11. SaidText(now, kind) = SaidText(said, kind) \o x
  BY <1>3, <1>5
<1>12. \A other : other # kind => SaidText(now, other) = SaidText(said, other)
  BY <1>3, <1>5, <1>6
<1> QED
  BY <1>9, <1>10, <1>11, <1>12 DEF NoParts, now, e

-----------------------------------------------------------------------------
(* Steps of a turn. *)

\* A block of another kind is written: the last one of its kind stays the last.
LEMMA LastKept ==
  ASSUME NEW b \in Seq(Passage), NEW c \in Seq(Passage), NEW k, NEW kind, NEW text,
         Wrote(b, c, k, kind, text), k \in 1..Len(b) => b[k].kind = kind,
         NEW other, other # kind, NEW m, NEW turn, LastOf(b, other, m, turn)
  PROVE  LastOf(c, other, m, turn)
<1>1. Len(b) \in Nat /\ Len(c) \in Nat /\ m \in 1..Len(b) /\ Shows(b[m], other, turn)
      /\ \A i \in 1..Len(b) : b[i].kind = other => i <= m
  BY LenProperties DEF LastOf
<1>2. CASE Len(c) = Len(b) + 1 /\ k = Len(b) + 1 /\ (\A i \in 1..Len(b) : c[i] = b[i])
           /\ c[k].kind = kind
  <2>1. m \in 1..Len(c) /\ Shows(c[m], other, turn)
    BY <1>1, <1>2
  <2>2. ASSUME NEW i \in 1..Len(c), c[i].kind = other PROVE i <= m
    <3>1. i \in 1..Len(b)
      BY <1>1, <1>2, <2>2
    <3> QED
      BY <1>1, <1>2, <2>2, <3>1
  <2> QED
    BY <2>1, <2>2 DEF LastOf
<1>3. CASE Len(c) = Len(b) /\ k \in 1..Len(b) /\ (\A i \in 1..Len(b) : i # k => c[i] = b[i])
           /\ c[k].kind = b[k].kind
  <2>1. b[k].kind = kind
    BY <1>3
  <2>2. m # k
    BY <1>1, <2>1 DEF Shows
  <2>3. m \in 1..Len(c) /\ Shows(c[m], other, turn)
    BY <1>1, <1>3, <2>2
  <2>4. ASSUME NEW i \in 1..Len(c), c[i].kind = other PROVE i <= m
    <3>1. i \in 1..Len(b) /\ i # k
      BY <1>3, <2>1, <2>4
    <3> QED
      BY <1>1, <1>3, <2>4, <3>1
  <2> QED
    BY <2>3, <2>4 DEF LastOf
<1> QED
  BY <1>2, <1>3 DEF Wrote

\* What is thought in plain words is shown behind all the thoughts of the turn.
ThinksOn(b, c, k, x) ==
  /\ \/ k = Len(b) + 1 /\ Wrote(b, c, k, "thinking", x)
     \/ LastOf(b, "thinking", k, turnsBegun) /\ Wrote(b, c, k, "thinking", b[k].text \o x)
  /\ \A i \in 1..Len(b) : b[i].turn <= turnsBegun

\* All the thoughts of the turn, and the new one behind them.
LEMMA ThoughtWritten ==
  ASSUME NEW b \in Seq(Passage), NEW c \in Seq(Passage), turnsBegun \in Nat, NEW k, NEW x \in Words,
         ThinksOn(b, c, k, x)
  PROVE  /\ View(c, "thinking", turnsBegun) = View(b, "thinking", turnsBegun) \o x
         /\ View(c, "assistant", turnsBegun) = View(b, "assistant", turnsBegun)
         /\ LastOf(c, "thinking", k, turnsBegun)
         /\ \A i \in 1..Len(c) : c[i].turn <= turnsBegun
         /\ Len(b) <= Len(c)
         /\ \A i \in 1..Len(c) : i # k => i \in 1..Len(b) /\ c[i] = b[i]
<1>0. Len(b) \in Nat /\ Len(c) \in Nat /\ \A i \in 1..Len(b) : b[i].turn <= turnsBegun
  BY LenProperties DEF ThinksOn
<1>1. CASE k = Len(b) + 1 /\ Wrote(b, c, k, "thinking", x)
  <2>1. /\ Len(c) = Len(b) + 1 /\ \A i \in 1..Len(b) : c[i] = b[i]
        /\ c[k].kind = "thinking" /\ c[k].text = x /\ ~c[k].gone /\ c[k].turn = turnsBegun
    BY <1>0, <1>1 DEF Wrote
  <2>2. \A kind : View(c, kind, turnsBegun)
          = View(b, kind, turnsBegun)
              \o (IF Shows(c[Len(b) + 1], kind, turnsBegun) THEN c[Len(b) + 1].text ELSE <<>>)
    <3>1. ASSUME NEW kind
          PROVE  View(c, kind, turnsBegun)
                   = View(b, kind, turnsBegun)
                       \o (IF Shows(c[Len(b) + 1], kind, turnsBegun) THEN c[Len(b) + 1].text ELSE <<>>)
      <4>1. OneBehind(b, c)
        BY <2>1 DEF OneBehind
      <4> QED
        BY <4>1, ViewAppended
    <3> QED
      BY <3>1
  <2>3. View(c, "thinking", turnsBegun) = View(b, "thinking", turnsBegun) \o x
    BY <1>1, <2>1, <2>2 DEF Shows
  <2>4. View(b, "assistant", turnsBegun) \o <<>> = View(b, "assistant", turnsBegun)
    BY ShownFacts, ConcatEmptySeq DEF Words
  <2>5. View(c, "assistant", turnsBegun) = View(b, "assistant", turnsBegun)
    BY <1>1, <2>1, <2>2, <2>4 DEF Shows
  <2>6. \A i \in 1..Len(c) : i # k => i \in 1..Len(b) /\ c[i] = b[i]
    BY <1>0, <1>1, <2>1
  <2>7. LastOf(c, "thinking", k, turnsBegun)
    BY <1>0, <1>1, <2>1 DEF LastOf, Shows
  <2>8. \A i \in 1..Len(c) : c[i].turn <= turnsBegun
    BY <1>0, <2>1, <2>6
  <2> QED
    BY <1>0, <2>1, <2>3, <2>5, <2>6, <2>7, <2>8
<1>2. CASE LastOf(b, "thinking", k, turnsBegun) /\ Wrote(b, c, k, "thinking", b[k].text \o x)
  <2>1. k \in 1..Len(b) /\ Shows(b[k], "thinking", turnsBegun)
        /\ \A i \in 1..Len(b) : b[i].kind = "thinking" => i <= k
    BY <1>2 DEF LastOf
  <2>2. /\ Len(c) = Len(b) /\ \A i \in 1..Len(b) : i # k => c[i] = b[i]
        /\ c[k].kind = b[k].kind /\ c[k].text = b[k].text \o x
        /\ c[k].gone = b[k].gone /\ c[k].turn = b[k].turn
    <3>1. k # Len(b) + 1
      BY <1>0, <2>1
    <3> QED
      BY <1>2, <3>1, Zenon DEF Wrote
  <2>3. Shows(c[k], "thinking", turnsBegun)
    BY <2>1, <2>2 DEF Shows
  <2>4. GrownBy(b, c, "thinking", turnsBegun, k, x)
    BY <1>2, <2>2, <2>3 DEF GrownBy
  <2>5. /\ View(c, "thinking", turnsBegun) = View(b, "thinking", turnsBegun) \o x
        /\ View(c, "assistant", turnsBegun) = View(b, "assistant", turnsBegun)
    <3>1. /\ View(c, "thinking", turnsBegun) = View(b, "thinking", turnsBegun) \o x
          /\ \A other : other # "thinking" => View(c, other, turnsBegun) = View(b, other, turnsBegun)
      BY <2>4, ViewGrown
    <3> QED
      BY <3>1
  <2>6. \A i \in 1..Len(c) : i # k => i \in 1..Len(b) /\ c[i] = b[i]
    BY <2>2
  <2>7. LastOf(c, "thinking", k, turnsBegun)
    BY <2>1, <2>2, <2>3 DEF LastOf
  <2>8. \A i \in 1..Len(c) : c[i].turn <= turnsBegun
    BY <1>0, <2>1, <2>2, <2>6
  <2> QED
    BY <1>0, <2>2, <2>5, <2>6, <2>7, <2>8
<1> QED
  BY <1>1, <1>2 DEF ThinksOn

\* What a part was told to say, and where.
LEMMA TextToldIs ==
  ASSUME NEW at \in Screens, told \in Seq(Entry), NEW turn, Aligned(at, told, turn), NEW p \in AnyPart
  PROVE  /\ Telling(p) = {} =>
              /\ BlockOf(at, p) = None /\ TextTold(p) = <<>>
              /\ \A i \in 1..Len(told) : told[i].part # p
         /\ Telling(p) # {} =>
              \E o \in 1..Len(told) :
                /\ told[o].part = p /\ told[o].text = TextTold(p) /\ Telling(p) = {o}
                /\ Matches(at, told[o], turn) /\ BlockOf(at, p) # None
                /\ BlockOf(at, p) \in 1..Len(at.passages)
<1>1. DOMAIN told = 1..Len(told)
  BY LenProperties
<1>2. Telling(p) = {i \in 1..Len(told) : told[i].part = p}
  BY <1>1 DEF Telling
<1>3. CASE Telling(p) = {}
  <2>1. \A i \in 1..Len(told) : told[i].part # p
    BY <1>2, <1>3
  <2>2. BlockOf(at, p) = None
    BY <2>1, BlockKnown
  <2> QED
    BY <1>3, <2>1, <2>2 DEF TextTold
<1>4. CASE Telling(p) # {}
  <2>1. PICK o \in 1..Len(told) : told[o].part = p
    BY <1>2, <1>4
  <2>2. /\ Matches(at, told[o], turn) /\ BlockOf(at, p) \in 1..Len(at.passages)
        /\ BlockOf(at, p) # None
        /\ \A j \in 1..Len(told) : j # o => told[j].part # p
    BY <2>1, BlockKnown
  <2>3. Telling(p) = {o}
    BY <1>2, <2>1, <2>2
  <2>4. (CHOOSE i \in Telling(p) : TRUE) = o
    BY <2>3
  <2>5. TextTold(p) = told[o].text
    BY <1>4, <2>4 DEF TextTold
  <2> QED
    BY <1>4, <2>1, <2>2, <2>3, <2>5
<1> QED
  BY <1>3, <1>4

\* A part that tells is in the record with its new text.
LEMMA Told ==
  ASSUME NEW p, NEW text, Tell(p, text)
  PROVE  told' = Retold(told, p, text)
<1>1. Telling(p) = {i \in DOMAIN told : told[i].part = p}
  BY DEF Telling
<1>2. CASE Telling(p) = {}
  BY <1>1, <1>2 DEF Tell, Retold
<1>3. CASE Telling(p) # {}
  <2>1. told' = [i \in DOMAIN told |-> IF i \in Telling(p) THEN Said(PassageKind(p), p, text) ELSE told[i]]
    BY <1>3 DEF Tell
  <2>2. \A i \in DOMAIN told : i \in Telling(p) <=> told[i].part = p
    BY <1>1
  <2>3. told' = [i \in DOMAIN told |-> IF told[i].part = p THEN Said(PassageKind(p), p, text) ELSE told[i]]
    BY <2>1, <2>2
  <2> QED
    BY <1>1, <1>3, <2>3 DEF Retold
<1> QED
  BY <1>2, <1>3

\* The record has the tokens of before and those of the text.
LEMMA RetoldFresh ==
  ASSUME NEW n \in Nat, NEW said, Fresh(said, n), NEW p \in AnyPart, NEW text \in Seq(1 .. n + 1)
  PROVE  Fresh(Retold(said, p, text), n + 1)
<1> DEFINE r == Retold(said, p, text)
           e == Said(PassageKind(p), p, text)
<1>1. said \in Seq(Entry) /\ text \in Words /\ n + 1 \in Nat /\ n <= n + 1
  <2>1. 1 .. n + 1 \subseteq Nat
    OBVIOUS
  <2> QED
    BY <2>1, SeqMonotonic DEF Fresh, Words
<1>2. /\ r \in Seq(Entry) /\ Len(said) \in Nat
      /\ (\A i \in 1..Len(said) : said[i].part # p) =>
           Len(r) = Len(said) + 1 /\ r[Len(said) + 1] = e /\ (\A i \in 1..Len(said) : r[i] = said[i])
      /\ (\E i \in 1..Len(said) : said[i].part = p) =>
           /\ Len(r) = Len(said)
           /\ \A i \in 1..Len(said) : r[i] = IF said[i].part = p THEN e ELSE said[i]
  BY <1>1, RetoldFacts
<1>3. e.text = text
  BY <1>1, EntryOf
<1> HIDE DEF r, e
<1>4. ASSUME NEW i \in 1..Len(r)
      PROVE  r[i].text \in Seq(1 .. n + 1) \/ \E j \in 1..Len(said) : r[i] = said[j]
  <2>1. CASE \A k \in 1..Len(said) : said[k].part # p
    <3>1. i = Len(said) + 1 \/ i \in 1..Len(said)
      BY <1>2, <2>1
    <3> QED
      BY <1>2, <1>3, <2>1, <3>1
  <2>2. CASE \E k \in 1..Len(said) : said[k].part = p
    <3>1. i \in 1..Len(said) /\ (r[i] = e \/ r[i] = said[i])
      BY <1>2, <2>2
    <3> QED
      BY <1>3, <3>1
  <2> QED
    BY <2>1, <2>2
<1>5. Fresh(r, n + 1)
  BY <1>1, <1>2, <1>4, FreshFrom
<1> QED
  BY <1>5 DEF r

\* A text part that begins or ends the text changes its end alone.
LEMMA RetoldEnd ==
  ASSUME NEW at \in Screens, told \in Seq(Entry), NEW turn, Aligned(at, told, turn),
         NEW p \in TextPart, NEW text \in Words, AtTheEnd(p)
  PROVE  \E front \in Words :
           /\ SaidText(told, "assistant") = front \o TextTold(p)
           /\ SaidText(Retold(told, p, text), "assistant") = front \o text
<1> DEFINE r == Retold(told, p, text)
           e == Said(PassageKind(p), p, text)
<1>0. p \in AnyPart /\ PassageKind(p) = "assistant" /\ Len(told) \in Nat /\ DOMAIN told = 1..Len(told)
  BY LenProperties DEF AnyPart, PassageKind
<1>1. /\ r \in Seq(Entry)
      /\ (\E i \in 1..Len(told) : told[i].part = p) =>
           /\ Len(r) = Len(told)
           /\ \A i \in 1..Len(told) : r[i] = IF told[i].part = p THEN e ELSE told[i]
  BY <1>0, RetoldFacts
<1>2. e \in Entry /\ e.text = text /\ e.kind = "assistant"
  BY <1>0, EntryOf
<1>3. CASE Telling(p) = {}
  <2>1. TextTold(p) = <<>>
    BY <1>0, <1>3, TextToldIs
  <2>2. r = Append(told, e)
    <3>1. {i \in DOMAIN told : told[i].part = p} = {}
      BY <1>3 DEF Telling
    <3> QED
      BY <3>1 DEF Retold
  <2> HIDE DEF e, r
  <2>3. SaidText(Append(told, e), "assistant") = SaidText(told, "assistant") \o text
    BY <1>2, SaidAppended
  <2>4. SaidText(told, "assistant") \in Words /\ SaidText(told, "assistant") \o <<>> = SaidText(told, "assistant")
    BY SaidFacts, ConcatEmptySeq DEF Words
  <2> QED
    BY <2>1, <2>2, <2>3, <2>4 DEF r
<1>4. CASE Telling(p) # {}
  <2>1. PICK o \in 1..Len(told) : /\ told[o].part = p /\ told[o].text = TextTold(p) /\ Telling(p) = {o}
                                  /\ Matches(at, told[o], turn)
    BY <1>0, <1>4, TextToldIs
  <2>2. told[o].kind = "assistant"
    BY <1>0, <2>1 DEF Matches
  <2>3. \A i \in 1..Len(told) : told[i].kind = "assistant" => i <= o
    BY <1>0, <2>1 DEF AtTheEnd
  <2>4. \A i \in 1..Len(told) : i # o => told[i].part # p
    BY <1>0, <2>1 DEF Telling
  <2> HIDE DEF r, e
  <2>5. Len(r) = Len(told) /\ r[o] = e /\ \A i \in 1..Len(told) : i # o => r[i] = told[i]
    BY <1>1, <2>1, <2>4
  <2>6. \E front \in Words : /\ SaidText(told, "assistant") = front \o told[o].text
                             /\ SaidText(r, "assistant") = front \o r[o].text
    <3>1. r[o].kind = "assistant"
      BY <1>2, <2>5
    <3>2. \A i \in 1..Len(told) : i # o => r[i] = told[i]
      BY <2>5
    <3>3. ReplacedAt(told, r, "assistant", o)
      BY <2>1, <2>2, <2>3, <2>5, <3>1, <3>2 DEF ReplacedAt
    <3>4. /\ FrontOf(told, "assistant", o) \in Words
          /\ SaidText(told, "assistant") = FrontOf(told, "assistant", o) \o told[o].text
          /\ SaidText(r, "assistant") = FrontOf(told, "assistant", o) \o r[o].text
      <4>1. told \in Seq(Entry) /\ r \in Seq(Entry)
        BY <1>1
      <4> QED
        BY <3>3, <4>1, SaidReplaced
    <3> QED
      BY <3>4
  <2> QED
    BY <1>2, <2>1, <2>5, <2>6 DEF r
<1> QED
  BY <1>3, <1>4

\* What was said of the other kind stays.
LEMMA RetoldOther ==
  ASSUME NEW at \in Screens, NEW said \in Seq(Entry), NEW turn, Aligned(at, said, turn),
         NEW p \in AnyPart, NEW text \in Words, NEW kind, kind # PassageKind(p)
  PROVE  SaidText(Retold(said, p, text), kind) = SaidText(said, kind)
<1> DEFINE r == Retold(said, p, text)
           e == Said(PassageKind(p), p, text)
<1>0. Len(said) \in Nat /\ DOMAIN said = 1..Len(said)
  BY LenProperties
<1>1. /\ r \in Seq(Entry)
      /\ (\E i \in 1..Len(said) : said[i].part = p) =>
           /\ Len(r) = Len(said)
           /\ \A i \in 1..Len(said) : r[i] = IF said[i].part = p THEN e ELSE said[i]
  BY RetoldFacts
<1>2. e \in Entry /\ e.kind = PassageKind(p)
  BY EntryOf
<1>3. CASE \A i \in 1..Len(said) : said[i].part # p
  <2>1. r = Append(said, e)
    <3>1. {i \in DOMAIN said : said[i].part = p} = {}
      BY <1>0, <1>3
    <3> QED
      BY <3>1 DEF Retold
  <2> HIDE DEF e, r
  <2>2. SaidText(Append(said, e), kind) = SaidText(said, kind) \o <<>>
    <3>1. SaidText(Append(said, e), kind) = SaidText(said, kind) \o (IF e.kind = kind THEN e.text ELSE <<>>)
      BY <1>2, SaidAppended
    <3> QED
      BY <1>2, <3>1
  <2>3. SaidText(said, kind) \o <<>> = SaidText(said, kind)
    BY SaidFacts, ConcatEmptySeq DEF Words
  <2> QED
    BY <2>1, <2>2, <2>3 DEF r
<1>4. CASE \E i \in 1..Len(said) : said[i].part = p
  <2> HIDE DEF r, e
  <2>1. Len(r) = Len(said)
    BY <1>1, <1>4
  <2>2. ASSUME NEW i \in 1..Len(said)
        PROVE  r[i] = said[i] \/ (said[i].kind # kind /\ r[i].kind # kind)
    <3>1. CASE said[i].part = p
      <4>1. Matches(at, said[i], turn)
        BY <3>1, BlockKnown
      <4>2. said[i].kind = PassageKind(p)
        BY <3>1, <4>1 DEF Matches
      <4> QED
        BY <1>1, <1>2, <1>4, <3>1, <4>2
    <3>2. CASE said[i].part # p
      BY <1>1, <1>4, <3>2
    <3> QED
      BY <3>1, <3>2
  <2>3. SaidText(r, kind) = SaidText(said, kind)
    BY <1>1, <2>1, <2>2, SaidElsewhere
  <2> QED
    BY <2>3 DEF r
<1> QED
  BY <1>3, <1>4

\* A part that says the same again changes nothing.
LEMMA RetoldSame ==
  ASSUME NEW at \in Screens, told \in Seq(Entry), NEW turn, Aligned(at, told, turn),
         NEW p \in AnyPart, Telling(p) # {}
  PROVE  Retold(told, p, TextTold(p)) = told
<1> DEFINE r == Retold(told, p, TextTold(p))
           e == Said(PassageKind(p), p, TextTold(p))
<1>0. Len(told) \in Nat /\ DOMAIN told = 1..Len(told)
  BY LenProperties
<1>1. PICK o \in 1..Len(told) : /\ told[o].part = p /\ told[o].text = TextTold(p) /\ Telling(p) = {o}
                                /\ Matches(at, told[o], turn)
  BY TextToldIs
<1>2. told[o] \in Entry
  BY ElementOfSeq
<1>3. told[o] = e
  BY <1>1, <1>2 DEF Matches, Said, Entry
<1>4. \A i \in 1..Len(told) : told[i].part = p => i = o
  BY <1>0, <1>1 DEF Telling
<1>5. r = [i \in DOMAIN told |-> IF told[i].part = p THEN e ELSE told[i]]
  <2>1. {i \in DOMAIN told : told[i].part = p} # {}
    BY <1>0, <1>1
  <2> QED
    BY <2>1 DEF Retold
<1> HIDE DEF e, r
<1>6. r = [i \in 1..Len(told) |-> told[i]]
  BY <1>0, <1>3, <1>4, <1>5
<1>7. told = [i \in 1..Len(told) |-> told[i]]
  BY <1>0
<1> QED
  BY <1>6, <1>7 DEF r

\* Screen and record stay paired when a part is written.
LEMMA PartWritten ==
  ASSUME NEW at, NEW new \in Screens, NEW said \in Seq(Entry), turnsBegun \in Nat,
         Standing(at, turnsBegun), Aligned(at, said, turnsBegun), NEW p \in AnyPart,
         NEW text \in Words, text # <<>>, Rewritten(at, new, p, text)
  PROVE  /\ Aligned(new, Retold(said, p, text), turnsBegun)
         /\ Len(at.passages) <= Len(new.passages)
         /\ \A i \in 1..Len(new.passages) : new.passages[i].turn <= turnsBegun
<1>1. at \in Screens /\ Len(at.passages) \in Nat /\ Len(new.passages) \in Nat
      /\ \A i \in 1..Len(at.passages) : at.passages[i].turn <= turnsBegun
  BY ScreenFacts DEF Standing
<1>2. Aligned(new, Retold(said, p, text), turnsBegun)
  <2>1. CASE \A i \in 1..Len(said) : said[i].part # p
    BY <1>1, <2>1, AlignedBegun
  <2>2. CASE \E i \in 1..Len(said) : said[i].part = p
    <3>1. PICK o \in 1..Len(said) : said[o].part = p
      BY <2>2
    <3> QED
      BY <1>1, <3>1, AlignedAgain
  <2> QED
    BY <2>1, <2>2
<1> DEFINE b == at.passages
           c == new.passages
           k == BlockFor(at, p)
<1>3. Wrote(b, c, k, PassageKind(p), text)
  BY DEF Rewritten
<1> HIDE DEF b, c, k
<1>4. Len(b) \in Nat /\ Len(c) \in Nat /\ \A i \in 1..Len(b) : b[i].turn <= turnsBegun
  BY <1>1 DEF b, c
<1>5. Len(b) <= Len(c) /\ \A i \in 1..Len(c) : c[i].turn <= turnsBegun
  <2>1. CASE Len(c) = Len(b) + 1 /\ k = Len(b) + 1 /\ (\A i \in 1..Len(b) : c[i] = b[i])
             /\ c[k].turn = turnsBegun
    <3>1. \A i \in 1..Len(c) : i \in 1..Len(b) \/ i = k
      BY <1>4, <2>1
    <3> QED
      BY <1>4, <2>1, <3>1
  <2>2. CASE Len(c) = Len(b) /\ k \in 1..Len(b) /\ (\A i \in 1..Len(b) : i # k => c[i] = b[i])
             /\ c[k].turn = b[k].turn
    BY <1>4, <2>2
  <2> QED
    BY <1>3, <2>1, <2>2 DEF Wrote
<1> QED
  BY <1>2, <1>5 DEF b, c

\* A segment of the stream has this text now, and so has its block.
SegmentWritten(at, new, p, text) ==
  /\ new.thinking = at.thinking
  /\ new.stream.current = BlockFor(at, p) /\ new.stream.part = p
  /\ new.stream.segments[p].block = BlockFor(at, p) /\ new.stream.segments[p].text = text
  /\ \A q \in TextPart : q # p => new.stream.segments[q] = at.stream.segments[q]
  /\ BlockFor(at, p) \in 1..Len(new.passages)
  /\ Wrote(at.passages, new.passages, BlockFor(at, p), "assistant", text)

\* A thinking view has this text now.
ViewWritten(at, new, p, text) ==
  /\ new.stream = at.stream
  /\ new.thinking.current = BlockFor(at, p)
  /\ \A q \in ThoughtPart : new.thinking.views[q] = IF q = p THEN BlockFor(at, p) ELSE at.thinking.views[q]
  /\ BlockFor(at, p) \in 1..Len(new.passages)
  /\ Wrote(at.passages, new.passages, BlockFor(at, p), "thinking", text)

\* The screen stands, and is paired with what was said.
LEMMA SegmentPaired ==
  ASSUME NEW at, NEW new \in Screens, turnsBegun \in Nat, NEW said \in Seq(Entry),
         Standing(at, turnsBegun), Aligned(at, said, turnsBegun), NEW p \in TextPart,
         NEW text \in Words, text # <<>>, SegmentWritten(at, new, p, text)
  PROVE  /\ Standing(new, turnsBegun) /\ Aligned(new, Retold(said, p, text), turnsBegun)
         /\ new.stream.part # None
<1>1. p \in AnyPart /\ PassageKind(p) = "assistant" /\ p # None
  BY TextAssumption DEF AnyPart, PassageKind
<1>2. \A q \in AnyPart : q \notin TextPart => BlockOf(new, q) = BlockOf(at, q)
  BY DEF BlockOf, SegmentWritten
<1>3. \A q \in TextPart : /\ BlockOf(new, q) = new.stream.segments[q].block
                          /\ BlockOf(at, q) = at.stream.segments[q].block
  BY DEF BlockOf
<1>4. Rewritten(at, new, p, text)
  <2>1. BlockOf(new, p) = BlockFor(at, p)
    BY <1>3 DEF SegmentWritten
  <2>2. \A q \in AnyPart : q # p => BlockOf(new, q) = BlockOf(at, q)
    BY <1>2, <1>3 DEF SegmentWritten
  <2>3. new.stream.segments[p].text = text
    BY DEF SegmentWritten
  <2>4. \A q \in TextPart : q # p => new.stream.segments[q].text = at.stream.segments[q].text
    BY DEF SegmentWritten
  <2>5. Wrote(at.passages, new.passages, BlockFor(at, p), PassageKind(p), text)
    BY <1>1 DEF SegmentWritten
  <2> QED
    BY <2>1, <2>2, <2>3, <2>4, <2>5 DEF Rewritten
<1>5. /\ Aligned(new, Retold(said, p, text), turnsBegun)
      /\ Len(at.passages) <= Len(new.passages)
      /\ \A i \in 1..Len(new.passages) : new.passages[i].turn <= turnsBegun
  BY <1>1, <1>4, PartWritten
<1>6. StandsWell(new)
  <2>1. at \in Screens /\ StandsWell(at)
    BY DEF Standing
  <2>2. Len(at.passages) \in Nat /\ Len(new.passages) \in Nat
    BY <2>1, ScreenFacts
  <2>3. new.thinking = at.thinking /\ new.stream.current \in 1..Len(new.passages)
    BY DEF SegmentWritten
  <2> QED
    BY <1>5, <2>1, <2>2, <2>3 DEF StandsWell
<1>7. new.stream.part # None
  BY <1>1 DEF SegmentWritten
<1> QED
  BY <1>5, <1>6, <1>7 DEF Standing

\* So is it with a view.
LEMMA ViewPaired ==
  ASSUME NEW at, NEW new \in Screens, turnsBegun \in Nat, NEW said \in Seq(Entry),
         Standing(at, turnsBegun), Aligned(at, said, turnsBegun), NEW p \in ThoughtPart,
         NEW text \in Words, text # <<>>, ViewWritten(at, new, p, text)
  PROVE  Standing(new, turnsBegun) /\ Aligned(new, Retold(said, p, text), turnsBegun)
<1>1. p \in AnyPart /\ PassageKind(p) = "thinking" /\ p \notin TextPart
  BY TextAssumption DEF AnyPart, PassageKind
<1>2. \A q \in AnyPart : q \in TextPart => BlockOf(new, q) = BlockOf(at, q)
  BY DEF BlockOf, ViewWritten
<1>3. \A q \in AnyPart : q \notin TextPart =>
        q \in ThoughtPart /\ BlockOf(new, q) = new.thinking.views[q] /\ BlockOf(at, q) = at.thinking.views[q]
  BY DEF BlockOf, AnyPart
<1>4. Rewritten(at, new, p, text)
  <2>1. BlockOf(new, p) = BlockFor(at, p)
    BY <1>1, <1>3 DEF ViewWritten
  <2>2. \A q \in AnyPart : q # p => BlockOf(new, q) = BlockOf(at, q)
    BY <1>2, <1>3 DEF ViewWritten
  <2>3. \A q \in TextPart : new.stream.segments[q].text = at.stream.segments[q].text
    BY DEF ViewWritten
  <2>4. Wrote(at.passages, new.passages, BlockFor(at, p), PassageKind(p), text)
    BY <1>1 DEF ViewWritten
  <2> QED
    BY <1>1, <2>1, <2>2, <2>3, <2>4 DEF Rewritten
<1>5. /\ Aligned(new, Retold(said, p, text), turnsBegun)
      /\ Len(at.passages) <= Len(new.passages)
      /\ \A i \in 1..Len(new.passages) : new.passages[i].turn <= turnsBegun
  BY <1>1, <1>4, PartWritten
<1>6. StandsWell(new)
  <2>1. at \in Screens /\ StandsWell(at)
    BY DEF Standing
  <2>2. Len(at.passages) \in Nat /\ Len(new.passages) \in Nat
    BY <2>1, ScreenFacts
  <2>3. new.stream = at.stream /\ new.thinking.current \in 1..Len(new.passages)
    BY DEF ViewWritten
  <2> QED
    BY <1>5, <2>1, <2>2, <2>3 DEF StandsWell
<1> QED
  BY <1>5, <1>6 DEF Standing

\* The text the stream and the thinking views know of a part is what it told.
LEMMA KnownText ==
  ASSUME NEW at \in Screens, told \in Seq(Entry), NEW turn, Aligned(at, told, turn), NEW p \in AnyPart
  PROVE  /\ BlockOf(at, p) # None => BlockOf(at, p) \in 1..Len(at.passages)
         /\ TextAt(at, BlockOf(at, p)) = TextTold(p)
         /\ p \in TextPart =>
              /\ KnownSegment(at, p) = BlockOf(at, p)
              /\ BlockOf(at, p) # None => at.stream.segments[p].text = TextTold(p)
         /\ TextTold(p) \in Words
         /\ Telling(p) # {} => TextTold(p) # <<>>
<1>1. CASE Telling(p) = {}
  <2>1. BlockOf(at, p) = None /\ TextTold(p) = <<>>
    BY <1>1, TextToldIs
  <2>2. <<>> \in Words
    BY EmptySeq DEF Words
  <2> QED
    BY <1>1, <2>1, <2>2 DEF TextAt, KnownSegment, BlockOf
<1>2. CASE Telling(p) # {}
  <2>1. PICK o \in 1..Len(told) : /\ told[o].part = p /\ told[o].text = TextTold(p)
                                  /\ Matches(at, told[o], turn) /\ BlockOf(at, p) # None
                                  /\ BlockOf(at, p) \in 1..Len(at.passages)
    BY <1>2, TextToldIs
  <2>2. told[o] \in Entry
    BY <2>1, ElementOfSeq
  <2>3. TextTold(p) \in Words
    BY <2>1, <2>2 DEF Entry
  <2>4. /\ at.passages[BlockOf(at, p)].text = TextTold(p) /\ TextTold(p) # <<>>
        /\ p \in TextPart => at.stream.segments[p].text = TextTold(p)
    BY <2>1 DEF Matches
  <2>5. p \in TextPart => KnownSegment(at, p) = BlockOf(at, p)
    BY DEF KnownSegment, BlockOf
  <2> QED
    BY <2>1, <2>3, <2>4, <2>5 DEF TextAt
<1> QED
  BY <1>1, <1>2

\* The parts of a text, appended
LEMMA AppendWrites ==
  ASSUME NEW at, told \in Seq(Entry), turnsBegun \in Nat, Standing(at, turnsBegun),
         Aligned(at, told, turnsBegun), NEW p \in TextPart, NEW x \in Words
  PROVE  LET new == AppendPart(at, p, x)
         IN  /\ new \in Screens /\ SegmentWritten(at, new, p, TextTold(p) \o x)
             /\ new.stream.text = at.stream.text \o x
<1> DEFINE new == AppendPart(at, p, x)
           known == KnownSegment(at, p)
           k == IF known = None THEN Len(at.passages) + 1 ELSE known
           now == (IF known = None THEN <<>> ELSE at.stream.segments[p].text) \o x
<1>1. at \in Screens /\ p \in AnyPart
  BY DEF Standing, AnyPart
<1>2. /\ BlockOf(at, p) # None => BlockOf(at, p) \in 1..Len(at.passages)
      /\ TextAt(at, BlockOf(at, p)) = TextTold(p)
      /\ known = BlockOf(at, p)
      /\ BlockOf(at, p) # None => at.stream.segments[p].text = TextTold(p)
  BY <1>1, KnownText
<1>3. known # None => known \in 1..Len(at.passages) /\ at.passages[known].text = at.stream.segments[p].text
  BY <1>2 DEF TextAt
<1>4. /\ new \in Screens /\ new.thinking = at.thinking
      /\ new.stream.text = at.stream.text \o x
      /\ new.stream.current = k /\ new.stream.part = p
      /\ new.stream.segments[p].block = k /\ new.stream.segments[p].text = now
      /\ \A q \in TextPart : q # p => new.stream.segments[q] = at.stream.segments[q]
      /\ k \in 1..Len(new.passages)
      /\ Wrote(at.passages, new.passages, k, "assistant", now)
  BY <1>1, <1>3, PartAppended
<1>5. k = BlockFor(at, p)
  BY <1>2 DEF BlockFor
<1>6. now = TextTold(p) \o x
  BY <1>2 DEF TextAt
<1> HIDE DEF new, k, now
<1> QED
  BY <1>4, <1>5, <1>6 DEF SegmentWritten, new

\* or sent again,
LEMMA UpsertWrites ==
  ASSUME NEW at, told \in Seq(Entry), turnsBegun \in Nat, Standing(at, turnsBegun),
         Aligned(at, told, turnsBegun), NEW p \in TextPart, NEW text \in Words
  PROVE  LET new == Upsert(at, p, text)
         IN  /\ new \in Screens /\ SegmentWritten(at, new, p, text)
             /\ new.stream.text = StreamedAfter(at.stream.text, TextTold(p), text)
<1> DEFINE new == Upsert(at, p, text)
           known == KnownSegment(at, p)
           k == IF known = None THEN Len(at.passages) + 1 ELSE known
           old == IF known = None THEN <<>> ELSE at.stream.segments[p].text
<1>1. at \in Screens /\ p \in AnyPart
  BY DEF Standing, AnyPart
<1>2. /\ BlockOf(at, p) # None => BlockOf(at, p) \in 1..Len(at.passages)
      /\ TextAt(at, BlockOf(at, p)) = TextTold(p)
      /\ known = BlockOf(at, p)
      /\ BlockOf(at, p) # None => at.stream.segments[p].text = TextTold(p)
  BY <1>1, KnownText
<1>3. known # None => known \in 1..Len(at.passages)
  BY <1>2
<1>4. /\ new \in Screens /\ new.thinking = at.thinking
      /\ new.stream.text = StreamedAfter(at.stream.text, old, text)
      /\ new.stream.current = k /\ new.stream.part = p
      /\ new.stream.segments[p].block = k /\ new.stream.segments[p].text = text
      /\ \A q \in TextPart : q # p => new.stream.segments[q] = at.stream.segments[q]
      /\ k \in 1..Len(new.passages)
      /\ Wrote(at.passages, new.passages, k, "assistant", text)
  BY <1>1, <1>3, PartUpserted
<1>5. k = BlockFor(at, p)
  BY <1>2 DEF BlockFor
<1>6. old = TextTold(p)
  BY <1>2 DEF TextAt
<1> HIDE DEF new, k, old
<1> QED
  BY <1>4, <1>5, <1>6 DEF SegmentWritten, new

\* and those of a thought.
LEMMA ThoughtWrites ==
  ASSUME NEW at, told \in Seq(Entry), turnsBegun \in Nat, Standing(at, turnsBegun),
         Aligned(at, told, turnsBegun), NEW p \in ThoughtPart, NEW x \in Words,
         NEW new, new = AppendThinking(at, p, x) \/ new = UpsertThought(at, p, TextTold(p) \o x)
  PROVE  new \in Screens /\ ViewWritten(at, new, p, TextTold(p) \o x)
<1> DEFINE known == KnownView(at, p)
           k == IF known = None THEN Len(at.passages) + 1 ELSE known
<1>1. at \in Screens /\ p \in AnyPart /\ p # None /\ p \notin TextPart /\ p \in ThoughtPart \cup {None}
  BY TextAssumption DEF Standing, AnyPart
<1>2. /\ BlockOf(at, p) # None => BlockOf(at, p) \in 1..Len(at.passages)
      /\ TextAt(at, BlockOf(at, p)) = TextTold(p) /\ TextTold(p) \in Words
  BY <1>1, KnownText
<1>3. known = BlockOf(at, p)
  BY <1>1 DEF KnownView, BlockOf
<1>4. known # None => known \in 1..Len(at.passages)
  BY <1>2, <1>3
<1>5. k = BlockFor(at, p)
  BY <1>3 DEF BlockFor
<1>6. TextTold(p) \o x \in Words
  BY <1>2, ConcatProperties DEF Words
<1>7. /\ new \in Screens /\ new.stream = at.stream
      /\ new.thinking.current = k
      /\ \A q \in ThoughtPart : new.thinking.views[q] = IF q = p THEN k ELSE at.thinking.views[q]
      /\ k \in 1..Len(new.passages)
      /\ Wrote(at.passages, new.passages, k, "thinking", TextTold(p) \o x)
  <2>1. CASE new = AppendThinking(at, p, x)
    <3> DEFINE app == AppendThinking(at, p, x)
    <3>1. /\ app \in Screens /\ app.stream = at.stream
          /\ app.thinking.current = k
          /\ \A q \in ThoughtPart : app.thinking.views[q] = IF q = p THEN k ELSE at.thinking.views[q]
          /\ k \in 1..Len(app.passages)
          /\ Wrote(at.passages, app.passages, k, "thinking", TextAt(at, known) \o x)
      BY <1>1, <1>4, ThoughtAppended
    <3> HIDE DEF app, known, k
    <3>2. TextAt(at, known) \o x = TextTold(p) \o x
      BY <1>2, <1>3
    <3> QED
      BY <2>1, <3>1, <3>2 DEF app
  <2>2. CASE new = UpsertThought(at, p, TextTold(p) \o x)
    <3> DEFINE text == TextTold(p) \o x
               up == UpsertThought(at, p, text)
    <3> HIDE DEF text
    <3>1. /\ up \in Screens /\ up.stream = at.stream
          /\ up.thinking.current = k
          /\ \A q \in ThoughtPart : up.thinking.views[q] = IF q = p THEN k ELSE at.thinking.views[q]
          /\ k \in 1..Len(up.passages)
          /\ Wrote(at.passages, up.passages, k, "thinking", text)
      <4>1. text \in Words
        BY <1>6 DEF text
      <4> QED
        BY <1>1, <1>4, <4>1, ThoughtUpserted
    <3> HIDE DEF up, k
    <3> QED
      BY <2>2, <3>1 DEF up, text
  <2> QED
    BY <2>1, <2>2
<1> HIDE DEF k
<1> QED
  BY <1>5, <1>7 DEF ViewWritten

-----------------------------------------------------------------------------
(* A turn of parts. *)

\* A step within a turn of parts.
LEMMA PartsStep ==
  ASSUME SaidInv, talk = "on", protocol = "parts", NEW new, Move(new),
         Standing(new, turnsBegun), Fresh(told', tokens'), tokens' \in Nat, revised' \in BOOLEAN,
         PartsInv(new, told', turnsBegun, revised'),
         protocol' = protocol, talk' = talk, turnsBegun' = turnsBegun
  PROVE  SaidInv'
<1>1. Here' = new
  BY MoveIs DEF Move, Standing
<1>2. Standing(Here', turnsBegun')
  BY <1>1
<1>3. PartsInv(Here', told', turnsBegun', revised')
  BY <1>1
<1>4. turnsBegun \in Nat
  BY DEF SaidInv
<1> QED
  BY <1>2, <1>3, <1>4 DEF SaidInv

\* What holds in a turn of parts.
LEMMA InParts ==
  ASSUME SaidInv, talk = "on", protocol = "parts"
  PROVE  /\ turnsBegun \in Nat /\ tokens \in Nat /\ FreshText \in Nat /\ revised \in BOOLEAN
         /\ Standing(Here, turnsBegun) /\ Fresh(told, tokens) /\ told \in Seq(Entry)
         /\ Here \in Screens /\ Aligned(Here, told, turnsBegun)
         /\ Here.stream.current # None => Here.stream.part # None
         /\ ~revised => Here.stream.text = SaidText(told, "assistant")
         /\ Here.stream.text \in Words
<1>1. /\ turnsBegun \in Nat /\ tokens \in Nat /\ revised \in BOOLEAN
      /\ Standing(Here, turnsBegun) /\ Fresh(told, tokens) /\ PartsInv(Here, told, turnsBegun, revised)
  BY DEF SaidInv
<1>2. FreshText \in Nat
  BY <1>1 DEF FreshText
<1>3. Here \in Screens /\ told \in Seq(Entry)
  BY <1>1 DEF Standing, Fresh
<1>4. Here.stream.text \in Words
  BY <1>3, ScreenFacts
<1> QED
  BY <1>1, <1>2, <1>3, <1>4 DEF PartsInv

\* What a part told are tokens used before, which a new one comes after.
LEMMA ToldMore ==
  ASSUME SaidInv, talk = "on", protocol = "parts", NEW p \in AnyPart
  PROVE  /\ TextTold(p) \in Seq(1..tokens) /\ TextTold(p) \in Words
         /\ TextTold(p) \o <<FreshText>> \in Seq(1 .. tokens + 1)
         /\ TextTold(p) \o <<FreshText>> \in Words /\ TextTold(p) \o <<FreshText>> # <<>>
         /\ Append(TextTold(p), FreshText) = TextTold(p) \o <<FreshText>>
         /\ <<FreshText>> \in Words /\ <<FreshText>> # <<>> /\ <<FreshText>> \in Seq(1 .. tokens + 1)
<1>1. tokens \in Nat /\ FreshText = tokens + 1 /\ FreshText \in Nat /\ told \in Seq(Entry)
      /\ Fresh(told, tokens) /\ Here \in Screens /\ Aligned(Here, told, turnsBegun)
  BY InParts DEF FreshText
<1>2. TextTold(p) \in Seq(1..tokens)
  <2>1. CASE Telling(p) = {}
    <3>1. <<>> \in Seq(1..tokens)
      BY EmptySeq
    <3> QED
      BY <1>1, <2>1, <3>1, TextToldIs
  <2>2. CASE Telling(p) # {}
    <3>1. PICK o \in 1..Len(told) : told[o].text = TextTold(p)
      BY <1>1, <2>2, TextToldIs
    <3> QED
      BY <1>1, <3>1 DEF Fresh
  <2> QED
    BY <2>1, <2>2
<1>3. /\ <<tokens + 1>> \in Seq(1 .. tokens + 1)
      /\ TextTold(p) \o <<tokens + 1>> \in Seq(1 .. tokens + 1)
      /\ Append(TextTold(p), tokens + 1) = TextTold(p) \o <<tokens + 1>> /\ TextTold(p) \in Words
  BY <1>1, <1>2, OneMore
<1>4. <<FreshText>> \in Words /\ Len(<<FreshText>>) = 1 /\ <<FreshText>> # <<>>
  BY <1>1, OneWord
<1>5. /\ TextTold(p) \o <<FreshText>> \in Words
      /\ Len(TextTold(p) \o <<FreshText>>) = Len(TextTold(p)) + 1 /\ Len(TextTold(p)) \in Nat
  BY <1>3, <1>4, WordsCut
<1>6. TextTold(p) \o <<FreshText>> # <<>>
  BY <1>5
<1> QED
  BY <1>1, <1>2, <1>3, <1>4, <1>5, <1>6

\* A text part tells, and is written.
LEMMA TextTells ==
  ASSUME SaidInv, talk = "on", protocol = "parts", NEW p \in TextPart, NEW new \in Screens,
         NEW text \in Seq(1 .. tokens + 1), text # <<>>, SegmentWritten(Here, new, p, text), Move(new),
         Tell(p, text), tokens' = FreshText, revised' = (revised \/ ~AtTheEnd(p)),
         protocol' = protocol, talk' = talk, turnsBegun' = turnsBegun,
         ~revised /\ AtTheEnd(p) => new.stream.text = SaidText(Retold(told, p, text), "assistant")
  PROVE  SaidInv'
<1>1. /\ turnsBegun \in Nat /\ tokens \in Nat /\ revised \in BOOLEAN
      /\ Standing(Here, turnsBegun) /\ Fresh(told, tokens) /\ told \in Seq(Entry)
      /\ Aligned(Here, told, turnsBegun)
  BY InParts
<1>2. p \in AnyPart /\ text \in Words /\ FreshText = tokens + 1 /\ tokens + 1 \in Nat
  <2>1. 1 .. tokens + 1 \subseteq Nat
    BY <1>1
  <2> QED
    BY <1>1, <2>1, SeqMonotonic DEF AnyPart, Words, FreshText
<1>3. told' = Retold(told, p, text)
  BY Told
<1>4. /\ Standing(new, turnsBegun) /\ Aligned(new, Retold(told, p, text), turnsBegun)
      /\ new.stream.part # None
  BY <1>1, <1>2, SegmentPaired
<1>5. Fresh(Retold(told, p, text), tokens + 1)
  BY <1>1, <1>2, RetoldFresh
<1>6. revised' \in BOOLEAN /\ (~revised' => ~revised /\ AtTheEnd(p))
  BY <1>1
<1>7. PartsInv(new, told', turnsBegun, revised')
  BY <1>3, <1>4, <1>6 DEF PartsInv
<1>8. Fresh(told', tokens') /\ tokens' \in Nat
  BY <1>2, <1>3, <1>5
<1> QED
  BY <1>4, <1>6, <1>7, <1>8, PartsStep

\* Text of a part: more, the same again or another.
LEMMA PartTextKeeps ==
  ASSUME SaidInv, NEW p \in AnyPart, PartText(p)
  PROVE  SaidInv'
<1>0. talk = "on" /\ protocol = "parts" /\ p \in TextPart
      /\ protocol' = protocol /\ talk' = talk /\ turnsBegun' = turnsBegun
  BY DEF PartText
<1>1. /\ turnsBegun \in Nat /\ tokens \in Nat /\ FreshText \in Nat /\ revised \in BOOLEAN
      /\ Standing(Here, turnsBegun) /\ Fresh(told, tokens) /\ told \in Seq(Entry)
      /\ Here \in Screens /\ Aligned(Here, told, turnsBegun)
      /\ ~revised => Here.stream.text = SaidText(told, "assistant")
      /\ Here.stream.text \in Words
  BY <1>0, InParts
<1> DEFINE old == TextTold(p)
           x == <<FreshText>>
           more == old \o x
<1>2. /\ old \in Seq(1..tokens) /\ old \in Words
      /\ more \in Seq(1 .. tokens + 1) /\ more \in Words /\ more # <<>>
      /\ Append(old, FreshText) = more
      /\ x \in Words /\ x # <<>> /\ x \in Seq(1 .. tokens + 1)
  BY <1>0, ToldMore
<1>3. \A text \in Words : AtTheEnd(p) =>
        \E front \in Words : /\ SaidText(told, "assistant") = front \o old
                             /\ SaidText(Retold(told, p, text), "assistant") = front \o text
  BY <1>0, <1>1, RetoldEnd
<1>4. ASSUME NEW new \in Screens, Move(new), SegmentWritten(Here, new, p, more),
             new.stream.text = Here.stream.text \o x, Tell(p, Append(old, FreshText)),
             tokens' = FreshText, revised' = (revised \/ ~AtTheEnd(p))
      PROVE  SaidInv'
  <2>1. ASSUME ~revised, AtTheEnd(p)
        PROVE  new.stream.text = SaidText(Retold(told, p, more), "assistant")
    <3> HIDE DEF old, x
    <3>1. PICK front \in Words : /\ SaidText(told, "assistant") = front \o old
                                 /\ SaidText(Retold(told, p, more), "assistant") = front \o more
      BY <1>2, <1>3, <2>1
    <3>2. (front \o old) \o x = front \o more
      BY <1>2, <3>1, WordsGroup
    <3> QED
      BY <1>1, <1>4, <2>1, <3>1, <3>2
  <2>2. Tell(p, more)
    BY <1>2, <1>4
  <2> HIDE DEF more
  <2> QED
    BY <1>0, <1>2, <1>4, <2>1, <2>2, TextTells
<1>5. ASSUME tokens' = FreshText, Move(AppendPart(Here, p, x)), Tell(p, Append(old, FreshText)),
             revised' = (revised \/ ~AtTheEnd(p))
      PROVE  SaidInv'
  <2> DEFINE new == AppendPart(Here, p, x)
  <2>1. /\ new \in Screens /\ SegmentWritten(Here, new, p, more)
        /\ new.stream.text = Here.stream.text \o x
    <3> HIDE DEF x
    <3> QED
      BY <1>0, <1>1, <1>2, AppendWrites
  <2>2. Move(new)
    BY <1>5
  <2> HIDE DEF new, more, x, old
  <2> QED
    BY <1>4, <1>5, <2>1, <2>2
<1>6. ASSUME tokens' = FreshText, Move(Upsert(Here, p, Append(old, FreshText))),
             Tell(p, Append(old, FreshText)), revised' = (revised \/ ~AtTheEnd(p))
      PROVE  SaidInv'
  <2> DEFINE new == Upsert(Here, p, more)
  <2>1. /\ new \in Screens /\ SegmentWritten(Here, new, p, more)
        /\ new.stream.text = StreamedAfter(Here.stream.text, old, more)
    <3> HIDE DEF more
    <3> QED
      BY <1>0, <1>1, <1>2, UpsertWrites
  <2>2. StreamedAfter(Here.stream.text, old, more) = Here.stream.text \o x
    <3> HIDE DEF x, old
    <3> QED
      BY <1>1, <1>2, StreamedMore
  <2>3. Move(new)
    BY <1>2, <1>6
  <2> HIDE DEF new, more, x, old
  <2> QED
    BY <1>4, <1>6, <2>1, <2>2, <2>3
<1>7. ASSUME tokens' = FreshText, Telling(p) # {}, Move(Upsert(Here, p, x)), Tell(p, x),
             revised' = (revised \/ ~AtTheEnd(p))
      PROVE  SaidInv'
  <2> DEFINE new == Upsert(Here, p, x)
  <2>0. old # <<>>
    BY <1>0, <1>1, <1>7, KnownText DEF AnyPart
  <2>1. /\ new \in Screens /\ SegmentWritten(Here, new, p, x)
        /\ new.stream.text = StreamedAfter(Here.stream.text, old, x)
    <3> HIDE DEF x
    <3> QED
      BY <1>0, <1>1, <1>2, UpsertWrites
  <2>2. ASSUME ~revised, AtTheEnd(p)
        PROVE  new.stream.text = SaidText(Retold(told, p, x), "assistant")
    <3>1. PICK front \in Words : /\ SaidText(told, "assistant") = front \o old
                                 /\ SaidText(Retold(told, p, x), "assistant") = front \o x
      <4> HIDE DEF old, x
      <4> QED
        BY <1>2, <1>3, <2>2
    <3>2. tokens < FreshText
      BY <1>1 DEF FreshText
    <3> HIDE DEF new, old
    <3>3. StreamedAfter(front \o old, old, x) = front \o x
      BY <1>1, <1>2, <2>0, <3>1, <3>2, StreamedOther
    <3> QED
      BY <1>1, <2>1, <2>2, <3>1, <3>3
  <2>3. Move(new)
    BY <1>7
  <2> HIDE DEF new, x
  <2> QED
    BY <1>0, <1>2, <1>7, <2>1, <2>2, <2>3, TextTells
<1>8. ASSUME Telling(p) # {}, Move(Upsert(Here, p, old)), told' = told, revised' = revised,
             tokens' = tokens
      PROVE  SaidInv'
  <2> DEFINE new == Upsert(Here, p, old)
  <2>0. old # <<>> /\ p \in AnyPart
    BY <1>0, <1>1, <1>8, KnownText DEF AnyPart
  <2>1. /\ new \in Screens /\ SegmentWritten(Here, new, p, old)
        /\ new.stream.text = StreamedAfter(Here.stream.text, old, old)
    <3> HIDE DEF old
    <3> QED
      BY <1>0, <1>1, <1>2, UpsertWrites DEF old
  <2>2. new.stream.text = Here.stream.text
    <3> HIDE DEF old, new
    <3> QED
      BY <1>1, <1>2, <2>1, StreamedMore
  <2>3. Move(new)
    BY <1>8
  <2>4. Retold(told, p, old) = told
    BY <1>1, <1>8, <2>0, RetoldSame
  <2> HIDE DEF new, old
  <2>5. Standing(new, turnsBegun) /\ Aligned(new, told, turnsBegun) /\ new.stream.part # None
    <3>1. /\ Standing(new, turnsBegun) /\ Aligned(new, Retold(told, p, old), turnsBegun)
          /\ new.stream.part # None
      BY <1>0, <1>1, <1>2, <2>0, <2>1, SegmentPaired
    <3> QED
      BY <2>4, <3>1
  <2>6. PartsInv(new, told', turnsBegun, revised')
    BY <1>1, <1>8, <2>2, <2>5 DEF PartsInv
  <2>7. Fresh(told', tokens') /\ tokens' \in Nat /\ revised' \in BOOLEAN
    BY <1>1, <1>8
  <2> QED
    BY <1>0, <2>3, <2>5, <2>6, <2>7, PartsStep
<1> QED
  BY <1>5, <1>6, <1>7, <1>8 DEF PartText

\* A thought of a part, which is not shown for a coordinator.
LEMMA PartThoughtKeeps ==
  ASSUME SaidInv, NEW p \in AnyPart, PartThought(p)
  PROVE  SaidInv'
<1>0. /\ talk = "on" /\ protocol = "parts" /\ p \in ThoughtPart /\ tokens' = FreshText
      /\ protocol' = protocol /\ talk' = talk /\ turnsBegun' = turnsBegun /\ revised' = revised
  BY DEF PartThought
<1>1. /\ turnsBegun \in Nat /\ tokens \in Nat /\ FreshText \in Nat /\ revised \in BOOLEAN
      /\ Standing(Here, turnsBegun) /\ Fresh(told, tokens) /\ told \in Seq(Entry)
      /\ Here \in Screens /\ Aligned(Here, told, turnsBegun)
      /\ Here.stream.current # None => Here.stream.part # None
      /\ ~revised => Here.stream.text = SaidText(told, "assistant")
  BY <1>0, InParts
<1>2. tokens + 1 \in Nat /\ tokens <= tokens + 1 /\ tokens' = tokens + 1
  BY <1>0, <1>1 DEF FreshText
<1>3. CASE MessageOf[p] \in coordinators
  <2>1. UNCHANGED <<passages, stream, thinking, told>>
    BY <1>3 DEF PartThought
  <2>2. Fresh(told, tokens + 1)
    <3>1. \A i \in 1..Len(told) :
            told[i].text \in Seq(1 .. tokens + 1) \/ \E j \in 1..Len(told) : told[i] = told[j]
      OBVIOUS
    <3> QED
      BY <1>1, <1>2, <3>1, FreshFrom
  <2>3. Move(Here)
    BY <2>1 DEF Move, Here, Screen
  <2>4. PartsInv(Here, told', turnsBegun, revised')
    BY <1>0, <1>1, <2>1 DEF PartsInv
  <2>5. Fresh(told', tokens') /\ tokens' \in Nat /\ revised' \in BOOLEAN
    BY <1>0, <1>1, <1>2, <2>1, <2>2
  <2> QED
    BY <1>0, <1>1, <2>3, <2>4, <2>5, PartsStep
<1>4. CASE MessageOf[p] \notin coordinators
  <2> DEFINE text == TextTold(p) \o <<FreshText>>
             x == <<FreshText>>
  <2>0. p \in AnyPart /\ PassageKind(p) = "thinking"
    BY <1>0, TextAssumption DEF AnyPart, PassageKind
  <2>1. /\ text \in Seq(1 .. tokens + 1) /\ text \in Words /\ text # <<>>
        /\ Append(TextTold(p), FreshText) = text /\ x \in Words
    BY <1>0, ToldMore
  <2>2. PICK new : /\ new = AppendThinking(Here, p, x) \/ new = UpsertThought(Here, p, text)
                   /\ Move(new) /\ Tell(p, text)
    BY <1>4, <2>1 DEF PartThought
  <2>3. new \in Screens /\ ViewWritten(Here, new, p, text)
    <3> HIDE DEF x
    <3>1. new = AppendThinking(Here, p, x) \/ new = UpsertThought(Here, p, TextTold(p) \o x)
      BY <2>2 DEF x
    <3>2. new \in Screens /\ ViewWritten(Here, new, p, TextTold(p) \o x)
      BY <1>0, <1>1, <2>1, <3>1, ThoughtWrites
    <3> QED
      BY <3>2 DEF x
  <2> HIDE DEF text
  <2>4. Standing(new, turnsBegun) /\ Aligned(new, Retold(told, p, text), turnsBegun)
    BY <1>0, <1>1, <2>1, <2>3, ViewPaired
  <2>5. told' = Retold(told, p, text)
    BY <2>2, Told
  <2>6. SaidText(Retold(told, p, text), "assistant") = SaidText(told, "assistant")
    BY <1>1, <2>0, <2>1, RetoldOther
  <2>7. new.stream = Here.stream
    BY <2>3 DEF ViewWritten
  <2>8. PartsInv(new, told', turnsBegun, revised')
    BY <1>0, <1>1, <2>4, <2>5, <2>6, <2>7 DEF PartsInv
  <2>9. Fresh(told', tokens') /\ tokens' \in Nat /\ revised' \in BOOLEAN
    <3>1. Fresh(Retold(told, p, text), tokens + 1)
      BY <1>1, <2>0, <2>1, RetoldFresh
    <3> QED
      BY <1>0, <1>1, <1>2, <2>5, <3>1
  <2> QED
    BY <1>0, <2>2, <2>4, <2>8, <2>9, PartsStep
<1> QED
  BY <1>3, <1>4

\* What is taken back leaves the tokens of the rest.
LEMMA ForgottenFresh ==
  ASSUME NEW n \in Nat, NEW said, Fresh(said, n), NEW ps
  PROVE  Fresh(Forgotten(said, ps), n)
<1> DEFINE r == Forgotten(said, ps)
           gone == Said("gone", None, <<>>)
<1>1. said \in Seq(Entry)
  BY DEF Fresh
<1>2. /\ r \in Seq(Entry) /\ Len(r) = Len(said) /\ Blank(gone)
      /\ \A i \in 1..Len(said) : r[i] = IF said[i].part \in ps THEN gone ELSE said[i]
  BY <1>1, ForgottenFacts
<1>3. gone.text \in Seq(1..n)
  BY <1>2, EmptySeq DEF Blank
<1> HIDE DEF r, gone
<1>4. \A i \in 1..Len(r) :
        r[i].text \in Seq(1..n) \/ \E j \in 1..Len(said) : r[i] = said[j]
  BY <1>2, <1>3
<1>5. n <= n
  OBVIOUS
<1>6. Fresh(r, n)
  BY <1>2, <1>4, <1>5, FreshFrom
<1> QED
  BY <1>6 DEF r

\* Thoughts taken back leave the text.
LEMMA ForgottenThoughts ==
  ASSUME NEW at \in Screens, NEW said \in Seq(Entry), NEW turn, Aligned(at, said, turn),
         NEW ps, ps \subseteq AnyPart, ps \cap TextPart = {}
  PROVE  SaidText(Forgotten(said, ps), "assistant") = SaidText(said, "assistant")
<1> DEFINE r == Forgotten(said, ps)
           gone == Said("gone", None, <<>>)
<1>1. /\ r \in Seq(Entry) /\ Len(r) = Len(said) /\ Blank(gone)
      /\ \A i \in 1..Len(said) : r[i] = IF said[i].part \in ps THEN gone ELSE said[i]
  BY ForgottenFacts
<1> HIDE DEF r, gone
<1>2. ASSUME NEW i \in 1..Len(said)
      PROVE  r[i] = said[i] \/ (said[i].kind # "assistant" /\ r[i].kind # "assistant")
  <2>1. CASE said[i].part \in ps
    <3>1. said[i].part \notin TextPart /\ said[i].part # None
      BY <2>1, TextAssumption DEF AnyPart
    <3>2. Matches(at, said[i], turn)
      BY <3>1 DEF Aligned, Blank
    <3>3. said[i].kind = "thinking"
      BY <3>1, <3>2 DEF Matches, PassageKind
    <3>4. r[i].kind = "gone"
      BY <1>1, <2>1 DEF Blank
    <3> QED
      BY <3>3, <3>4
  <2>2. CASE said[i].part \notin ps
    BY <1>1, <2>2
  <2> QED
    BY <2>1, <2>2
<1>3. SaidText(r, "assistant") = SaidText(said, "assistant")
  BY <1>1, <1>2, SaidElsewhere
<1> QED
  BY <1>3 DEF r

\* Parts are taken back.
LEMMA PartsGo ==
  ASSUME SaidInv, talk = "on", protocol = "parts", NEW ps \in SUBSET AnyPart,
         Move(TakeBack(Here, ps)), Forget(ps), revised' \in BOOLEAN,
         ~revised' => ~revised /\ ps \cap TextPart = {},
         protocol' = protocol, talk' = talk, turnsBegun' = turnsBegun, tokens' = tokens
  PROVE  SaidInv'
<1> DEFINE new == TakeBack(Here, ps)
<1>1. /\ turnsBegun \in Nat /\ tokens \in Nat
      /\ Standing(Here, turnsBegun) /\ Fresh(told, tokens) /\ told \in Seq(Entry)
      /\ Here \in Screens /\ Aligned(Here, told, turnsBegun)
      /\ Here.stream.current # None => Here.stream.part # None
      /\ ~revised => Here.stream.text = SaidText(told, "assistant")
  BY InParts
<1>2. /\ new \in Screens /\ Len(new.passages) = Len(Here.passages)
      /\ \A i \in 1..Len(Here.passages) : new.passages[i].turn = Here.passages[i].turn
      /\ new.stream.text = Here.stream.text
      /\ \/ new.stream.current = None /\ new.stream.part = None
         \/ new.stream.current = Here.stream.current /\ new.stream.part = Here.stream.part
      /\ new.thinking.current \in {None, Here.thinking.current}
  BY <1>1, TakenBack
<1>3. Aligned(new, Forgotten(told, ps), turnsBegun)
  BY <1>1, AlignedTakenBack
<1>4. told' = Forgotten(told, ps)
  BY DEF Forget, Forgotten
<1> HIDE DEF new
<1>5. Standing(new, turnsBegun)
  <2>1. StandsWell(Here) /\ \A i \in 1..Len(Here.passages) : Here.passages[i].turn <= turnsBegun
    BY <1>1 DEF Standing
  <2>2. StandsWell(new)
    BY <1>2, <2>1 DEF StandsWell
  <2> QED
    BY <1>2, <2>1, <2>2 DEF Standing
<1>6. ASSUME ~revised' PROVE new.stream.text = SaidText(told', "assistant")
  <2>1. ~revised /\ ps \cap TextPart = {} /\ ps \subseteq AnyPart
    BY <1>6
  <2>2. SaidText(Forgotten(told, ps), "assistant") = SaidText(told, "assistant")
    BY <1>1, <2>1, ForgottenThoughts
  <2> QED
    BY <1>1, <1>2, <1>4, <2>1, <2>2
<1>7. PartsInv(new, told', turnsBegun, revised')
  BY <1>1, <1>2, <1>3, <1>4, <1>6 DEF PartsInv
<1>8. Fresh(told', tokens') /\ tokens' \in Nat
  BY <1>1, <1>4, ForgottenFresh
<1>9. Move(new)
  BY DEF new
<1> QED
  BY <1>5, <1>7, <1>8, <1>9, PartsStep

\* Nothing that was said in plain words belongs to a part.
LEMMA PlainTellsNoPart ==
  ASSUME SaidInv, talk = "on", protocol # "parts", NEW p \in AnyPart
  PROVE  Telling(p) = {}
<1>1. protocol = "plain" /\ told \in Seq(Entry) /\ PlainInv(Here, told, turnsBegun)
  BY DEF SaidInv, Fresh
<1>2. DOMAIN told = 1..Len(told) /\ \A i \in 1..Len(told) : told[i].part = None
  BY <1>1, LenProperties DEF PlainInv, NoParts
<1>3. p # None
  BY TextAssumption DEF AnyPart
<1> QED
  BY <1>2, <1>3 DEF Telling

\* A part, a message or the thoughts of a coordinator are taken back.
LEMMA TakenBackKeeps ==
  ASSUME SaidInv,
         \/ \E p \in AnyPart : PartTakenBack(p)
         \/ \E m \in {MessageOf[p] : p \in AnyPart} : MessageTakenBack(m) \/ CoordinatorFound(m)
  PROVE  SaidInv'
<1>0. revised \in BOOLEAN
  BY DEF SaidInv
<1>1. ASSUME NEW p \in AnyPart, PartTakenBack(p) PROVE SaidInv'
  <2>1. /\ talk = "on" /\ Telling(p) # {} /\ Move(TakeBack(Here, {p})) /\ Forget({p})
        /\ revised' = (revised \/ p \in TextPart)
        /\ protocol' = protocol /\ talk' = talk /\ turnsBegun' = turnsBegun /\ tokens' = tokens
    BY <1>1 DEF PartTakenBack
  <2>2. protocol = "parts"
    BY <2>1, PlainTellsNoPart
  <2>3. {p} \in SUBSET AnyPart /\ revised' \in BOOLEAN
        /\ (~revised' => ~revised /\ {p} \cap TextPart = {})
    BY <1>0, <2>1
  <2> QED
    BY <2>1, <2>2, <2>3, PartsGo
<1>2. ASSUME NEW m, MessageTakenBack(m) PROVE SaidInv'
  <2> DEFINE ps == {p \in AnyPart : MessageOf[p] = m /\ Telling(p) # {}}
  <2>1. /\ talk = "on" /\ ps # {} /\ Move(TakeBack(Here, ps)) /\ Forget(ps)
        /\ revised' = (revised \/ ps \cap TextPart # {})
        /\ protocol' = protocol /\ talk' = talk /\ turnsBegun' = turnsBegun /\ tokens' = tokens
    BY <1>2 DEF MessageTakenBack
  <2>2. protocol = "parts"
    BY <2>1, PlainTellsNoPart
  <2>3. ps \in SUBSET AnyPart /\ revised' \in BOOLEAN
        /\ (~revised' => ~revised /\ ps \cap TextPart = {})
    BY <1>0, <2>1
  <2> HIDE DEF ps
  <2> QED
    BY <2>1, <2>2, <2>3, PartsGo
<1>3. ASSUME NEW m, CoordinatorFound(m) PROVE SaidInv'
  <2> DEFINE ps == {p \in ThoughtPart : MessageOf[p] = m}
  <2>1. /\ talk = "on" /\ protocol = "parts" /\ Move(TakeBack(Here, ps)) /\ Forget(ps)
        /\ revised' = revised
        /\ protocol' = protocol /\ talk' = talk /\ turnsBegun' = turnsBegun /\ tokens' = tokens
    BY <1>3 DEF CoordinatorFound
  <2>2. ps \in SUBSET AnyPart /\ revised' \in BOOLEAN
        /\ (~revised' => ~revised /\ ps \cap TextPart = {})
    BY <1>0, <2>1, TextAssumption DEF AnyPart
  <2> HIDE DEF ps
  <2> QED
    BY <2>1, <2>2, PartsGo
<1> QED
  BY <1>1, <1>2, <1>3

-----------------------------------------------------------------------------
(* A turn of plain deltas. *)

\* A step within a turn of plain deltas.
LEMMA PlainStep ==
  ASSUME SaidInv, talk = "on", protocol = "plain", NEW new, Move(new),
         Standing(new, turnsBegun), Fresh(told', tokens'), tokens' \in Nat,
         PlainInv(new, told', turnsBegun), revised' = revised,
         protocol' = protocol, talk' = talk, turnsBegun' = turnsBegun
  PROVE  SaidInv'
<1>1. Here' = new
  BY MoveIs DEF Move, Standing
<1>2. Standing(Here', turnsBegun')
  BY <1>1
<1>3. PlainInv(Here', told', turnsBegun')
  BY <1>1
<1>4. turnsBegun \in Nat /\ revised \in BOOLEAN /\ ~revised
  BY DEF SaidInv
<1> QED
  BY <1>2, <1>3, <1>4 DEF SaidInv

\* What holds in a turn of plain deltas.
LEMMA InPlain ==
  ASSUME SaidInv, talk = "on", protocol = "plain"
  PROVE  /\ turnsBegun \in Nat /\ tokens \in Nat /\ FreshText \in Nat /\ FreshText = tokens + 1
         /\ Standing(Here, turnsBegun) /\ Fresh(told, tokens) /\ told \in Seq(Entry)
         /\ Here \in Screens /\ Here.passages \in Seq(Passage) /\ PlainInv(Here, told, turnsBegun)
         /\ Ready(Here) /\ <<FreshText>> \in Words
         /\ Here.thinking.current # None => Here.thinking.current \in 1..Len(Here.passages)
<1>1. /\ turnsBegun \in Nat /\ tokens \in Nat
      /\ Standing(Here, turnsBegun) /\ Fresh(told, tokens) /\ PlainInv(Here, told, turnsBegun)
  BY DEF SaidInv
<1>2. FreshText \in Nat /\ FreshText = tokens + 1
  BY <1>1 DEF FreshText
<1>3. Here \in Screens /\ told \in Seq(Entry)
  BY <1>1 DEF Standing, Fresh
<1>4. Here.passages \in Seq(Passage)
  BY <1>3, ScreenFacts
<1>5. Ready(Here)
  BY <1>1 DEF Ready, PlainInv
<1>6. Here.thinking.current # None => Here.thinking.current \in 1..Len(Here.passages)
  BY <1>1 DEF Standing, StandsWell
<1> QED
  BY <1>1, <1>2, <1>3, <1>4, <1>5, <1>6, OneWord

\* More text,
LEMMA PlainTextKeeps ==
  ASSUME SaidInv, PlainText
  PROVE  SaidInv'
<1> DEFINE x == <<FreshText>>
           new == AppendPlain(Here, x)
           now == Append(told, Said("assistant", None, x))
<1>0. /\ talk = "on" /\ protocol = "plain" /\ told' = now /\ tokens' = FreshText
      /\ Move(AppendDelta(Here, x))
      /\ protocol' = protocol /\ talk' = talk /\ turnsBegun' = turnsBegun /\ revised' = revised
  BY DEF PlainText
<1>1. /\ turnsBegun \in Nat /\ tokens \in Nat /\ FreshText \in Nat /\ FreshText = tokens + 1
      /\ Standing(Here, turnsBegun) /\ Fresh(told, tokens) /\ told \in Seq(Entry)
      /\ Here \in Screens /\ Here.passages \in Seq(Passage) /\ PlainInv(Here, told, turnsBegun)
      /\ Ready(Here) /\ x \in Words
  BY <1>0, InPlain
<1>2. Move(new)
  <2>1. x # <<>>
    BY <1>1, OneWord
  <2> QED
    BY <1>0, <2>1 DEF AppendDelta
<1>3. /\ NoParts(told)
      /\ Here.stream.part = None /\ Here.thinking.part = None
      /\ Here.thinking.current # None =>
           LastOf(Here.passages, "thinking", Here.thinking.current, turnsBegun)
      /\ OneActive(Here) /\ SaysIt(Here, told, turnsBegun)
      /\ Here.stream.text = SaidText(told, "assistant")
  BY <1>1 DEF PlainInv
<1>4. /\ Fresh(now, FreshText) /\ NoParts(now)
      /\ SaidText(now, "assistant") = SaidText(told, "assistant") \o x
      /\ SaidText(now, "thinking") = SaidText(told, "thinking")
  <2>1. /\ Fresh(now, FreshText) /\ NoParts(now)
        /\ SaidText(now, "assistant") = SaidText(told, "assistant") \o x
        /\ \A other : other # "assistant" => SaidText(now, other) = SaidText(told, other)
    <3>1. tokens <= FreshText /\ "assistant" \in Speech
      BY <1>1 DEF Speech
    <3>2. x \in Seq(1..FreshText)
      BY <1>1
    <3> HIDE DEF x
    <3> QED
      BY <1>1, <1>3, <3>1, <3>2, PlainSaid
  <2> QED
    BY <2>1
<1>5. /\ StandsWell(Here) /\ \A i \in 1..Len(Here.passages) : Here.passages[i].turn <= turnsBegun
      /\ Here.stream.current # None /\ Here.stream.part = None =>
           LastOf(Here.passages, "assistant", Here.stream.current, turnsBegun)
  BY <1>1 DEF Standing, Ready
<1> HIDE DEF x, now
<1>6. /\ new \in Screens /\ StandsWell(new) /\ new.thinking = Here.thinking
      /\ View(new.passages, "assistant", turnsBegun) = View(Here.passages, "assistant", turnsBegun) \o x
      /\ View(new.passages, "thinking", turnsBegun) = View(Here.passages, "thinking", turnsBegun)
      /\ new.stream.text = Here.stream.text \o x
      /\ new.stream.current # None /\ new.stream.part = None
      /\ LastOf(new.passages, "assistant", new.stream.current, turnsBegun)
      /\ \A i \in 1..Len(new.passages) : new.passages[i].turn <= turnsBegun
      /\ ThoughtsKept(Here, new)
  BY <1>1, <1>5, PlainAppended
<1> HIDE DEF new
<1>7. Standing(new, turnsBegun)
  BY <1>6 DEF Standing
<1>8. SaysIt(new, now, turnsBegun)
  BY <1>3, <1>4, <1>6 DEF SaysIt, Speech
<1>9. OneActive(new)
  BY <1>3, <1>6 DEF OneActive, ThoughtsKept
<1>10. ASSUME new.thinking.current # None
       PROVE  LastOf(new.passages, "thinking", new.thinking.current, turnsBegun)
  <2> DEFINE k == Here.thinking.current
  <2>1. new.thinking.current = k
    BY <1>6
  <2>2. /\ k \in 1..Len(Here.passages) /\ Shows(Here.passages[k], "thinking", turnsBegun)
        /\ \A i \in 1..Len(Here.passages) : Here.passages[i].kind = "thinking" => i <= k
    BY <1>3, <1>10, <2>1 DEF LastOf
  <2> HIDE DEF k
  <2>3. Here.passages[k].kind = "thinking" /\ Len(Here.passages) \in Nat /\ Len(new.passages) \in Nat
    BY <1>1, <1>6, <2>2, ScreenFacts DEF Shows
  <2>4. new.passages[k] = Here.passages[k] /\ k \in 1..Len(new.passages)
    BY <1>6, <2>2, <2>3 DEF ThoughtsKept
  <2>5. \A i \in 1..Len(new.passages) : new.passages[i].kind = "thinking" => i <= k
    <3>1. ASSUME NEW i \in 1..Len(new.passages), new.passages[i].kind = "thinking" PROVE i <= k
      <4>1. i <= Len(Here.passages) /\ new.passages[i] = Here.passages[i]
        BY <1>6, <3>1 DEF ThoughtsKept
      <4>2. i \in 1..Len(Here.passages)
        BY <2>3, <4>1
      <4> QED
        BY <2>2, <3>1, <4>1, <4>2
    <3> QED
      BY <3>1
  <2> QED
    BY <2>1, <2>2, <2>4, <2>5 DEF LastOf
<1>11. new.stream.text = SaidText(now, "assistant")
  BY <1>3, <1>4, <1>6
<1>12. PlainInv(new, now, turnsBegun)
  BY <1>3, <1>4, <1>6, <1>8, <1>9, <1>10, <1>11 DEF PlainInv
<1>13. Fresh(told', tokens') /\ tokens' \in Nat /\ PlainInv(new, told', turnsBegun)
  BY <1>0, <1>1, <1>4, <1>12
<1> QED
  BY <1>0, <1>2, <1>7, <1>13, PlainStep

\* another thought,
LEMMA PlainThoughtKeeps ==
  ASSUME SaidInv, PlainThought
  PROVE  SaidInv'
<1> DEFINE x == <<FreshText>>
           new == AppendThinking(Here, None, x)
           now == Append(told, Said("thinking", None, x))
           known == Here.thinking.current
           k == IF known = None THEN Len(Here.passages) + 1 ELSE known
<1>0. /\ talk = "on" /\ protocol = "plain" /\ told' = now /\ tokens' = FreshText /\ Move(new)
      /\ protocol' = protocol /\ talk' = talk /\ turnsBegun' = turnsBegun /\ revised' = revised
  BY DEF PlainThought
<1>1. /\ turnsBegun \in Nat /\ tokens \in Nat /\ FreshText \in Nat /\ FreshText = tokens + 1
      /\ Standing(Here, turnsBegun) /\ Fresh(told, tokens) /\ told \in Seq(Entry)
      /\ Here \in Screens /\ Here.passages \in Seq(Passage) /\ PlainInv(Here, told, turnsBegun)
      /\ x \in Words /\ (known # None => known \in 1..Len(Here.passages))
  BY <1>0, InPlain
<1>2. /\ NoParts(told)
      /\ Here.stream.part = None /\ Here.thinking.part = None
      /\ Here.stream.current # None =>
           LastOf(Here.passages, "assistant", Here.stream.current, turnsBegun)
      /\ known # None => LastOf(Here.passages, "thinking", known, turnsBegun)
      /\ OneActive(Here) /\ SaysIt(Here, told, turnsBegun)
      /\ Here.stream.text = SaidText(told, "assistant")
  BY <1>1 DEF PlainInv
<1>3. /\ Fresh(now, FreshText) /\ NoParts(now)
      /\ SaidText(now, "thinking") = SaidText(told, "thinking") \o x
      /\ SaidText(now, "assistant") = SaidText(told, "assistant")
  <2>1. /\ Fresh(now, FreshText) /\ NoParts(now)
        /\ SaidText(now, "thinking") = SaidText(told, "thinking") \o x
        /\ \A other : other # "thinking" => SaidText(now, other) = SaidText(told, other)
    <3>1. tokens <= FreshText /\ "thinking" \in Speech
      BY <1>1 DEF Speech
    <3>2. x \in Seq(1..FreshText)
      BY <1>1
    <3> HIDE DEF x
    <3> QED
      BY <1>1, <1>2, <3>1, <3>2, PlainSaid
  <2> QED
    BY <2>1
<1>4. StandsWell(Here) /\ \A i \in 1..Len(Here.passages) : Here.passages[i].turn <= turnsBegun
  BY <1>1 DEF Standing
<1>5. KnownView(Here, None) = known
  BY <1>2 DEF KnownView
<1> HIDE DEF x, now
<1>6. /\ new \in Screens /\ new.stream = Here.stream
      /\ new.thinking.current = k /\ new.thinking.part = None
      /\ k \in 1..Len(new.passages)
      /\ Wrote(Here.passages, new.passages, k, "thinking", TextAt(Here, known) \o x)
  <2>1. None \in ThoughtPart \cup {None}
    OBVIOUS
  <2> QED
    BY <1>1, <1>5, <2>1, ThoughtAppended
<1> HIDE DEF new, known
<1>7. /\ View(new.passages, "thinking", turnsBegun) = View(Here.passages, "thinking", turnsBegun) \o x
      /\ View(new.passages, "assistant", turnsBegun) = View(Here.passages, "assistant", turnsBegun)
      /\ LastOf(new.passages, "thinking", k, turnsBegun)
      /\ \A i \in 1..Len(new.passages) : new.passages[i].turn <= turnsBegun
      /\ Len(Here.passages) <= Len(new.passages)
      /\ \A i \in 1..Len(new.passages) : i # k => i \in 1..Len(Here.passages) /\ new.passages[i] = Here.passages[i]
  <2>1. new.passages \in Seq(Passage)
    BY <1>6, ScreenFacts
  <2>2. \/ /\ k = Len(Here.passages) + 1
           /\ Wrote(Here.passages, new.passages, k, "thinking", x)
        \/ /\ LastOf(Here.passages, "thinking", k, turnsBegun)
           /\ Wrote(Here.passages, new.passages, k, "thinking", Here.passages[k].text \o x)
    <3>1. CASE known = None
      <4>1. TextAt(Here, known) \o x = x
        BY <1>1, <3>1, ConcatEmptySeq DEF TextAt, Words
      <4>2. Wrote(Here.passages, new.passages, k, "thinking", x)
        BY <1>6, <4>1
      <4> QED
        BY <3>1, <4>2
    <3>2. CASE known # None
      <4>1. k = known /\ TextAt(Here, known) = Here.passages[k].text
        BY <3>2 DEF TextAt
      <4>2. Wrote(Here.passages, new.passages, k, "thinking", Here.passages[k].text \o x)
        BY <1>6, <4>1
      <4> QED
        BY <1>2, <3>2, <4>1, <4>2
    <3> QED
      BY <3>1, <3>2
  <2> DEFINE b == Here.passages
             c == new.passages
  <2>3. b \in Seq(Passage) /\ c \in Seq(Passage) /\ ThinksOn(b, c, k, x)
    BY <1>1, <1>4, <2>1, <2>2 DEF ThinksOn
  <2> HIDE DEF k, b, c
  <2>4. /\ View(c, "thinking", turnsBegun) = View(b, "thinking", turnsBegun) \o x
        /\ View(c, "assistant", turnsBegun) = View(b, "assistant", turnsBegun)
        /\ LastOf(c, "thinking", k, turnsBegun)
        /\ \A i \in 1..Len(c) : c[i].turn <= turnsBegun
        /\ Len(b) <= Len(c)
        /\ \A i \in 1..Len(c) : i # k => i \in 1..Len(b) /\ c[i] = b[i]
    BY <1>1, <2>3, ThoughtWritten
  <2> QED
    BY <2>4 DEF b, c
<1>8. Standing(new, turnsBegun)
  <2>1. Len(Here.passages) \in Nat /\ Len(new.passages) \in Nat
    BY <1>1, <1>6, ScreenFacts
  <2>2. StandsWell(new)
    BY <1>4, <1>6, <1>7, <2>1 DEF StandsWell
  <2> QED
    BY <1>6, <1>7, <2>2 DEF Standing
<1>9. SaysIt(new, now, turnsBegun)
  BY <1>2, <1>3, <1>7 DEF SaysIt, Speech
<1>10. OneActive(new)
  <2>1. ASSUME NEW i \in 1..Len(new.passages), new.passages[i].kind = "thinking", ~new.passages[i].done,
               i # k
        PROVE  FALSE
    <3>1. /\ i \in 1..Len(Here.passages) /\ Here.passages[i].kind = "thinking"
          /\ ~Here.passages[i].done
      BY <1>7, <2>1
    <3>2. known # None /\ i = known
      BY <1>2, <3>1 DEF OneActive, known
    <3> QED
      BY <2>1, <3>2
  <2>2. k # None
    <3>1. k \in Nat
      BY <1>6
    <3> QED
      BY <3>1, TextAssumption
  <2> QED
    BY <1>6, <2>1, <2>2 DEF OneActive
<1>11. ASSUME new.stream.current # None
       PROVE  LastOf(new.passages, "assistant", new.stream.current, turnsBegun)
  <2>1. LastOf(Here.passages, "assistant", Here.stream.current, turnsBegun)
    BY <1>2, <1>6, <1>11
  <2>2. k \in 1..Len(Here.passages) => Here.passages[k].kind = "thinking"
    <3>1. CASE known = None
      <4>1. Len(Here.passages) \in Nat /\ k = Len(Here.passages) + 1
        BY <1>1, <3>1, ScreenFacts
      <4> QED
        BY <4>1
    <3>2. CASE known # None
      BY <1>2, <3>2 DEF LastOf, Shows
    <3> QED
      BY <3>1, <3>2
  <2>3. new.passages \in Seq(Passage)
    BY <1>6, ScreenFacts
  <2> DEFINE text == TextAt(Here, known) \o x
             b == Here.passages
             c == new.passages
             m == Here.stream.current
  <2>4. /\ b \in Seq(Passage) /\ c \in Seq(Passage) /\ Wrote(b, c, k, "thinking", text)
        /\ k \in 1..Len(b) => b[k].kind = "thinking"
        /\ LastOf(b, "assistant", m, turnsBegun)
    BY <1>1, <1>6, <2>1, <2>2, <2>3
  <2> HIDE DEF text, b, c, m, k
  <2>5. "assistant" # "thinking"
    OBVIOUS
  <2>6. LastOf(c, "assistant", m, turnsBegun)
    BY <2>4, <2>5, LastKept
  <2> QED
    BY <1>6, <2>6 DEF c, m
<1>12. new.stream.text = SaidText(now, "assistant")
  BY <1>2, <1>3, <1>6
<1>13. PlainInv(new, now, turnsBegun)
  BY <1>2, <1>3, <1>6, <1>7, <1>9, <1>10, <1>11, <1>12 DEF PlainInv
<1>14. Fresh(told', tokens') /\ tokens' \in Nat /\ PlainInv(new, told', turnsBegun)
  BY <1>0, <1>1, <1>3, <1>13
<1> QED
  BY <1>0, <1>8, <1>14, PlainStep

\* A turn of plain deltas, on a screen that looks the same.
LEMMA PlainLooks ==
  ASSUME NEW at, NEW new \in Screens, NEW turn, NEW said \in Seq(Entry),
         Standing(at, turn), PlainInv(at, said, turn), LookAlike(at.passages, new.passages),
         new.stream.part = None, new.thinking.part = None,
         new.stream.current = None \/ new.stream.current = at.stream.current,
         new.thinking.current = None \/ new.thinking.current = at.thinking.current,
         OneActive(new), new.stream.text = at.stream.text
  PROVE  Standing(new, turn) /\ PlainInv(new, said, turn)
<1> DEFINE b == at.passages
           c == new.passages
<1>1. /\ b \in Seq(Passage) /\ c \in Seq(Passage) /\ LookAlike(b, c)
      /\ StandsWell(at) /\ \A i \in 1..Len(b) : b[i].turn <= turn
  BY ScreenFacts DEF Standing
<1>2. \A kind : View(c, kind, turn) = View(b, kind, turn)
  <2> SUFFICES ASSUME NEW kind PROVE View(c, kind, turn) = View(b, kind, turn)
    OBVIOUS
  <2> HIDE DEF b, c
  <2> QED
    BY <1>1, ViewAlike
<1>3. \A kind, k : LastOf(b, kind, k, turn) => LastOf(c, kind, k, turn)
  <2> HIDE DEF b, c
  <2> QED
    BY <1>1 DEF LookAlike, LastOf, Shows
<1>4. Standing(new, turn)
  <2>1. Len(c) = Len(b) /\ \A i \in 1..Len(c) : c[i].turn <= turn
    <3> HIDE DEF b, c
    <3> QED
      BY <1>1 DEF LookAlike
  <2>2. StandsWell(new)
    BY <1>1, <2>1 DEF StandsWell
  <2> QED
    BY <2>1, <2>2 DEF Standing
<1>5. PlainInv(new, said, turn)
  <2>1. new.stream.current # None => LastOf(c, "assistant", new.stream.current, turn)
    BY <1>3 DEF PlainInv
  <2>2. new.thinking.current # None => LastOf(c, "thinking", new.thinking.current, turn)
    BY <1>3 DEF PlainInv
  <2>3. SaysIt(new, said, turn)
    BY <1>2 DEF PlainInv, SaysIt
  <2> QED
    BY <2>1, <2>2, <2>3 DEF PlainInv
<1> QED
  BY <1>4, <1>5

\* A thought ends,
LEMMA ThoughtEndsKeeps ==
  ASSUME SaidInv, ThoughtEnds
  PROVE  SaidInv'
<1> DEFINE k == Here.thinking.current
           new == SettleThinking(Here, k)
<1>0. /\ talk = "on" /\ protocol = "plain" /\ told' = told /\ tokens' = tokens
      /\ protocol' = protocol /\ talk' = talk /\ turnsBegun' = turnsBegun /\ revised' = revised
  BY DEF ThoughtEnds
<1>1. /\ turnsBegun \in Nat /\ tokens \in Nat
      /\ Standing(Here, turnsBegun) /\ Fresh(told, tokens) /\ told \in Seq(Entry)
      /\ Here \in Screens /\ PlainInv(Here, told, turnsBegun)
      /\ k # None => k \in 1..Len(Here.passages)
  BY <1>0, InPlain
<1>2. Move(new)
  <2>1. k = thinking.current
    BY DEF Here, Screen
  <2> QED
    BY <2>1 DEF ThoughtEnds
<1>3. /\ new \in Screens /\ new.stream = Here.stream /\ new.thinking = Here.thinking
      /\ LookAlike(Here.passages, new.passages)
      /\ \A i \in 1..Len(Here.passages) :
           new.passages[i].done <=> Here.passages[i].done \/ (k # None /\ i = k)
  <2> HIDE DEF k
  <2> QED
    BY <1>1, ThinkingSettled
<1> HIDE DEF new
<1>4. OneActive(new)
  BY <1>1, <1>3 DEF OneActive, PlainInv, LookAlike
<1>5. new.stream.part = None /\ new.thinking.part = None
  BY <1>1, <1>3 DEF PlainInv
<1>6. Standing(new, turnsBegun) /\ PlainInv(new, told, turnsBegun)
  BY <1>1, <1>3, <1>4, <1>5, PlainLooks
<1> QED
  BY <1>0, <1>1, <1>2, <1>6, PlainStep

\* Nothing is said by a tool.
LEMMA ToolSaid ==
  ASSUME NEW n \in Nat, NEW said, Fresh(said, n), NoParts(said)
  PROVE  LET now == Append(said, Said("tool", None, <<>>))
         IN  /\ Fresh(now, n) /\ NoParts(now) /\ now \in Seq(Entry)
             /\ \A kind \in Speech : SaidText(now, kind) = SaidText(said, kind)
<1> DEFINE e == Said("tool", None, <<>>)
           now == Append(said, e)
<1>1. /\ said \in Seq(Entry) /\ Len(said) \in Nat
      /\ \A i \in 1..Len(said) : said[i].part = None /\ said[i].text \in Seq(1..n)
  BY LenProperties DEF Fresh, NoParts
<1>2. e \in Entry /\ e.kind = "tool" /\ e.part = None /\ e.text = <<>> /\ e.text \in Seq(1..n)
  BY EmptySeq DEF Said, Entry, Words
<1> HIDE DEF e
<1>3. /\ now \in Seq(Entry) /\ Len(now) = Len(said) + 1 /\ now[Len(said) + 1] = e
      /\ \A i \in 1..Len(said) : now[i] = said[i]
  BY <1>1, <1>2, AppendProperties
<1>4. \A i \in 1..Len(now) : i \in 1..Len(said) \/ i = Len(said) + 1
  BY <1>1, <1>3
<1>5. \A i \in 1..Len(now) : now[i].part = None /\ now[i].text \in Seq(1..n)
  BY <1>1, <1>2, <1>3, <1>4
<1>6. ASSUME NEW kind \in Speech PROVE SaidText(now, kind) = SaidText(said, kind)
  <2>1. SaidText(now, kind) = SaidText(said, kind) \o (IF e.kind = kind THEN e.text ELSE <<>>)
    BY <1>1, <1>2, SaidAppended
  <2>2. e.kind # kind
    BY <1>2 DEF Speech
  <2>3. SaidText(said, kind) \o <<>> = SaidText(said, kind)
    BY <1>1, SaidFacts, ConcatEmptySeq DEF Words
  <2> QED
    BY <2>1, <2>2, <2>3
<1> QED
  BY <1>3, <1>5, <1>6 DEF Fresh, NoParts, now, e

\* or a tool is called, in a turn of parts too.
LEMMA ToolCalledKeeps ==
  ASSUME SaidInv, ToolCalled
  PROVE  SaidInv'
<1> DEFINE new == FinishText(Here)
<1>0. /\ talk = "on" /\ Move(new) /\ tokens' = tokens
      /\ told' = IF protocol = "parts" \/ told = <<>> \/ Last(told).kind = "tool" THEN told
                 ELSE Append(told, Said("tool", None, <<>>))
      /\ protocol' = protocol /\ talk' = talk /\ turnsBegun' = turnsBegun /\ revised' = revised
  BY DEF ToolCalled, FinishText
<1>1. /\ turnsBegun \in Nat /\ tokens \in Nat /\ revised \in BOOLEAN /\ protocol \in {"plain", "parts"}
      /\ Standing(Here, turnsBegun) /\ Fresh(told, tokens) /\ told \in Seq(Entry) /\ Here \in Screens
  BY DEF SaidInv, Standing, Fresh
<1>2. /\ Standing(new, turnsBegun) /\ LookAlike(Here.passages, new.passages)
      /\ OneActive(Here) => ThoughtsDone(new.passages)
      /\ new.stream.current = None /\ new.stream.part = None
      /\ new.stream.text = Here.stream.text /\ new.stream.segments = Here.stream.segments
      /\ new.thinking.current = None /\ new.thinking.part = None
      /\ new.thinking.views = Here.thinking.views
  BY <1>1, Finished
<1> HIDE DEF new
<1>3. new \in Screens
  BY <1>2 DEF Standing
<1>4. CASE protocol = "parts"
  <2>1. PartsInv(Here, told, turnsBegun, revised)
    BY <1>0, <1>4 DEF SaidInv
  <2>2. Aligned(new, told, turnsBegun)
    BY <1>1, <1>2, <1>3, <2>1, AlignedAlike DEF PartsInv
  <2>3. PartsInv(new, told', turnsBegun, revised')
    BY <1>0, <1>2, <1>4, <2>1, <2>2 DEF PartsInv
  <2> QED
    BY <1>0, <1>1, <1>2, <1>4, <2>3, PartsStep
<1>5. CASE protocol = "plain"
  <2>1. PlainInv(Here, told, turnsBegun)
    BY <1>0, <1>5 DEF SaidInv
  <2>2. OneActive(new)
    BY <1>2, <2>1 DEF PlainInv, OneActive, ThoughtsDone
  <2>3. PlainInv(new, told, turnsBegun)
    BY <1>1, <1>2, <1>3, <2>1, <2>2, PlainLooks
  <2>4. PlainInv(new, told', turnsBegun) /\ Fresh(told', tokens)
    <3>1. CASE told' = told
      BY <1>1, <2>3, <3>1
    <3>2. CASE told' = Append(told, Said("tool", None, <<>>))
      <4> DEFINE now == Append(told, Said("tool", None, <<>>))
      <4>1. NoParts(told)
        BY <2>1 DEF PlainInv
      <4>2. /\ Fresh(now, tokens) /\ NoParts(now)
            /\ \A kind \in Speech : SaidText(now, kind) = SaidText(told, kind)
        BY <1>1, <4>1, ToolSaid
      <4> HIDE DEF now
      <4>3. SaysIt(new, now, turnsBegun) /\ new.stream.text = SaidText(now, "assistant")
        BY <2>3, <4>2 DEF PlainInv, SaysIt, Speech
      <4>4. PlainInv(new, now, turnsBegun)
        BY <2>3, <4>2, <4>3 DEF PlainInv
      <4> QED
        BY <3>2, <4>2, <4>4 DEF now
    <3> QED
      BY <1>0, <3>1, <3>2
  <2> QED
    BY <1>0, <1>1, <1>2, <1>5, <2>4, PlainStep
<1> QED
  BY <1>1, <1>4, <1>5

-----------------------------------------------------------------------------
(* The end of a turn, and the next one. *)

\* What the screen shows after a step, once the turn is over.
LEMMA ShownAfter ==
  ASSUME NEW new \in Screens, Move(new),
         ~revised' => View(new.passages, "assistant", turnsBegun') = SaidText(told', "assistant"),
         View(new.passages, "thinking", turnsBegun') = SaidText(told', "thinking"),
         protocol' = "plain" => ThoughtsDone(new.passages), talk' = "answered"
  PROVE  SaidIsShownOnce'
<1>1. passages' = new.passages /\ DOMAIN new.passages = 1..Len(new.passages)
  BY ScreenFacts DEF Move
<1>2. ~revised' => OnView("assistant")' = TextOf("assistant")'
  BY <1>1 DEF OnView, TextOf, View, SaidText
<1>3. OnView("thinking")' = TextOf("thinking")'
  BY <1>1 DEF OnView, TextOf, View, SaidText
<1>4. protocol' = "plain" =>
        \A i \in DOMAIN passages' : passages'[i].kind = "thinking" => passages'[i].done
  BY <1>1 DEF ThoughtsDone
<1> QED
  BY <1>2, <1>3, <1>4 DEF SaidIsShownOnce

\* What holds in a turn of either kind.
LEMMA InTurn ==
  ASSUME SaidInv, talk = "on"
  PROVE  /\ turnsBegun \in Nat /\ tokens \in Nat /\ FreshText \in Nat /\ FreshText = tokens + 1
         /\ protocol \in {"plain", "parts"} /\ revised \in BOOLEAN
         /\ Here \in Screens /\ Ready(Here) /\ Fresh(told, tokens) /\ told \in Seq(Entry)
         /\ SaysIt(Here, told, turnsBegun) /\ Here.stream.text \in Words
         /\ ~revised => Here.stream.text = SaidText(told, "assistant")
         /\ protocol = "plain" => OneActive(Here)
<1>1. /\ turnsBegun \in Nat /\ tokens \in Nat /\ revised \in BOOLEAN
      /\ protocol \in {"plain", "parts"}
      /\ Standing(Here, turnsBegun) /\ Fresh(told, tokens)
  BY DEF SaidInv
<1>2. FreshText \in Nat /\ FreshText = tokens + 1
  BY <1>1 DEF FreshText
<1>3. Here \in Screens /\ told \in Seq(Entry)
  BY <1>1 DEF Standing, Fresh
<1>4. Here.stream.text \in Words
  BY <1>3, ScreenFacts
<1>5. CASE protocol = "plain"
  <2>1. PlainInv(Here, told, turnsBegun)
    BY <1>5 DEF SaidInv
  <2>2. Ready(Here) /\ SaysIt(Here, told, turnsBegun) /\ OneActive(Here)
        /\ Here.stream.text = SaidText(told, "assistant")
    BY <1>1, <2>1 DEF PlainInv, Ready
  <2> QED
    BY <1>1, <1>2, <1>3, <1>4, <2>2
<1>6. CASE protocol = "parts"
  <2>1. PartsInv(Here, told, turnsBegun, revised)
    BY <1>6 DEF SaidInv
  <2>2. Ready(Here)
    BY <1>1, <2>1 DEF PartsInv, Ready
  <2>3. SaysIt(Here, told, turnsBegun)
    BY <1>3, <2>1, AlignedShows DEF PartsInv, SaysIt
  <2>4. ~revised => Here.stream.text = SaidText(told, "assistant")
    BY <2>1 DEF PartsInv
  <2> QED
    BY <1>1, <1>2, <1>3, <1>4, <1>6, <2>2, <2>3, <2>4
<1> QED
  BY <1>1, <1>5, <1>6

\* A result that says nothing new, in text and in thoughts.
LEMMA NothingNew ==
  ASSUME SaidInv, talk = "on", NEW response \in Words, Move(Answered(Here, response)),
         response = <<>> \/ (~revised => EndsWith(Here.stream.text, response)),
         told' = told, tokens' = tokens, revised' = revised,
         protocol' = protocol, talk' = "answered", turnsBegun' = turnsBegun
  PROVE  SaidInv'
<1> DEFINE new == Answered(Here, response)
<1>1. /\ turnsBegun \in Nat /\ tokens \in Nat /\ protocol \in {"plain", "parts"} /\ revised \in BOOLEAN
      /\ Ready(Here) /\ Fresh(told, tokens) /\ SaysIt(Here, told, turnsBegun)
      /\ protocol = "plain" => OneActive(Here)
  BY InTurn
<1>2. /\ Standing(new, turnsBegun)
      /\ View(new.passages, "thinking", turnsBegun) = View(Here.passages, "thinking", turnsBegun)
      /\ OneActive(Here) => ThoughtsDone(new.passages)
      /\ response = <<>> \/ EndsWith(Here.stream.text, response) =>
           View(new.passages, "assistant", turnsBegun) = View(Here.passages, "assistant", turnsBegun)
  BY <1>1, AnsweredFacts
<1> HIDE DEF new
<1>3. new \in Screens /\ Move(new)
  BY <1>2 DEF Standing, new
<1>4. Here' = new
  BY <1>3, MoveIs DEF Move
<1>5. View(new.passages, "thinking", turnsBegun) = SaidText(told, "thinking")
  BY <1>1, <1>2 DEF SaysIt, Speech
<1>6. ~revised => View(new.passages, "assistant", turnsBegun) = SaidText(told, "assistant")
  BY <1>1, <1>2 DEF SaysIt, Speech
<1>7. SaidIsShownOnce'
  BY <1>1, <1>2, <1>3, <1>5, <1>6, ShownAfter
<1>8. Standing(Here', turnsBegun') /\ Fresh(told', tokens')
  BY <1>1, <1>2, <1>4
<1> QED
  BY <1>1, <1>7, <1>8 DEF SaidInv

\* A result with a text that was not streamed.
LEMMA SomethingNew ==
  ASSUME SaidInv, talk = "on", NEW response \in Words, Move(Answered(Here, response)),
         response # <<>>, ~revised => NewEnd(Here, response, FreshText),
         told' = Append(told, Said("assistant", None, <<FreshText>>)), tokens' = FreshText,
         revised' = revised, protocol' = protocol, talk' = "answered", turnsBegun' = turnsBegun
  PROVE  SaidInv'
<1> DEFINE new == Answered(Here, response)
           x == <<FreshText>>
           e == Said("assistant", None, x)
           now == Append(told, e)
<1>1. /\ turnsBegun \in Nat /\ tokens \in Nat /\ protocol \in {"plain", "parts"} /\ revised \in BOOLEAN
      /\ Ready(Here) /\ Fresh(told, tokens) /\ SaysIt(Here, told, turnsBegun) /\ told \in Seq(Entry)
      /\ protocol = "plain" => OneActive(Here)
      /\ FreshText \in Nat /\ FreshText = tokens + 1
  BY InTurn
<1>2. /\ Standing(new, turnsBegun)
      /\ View(new.passages, "thinking", turnsBegun) = View(Here.passages, "thinking", turnsBegun)
      /\ OneActive(Here) => ThoughtsDone(new.passages)
      /\ \A f \in Nat : response # <<>> /\ NewEnd(Here, response, f) =>
           View(new.passages, "assistant", turnsBegun)
             = View(Here.passages, "assistant", turnsBegun) \o <<f>>
  BY <1>1, AnsweredFacts
<1> HIDE DEF new
<1>3. ~revised => View(new.passages, "assistant", turnsBegun)
                    = View(Here.passages, "assistant", turnsBegun) \o x
  BY <1>1, <1>2
<1>4. x \in Words /\ x \in Seq(1..FreshText)
  <2>1. FreshText \in 1..FreshText
    BY <1>1
  <2> QED
    BY <1>1, <2>1, OneWord
<1> HIDE DEF x
<1>5. e \in Entry /\ e.kind = "assistant" /\ e.text = x
  BY <1>4 DEF Said, Entry
<1> HIDE DEF e
<1>6. /\ now \in Seq(Entry) /\ Len(now) = Len(told) + 1 /\ now[Len(told) + 1] = e
      /\ \A i \in 1..Len(told) : now[i] = told[i]
  BY <1>1, <1>5, AppendProperties
<1>7. /\ SaidText(now, "assistant") = SaidText(told, "assistant") \o x
      /\ SaidText(now, "thinking") = SaidText(told, "thinking")
  <2>1. \A kind : SaidText(now, kind) = SaidText(told, kind) \o (IF e.kind = kind THEN e.text ELSE <<>>)
    BY <1>1, <1>5, SaidAppended
  <2>2. SaidText(told, "thinking") \o <<>> = SaidText(told, "thinking")
    BY <1>1, SaidFacts, ConcatEmptySeq DEF Words
  <2> QED
    BY <1>5, <2>1, <2>2
<1>8. Fresh(now, FreshText)
  <2>1. Len(told) \in Nat
    BY <1>1, LenProperties
  <2> HIDE DEF now
  <2>2. \A i \in 1..Len(now) : i \in 1..Len(told) \/ i = Len(told) + 1
    BY <1>6, <2>1
  <2>3. \A i \in 1..Len(now) :
          now[i].text \in Seq(1..FreshText) \/ \E j \in 1..Len(told) : now[i] = told[j]
    BY <1>4, <1>5, <1>6, <2>2
  <2>4. tokens <= FreshText
    BY <1>1
  <2> QED
    BY <1>1, <1>6, <2>3, <2>4, FreshFrom
<1>9. told' = now /\ Move(new)
  BY DEF e, x, new
<1> HIDE DEF now
<1>10. new \in Screens
  BY <1>2 DEF Standing
<1>11. Here' = new
  BY <1>9, <1>10, MoveIs DEF Move
<1>12. View(new.passages, "thinking", turnsBegun) = SaidText(now, "thinking")
  BY <1>1, <1>2, <1>7 DEF SaysIt, Speech
<1>13. ~revised => View(new.passages, "assistant", turnsBegun) = SaidText(now, "assistant")
  BY <1>1, <1>3, <1>7 DEF SaysIt, Speech
<1>14. SaidIsShownOnce'
  BY <1>1, <1>2, <1>9, <1>10, <1>12, <1>13, ShownAfter
<1>15. Standing(Here', turnsBegun') /\ Fresh(told', tokens')
  BY <1>2, <1>8, <1>9, <1>11
<1> QED
  BY <1>1, <1>14, <1>15 DEF SaidInv

\* The turn ends with its result.
LEMMA TurnEndsKeeps ==
  ASSUME SaidInv, TurnEnds
  PROVE  SaidInv'
<1> DEFINE all == TextOf("assistant")
           x == <<FreshText>>
<1>0. /\ talk = "on" /\ talk' = "answered"
      /\ protocol' = protocol /\ turnsBegun' = turnsBegun /\ revised' = revised
  BY DEF TurnEnds
<1>1. /\ tokens \in Nat /\ FreshText \in Nat /\ FreshText = tokens + 1 /\ Fresh(told, tokens)
      /\ told \in Seq(Entry) /\ Here.stream.text \in Words
      /\ ~revised => Here.stream.text = SaidText(told, "assistant")
  BY <1>0, InTurn
<1>2. all = SaidText(told, "assistant") /\ all \in Words /\ all \in Seq(1..tokens)
  <2>1. all = SaidText(told, "assistant")
    BY DEF TextOf, SaidText
  <2>2. SaidText(told, "assistant") \in Words
    BY <1>1, SaidFacts
  <2>3. SaidText(told, "assistant") \in Seq(1..tokens)
    BY <1>1, FreshText0
  <2> QED
    BY <2>1, <2>2, <2>3
<1> HIDE DEF all
<1>3. \A response : FinishText(IF response = <<>> THEN Here
                               ELSE ReconcileText(CompleteThinking(Here), response))
                      = Answered(Here, response)
  BY DEF Answered
<1>4. ASSUME tokens' = tokens, NEW response \in Words, ResultIs(response, <<>>),
             response = <<>> \/ (~revised => EndsWith(Here.stream.text, response))
      PROVE  SaidInv'
  <2>1. Move(Answered(Here, response)) /\ told' = told
    BY <1>3, <1>4 DEF ResultIs
  <2> QED
    BY <1>0, <1>4, <2>1, NothingNew
<1>5. ASSUME tokens' = FreshText, NEW response \in Words, ResultIs(response, x), response # <<>>,
             ~revised => NewEnd(Here, response, FreshText)
      PROVE  SaidInv'
  <2>1. x # <<>>
    BY <1>1, OneWord
  <2>2. Move(Answered(Here, response)) /\ told' = Append(told, Said("assistant", None, x))
    BY <1>3, <1>5, <2>1 DEF ResultIs
  <2> QED
    BY <1>0, <1>5, <2>2, SomethingNew
<1>6. x \in Words /\ Len(x) = 1 /\ x # <<>>
  BY <1>1, OneWord
<1>7. CASE tokens' = tokens /\ ResultIs(<<>>, <<>>)
  <2>1. <<>> \in Words
    BY EmptySeq DEF Words
  <2> QED
    BY <1>4, <1>7, <2>1
<1>8. CASE tokens' = tokens /\ ResultIs(all, <<>>)
  <2>1. <<>> \in Words
    BY EmptySeq DEF Words
  <2>2. EndsWith(<<>> \o all, all) /\ <<>> \o all = all
    BY <1>2, <2>1, CutEnds, ConcatEmptySeq DEF Words
  <2>3. ~revised => EndsWith(Here.stream.text, all)
    BY <1>1, <1>2, <2>2
  <2> QED
    BY <1>2, <1>4, <1>8, <2>3
<1>9. CASE tokens' = tokens /\ ResultIs(LastMessage, <<>>)
  <2>1. LastMessage \in Words /\ \E front \in Words : SaidText(told, "assistant") = front \o LastMessage
    BY <1>1, LastMessageEnds
  <2>2. PICK front \in Words : SaidText(told, "assistant") = front \o LastMessage
    BY <2>1
  <2>3. EndsWith(front \o LastMessage, LastMessage)
    BY <2>1, <2>2, CutEnds
  <2>4. ~revised => EndsWith(Here.stream.text, LastMessage)
    BY <1>1, <2>2, <2>3
  <2> QED
    BY <1>4, <1>9, <2>1, <2>4
<1>10. CASE tokens' = FreshText /\ ResultIs(Append(all, FreshText), x)
  <2> DEFINE response == Append(all, FreshText)
  <2>1. response = all \o x
    BY <1>1, <1>2, AppendIsConcat DEF Words
  <2>2. /\ all \o x \in Words /\ Len(all \o x) = Len(all) + Len(x) /\ Len(all) \in Nat
    BY <1>2, <1>6, WordsCut
  <2>3. response \in Words /\ response # <<>>
    BY <1>6, <2>1, <2>2
  <2>4. ~revised => NewEnd(Here, response, FreshText)
    BY <1>1, <1>2, <2>1 DEF NewEnd
  <2> HIDE DEF response
  <2>5. ResultIs(response, x)
    BY <1>10 DEF response
  <2> QED
    BY <1>5, <1>10, <2>3, <2>4, <2>5
<1>11. CASE tokens' = FreshText /\ ResultIs(x, x)
  <2>1. ~revised => NewEnd(Here, x, FreshText)
    <3>1. tokens < FreshText
      BY <1>1
    <3> QED
      BY <1>1, <1>2, <3>1 DEF NewEnd
  <2> QED
    BY <1>5, <1>6, <1>11, <2>1
<1> QED
  BY <1>7, <1>8, <1>9, <1>10, <1>11 DEF TurnEnds, all

\* A new turn, on the screen of the turns before.
LEMMA TurnOpensKeeps ==
  ASSUME SaidInv, TurnOpens
  PROVE  SaidInv'
<1> DEFINE old == CompleteThinking(Here)
           b == old.passages
           new == Screen(b, EmptyStream, NoThinking)
           turn == turnsBegun + 1
<1>0. /\ talk # "on" /\ talk' = "on" /\ turnsBegun' = turn /\ tokens' = tokens
      /\ passages' = b /\ stream' = EmptyStream /\ thinking' = NoThinking
      /\ told' = <<>> /\ revised' = FALSE /\ protocol' = protocol
  BY DEF TurnOpens
<1>1. /\ turnsBegun \in Nat /\ tokens \in Nat /\ protocol \in {"plain", "parts"}
      /\ Standing(Here, turnsBegun) /\ SaidIsShownOnce /\ turn \in Nat
  BY <1>0 DEF SaidInv
<1>2. /\ Here \in Screens /\ StandsWell(Here) /\ Len(Here.passages) \in Nat
      /\ \A i \in 1..Len(Here.passages) : Here.passages[i].turn <= turnsBegun
      /\ Here.passages = passages /\ DOMAIN passages = 1..Len(passages)
  BY <1>1, ScreenFacts DEF Standing, Here, Screen
<1>3. /\ old \in Screens /\ LookAlike(Here.passages, b)
      /\ \A i \in 1..Len(Here.passages) : Here.passages[i].done => b[i].done
  BY <1>2, Completed DEF StandsWell
<1>4. b \in Seq(Passage)
  BY <1>3, ScreenFacts
<1> HIDE DEF old
<1>5. EmptyStream \in Streams /\ NoThinking \in Thoughts
  BY EmptySeq DEF EmptyStream, NoSegments, NoThinking, Streams, Thoughts, Segment, MaybeBlock, Words
<1>6. /\ new \in Screens /\ new.passages = b /\ new.stream = EmptyStream /\ new.thinking = NoThinking
  BY <1>4, <1>5, ScreenOf
<1> HIDE DEF b, new
<1>7. Len(b) = Len(passages) /\ \A i \in 1..Len(b) : b[i].turn <= turnsBegun
  BY <1>2, <1>3 DEF LookAlike
<1>8. \A i \in 1..Len(b) : b[i].turn <= turn /\ b[i].turn # turn
  <2>0. \A i \in 1..Len(b) : b[i] \in Passage
    BY <1>4, ElementOfSeq
  <2>1. \A i \in 1..Len(b) : b[i].turn \in Nat
    BY <2>0 DEF Passage
  <2> QED
    BY <1>1, <1>7, <2>1
<1>9. /\ new.stream.current = None /\ new.stream.part = None /\ new.stream.text = <<>>
      /\ new.thinking.current = None /\ new.thinking.part = None
  BY <1>6 DEF EmptyStream, NoThinking
<1>10. Standing(new, turn)
  BY <1>6, <1>8, <1>9 DEF Standing, StandsWell
<1>11. Fresh(<<>>, tokens)
  BY EmptySeq DEF Fresh
<1> HIDE DEF turn
<1>12. \A kind : View(b, kind, turn) = <<>> /\ SaidText(<<>>, kind) = <<>>
  BY <1>4, <1>8, ViewOfNewTurn, ViewOfNothing
<1>13. ASSUME protocol = "plain" PROVE PlainInv(new, <<>>, turn)
  <2>1. ThoughtsDone(b)
    <3>1. \A i \in 1..Len(passages) : passages[i].kind = "thinking" => passages[i].done
      BY <1>0, <1>1, <1>2, <1>13 DEF SaidIsShownOnce
    <3> QED
      BY <1>2, <1>3, <3>1 DEF ThoughtsDone, LookAlike
  <2>2. PlainInv(new, <<>>, turn)
    <3>1. NoParts(<<>>) /\ OneActive(new) /\ SaysIt(new, <<>>, turn)
      BY <1>6, <1>12, <2>1 DEF NoParts, OneActive, ThoughtsDone, SaysIt
    <3> QED
      BY <1>9, <1>12, <3>1 DEF PlainInv
  <2> QED
    BY <2>2
<1>14. PartsInv(new, <<>>, turn, FALSE)
  <2>1. \A p \in AnyPart : BlockOf(new, p) = None
    BY <1>6 DEF BlockOf, EmptyStream, NoSegments, NoThinking, AnyPart
  <2>2. \A k \in 1..Len(new.passages) : new.passages[k].turn # turn
    BY <1>6, <1>8
  <2>3. Aligned(new, <<>>, turn)
    BY <2>1, <2>2 DEF Aligned
  <2>4. PartsInv(new, <<>>, turn, FALSE)
    BY <1>9, <1>12, <2>3 DEF PartsInv
  <2> QED
    BY <2>4
<1>15. Here' = new
  BY <1>0, <1>6, MoveIs
<1>16. /\ Standing(Here', turnsBegun') /\ Fresh(told', tokens') /\ turnsBegun' \in Nat
       /\ protocol' = "plain" => PlainInv(Here', told', turnsBegun')
       /\ protocol' = "parts" => PartsInv(Here', told', turnsBegun', revised')
  BY <1>0, <1>1, <1>10, <1>11, <1>13, <1>14, <1>15
<1> QED
  BY <1>0, <1>1, <1>16 DEF SaidInv

-----------------------------------------------------------------------------
(* Another session is opened. *)

\* What was said, of three entries.
LEMMA ThreeSaid ==
  ASSUME NEW a \in Entry, NEW b \in Entry, NEW c \in Entry, a.kind = "thinking",
         b.kind = "assistant", c.kind = "assistant"
  PROVE  /\ <<a, b, c>> \in Seq(Entry)
         /\ SaidText(<<a, b, c>>, "thinking") = a.text
         /\ SaidText(<<a, b, c>>, "assistant") = b.text \o c.text
<1> DEFINE s1 == Append(<<>>, a)
           s2 == Append(s1, b)
           s3 == Append(s2, c)
<1>1. s3 = <<a, b, c>>
  <2> DEFINE t == <<a, b, c>>
             e == <<>>
  <2>1. e \in Seq(Entry) /\ Len(e) = 0
    BY EmptySeq
  <2> HIDE DEF e
  <2>2. LET r == Append(e, a) IN r \in Seq(Entry) /\ Len(r) = 1 /\ r[1] = a
    BY <2>1, AppendProperties
  <2>3. s1 \in Seq(Entry) /\ Len(s1) = 1 /\ s1[1] = a
    BY <2>2 DEF e
  <2> HIDE DEF s1
  <2>4. s2 \in Seq(Entry) /\ Len(s2) = 2 /\ s2[1] = a /\ s2[2] = b
    <3>0. s1 \in Seq(Entry)
      BY <2>3
    <3>1. /\ s2 \in Seq(Entry) /\ Len(s2) = Len(s1) + 1
          /\ \A i \in 1..Len(s1) : s2[i] = s1[i]
          /\ s2[Len(s1) + 1] = b
      BY <3>0, AppendProperties
    <3> HIDE DEF s2
    <3> QED
      BY <2>3, <3>1
  <2> HIDE DEF s2
  <2>5. s3 \in Seq(Entry) /\ Len(s3) = 3 /\ s3[1] = a /\ s3[2] = b /\ s3[3] = c
    <3>0. s2 \in Seq(Entry)
      BY <2>4
    <3>1. /\ s3 \in Seq(Entry) /\ Len(s3) = Len(s2) + 1
          /\ \A i \in 1..Len(s2) : s3[i] = s2[i]
          /\ s3[Len(s2) + 1] = c
      BY <3>0, AppendProperties
    <3> HIDE DEF s3
    <3> QED
      BY <2>4, <3>1
  <2> HIDE DEF s3
  <2>6. t \in Seq(Entry) /\ Len(t) = 3 /\ t[1] = a /\ t[2] = b /\ t[3] = c
    OBVIOUS
  <2> HIDE DEF t
  <2>7. \A i \in 1..3 : s3[i] = t[i]
    <3>1. \A i \in 1..3 : i = 1 \/ i = 2 \/ i = 3
      OBVIOUS
    <3> QED
      BY <2>5, <2>6, <3>1
  <2> QED
    BY <2>5, <2>6, <2>7, SeqEqual DEF t
<1>2. <<>> \in Seq(Entry) /\ \A kind : SaidText(<<>>, kind) = <<>>
  BY EmptySeq, ViewOfNothing
<1>3. /\ s1 \in Seq(Entry)
      /\ \A kind : SaidText(s1, kind) = SaidText(<<>>, kind) \o (IF a.kind = kind THEN a.text ELSE <<>>)
  <2> DEFINE s0 == <<>>
  <2>1. s0 \in Seq(Entry)
    BY <1>2
  <2> HIDE DEF s0
  <2>2. /\ Append(s0, a) \in Seq(Entry)
        /\ \A kind : SaidText(Append(s0, a), kind)
                       = SaidText(s0, kind) \o (IF a.kind = kind THEN a.text ELSE <<>>)
    BY <2>1, SaidAppended
  <2> QED
    BY <2>2 DEF s0
<1> HIDE DEF s1
<1>4. /\ s2 \in Seq(Entry)
      /\ \A kind : SaidText(s2, kind) = SaidText(s1, kind) \o (IF b.kind = kind THEN b.text ELSE <<>>)
  <2>1. s1 \in Seq(Entry)
    BY <1>3
  <2> QED
    BY <2>1, SaidAppended
<1> HIDE DEF s2
<1>5. /\ s3 \in Seq(Entry)
      /\ \A kind : SaidText(s3, kind) = SaidText(s2, kind) \o (IF c.kind = kind THEN c.text ELSE <<>>)
  <2>1. s2 \in Seq(Entry)
    BY <1>4
  <2> QED
    BY <2>1, SaidAppended
<1> HIDE DEF s3
<1>6. a.text \in Words /\ b.text \in Words /\ c.text \in Words /\ <<>> \in Words
  BY EmptySeq DEF Entry, Words
<1>7. \A w \in Words : w \o <<>> = w /\ <<>> \o w = w
  BY ConcatEmptySeq DEF Words
<1>8. SaidText(s3, "thinking") = a.text
  <2>1. SaidText(s1, "thinking") = a.text
    BY <1>2, <1>3, <1>6, <1>7
  <2>2. SaidText(s2, "thinking") = a.text
    BY <1>4, <1>6, <1>7, <2>1
  <2> QED
    BY <1>5, <1>6, <1>7, <2>2
<1>9. SaidText(s3, "assistant") = b.text \o c.text
  <2>1. SaidText(s1, "assistant") = <<>>
    BY <1>2, <1>3, <1>6, <1>7
  <2>2. SaidText(s2, "assistant") = b.text
    BY <1>4, <1>6, <1>7, <2>1
  <2> QED
    BY <1>5, <1>6, <1>7, <2>2
<1> QED
  BY <1>1, <1>5, <1>8, <1>9

\* A thought alone on the screen, which is over.
OneThought(at, x) ==
  /\ Standing(at, turnsBegun) /\ at.stream = EmptyStream /\ at.thinking.current = None
  /\ Len(at.passages) = 1 /\ ThoughtsDone(at.passages)
  /\ View(at.passages, "thinking", turnsBegun) = x
  /\ View(at.passages, "assistant", turnsBegun) = <<>>

\* The thought of a restored session.
LEMMA ThoughtRestored ==
  ASSUME NEW empty \in Screens, empty.passages = <<>>, empty.stream = EmptyStream,
         empty.thinking.part = None, \A q \in ThoughtPart : empty.thinking.views[q] = None,
         turnsBegun \in Nat, NEW t \in ThoughtPart, NEW x \in Words
  PROVE  OneThought(CompleteThinking(UpsertThought(empty, t, x)), x)
<1> DEFINE up == UpsertThought(empty, t, x)
           new == CompleteThinking(up)
           b == <<>>
           c == up.passages
           d == new.passages
<1>1. t # None /\ t \in ThoughtPart \cup {None} /\ KnownView(empty, t) = None
  BY TextAssumption DEF KnownView
<1>2. Len(b) = 0 /\ b \in Seq(Passage)
  BY EmptySeq
<1>3. /\ up \in Screens /\ up.stream = EmptyStream /\ up.thinking.current = Len(b) + 1
      /\ Len(b) + 1 \in 1..Len(c)
      /\ Wrote(b, c, Len(b) + 1, "thinking", x)
  BY <1>1, ThoughtUpserted
<1> HIDE DEF up, c
<1>4. Len(c) = 1 /\ up.thinking.current = 1 /\ Wrote(b, c, 1, "thinking", x)
  <2>1. Wrote(b, c, 1, "thinking", x)
    BY <1>2, <1>3
  <2>2. Len(c) = Len(b) + 1
    BY <1>2, <2>1 DEF Wrote
  <2> QED
    BY <1>2, <1>3, <2>1, <2>2
<1>5. c \in Seq(Passage)
  BY <1>3, ScreenFacts DEF c
<1>6. ThinksOn(b, c, 1, x)
  <2> HIDE DEF b
  <2>1. 1 = Len(b) + 1 /\ 1..Len(b) = {}
    BY <1>2
  <2> QED
    BY <1>4, <2>1 DEF ThinksOn
<1>7. /\ View(c, "thinking", turnsBegun) = View(b, "thinking", turnsBegun) \o x
      /\ View(c, "assistant", turnsBegun) = View(b, "assistant", turnsBegun)
      /\ \A i \in 1..Len(c) : c[i].turn <= turnsBegun
  <2> HIDE DEF b
  <2> QED
    BY <1>2, <1>5, <1>6, ThoughtWritten
<1>8. View(c, "thinking", turnsBegun) = x /\ View(c, "assistant", turnsBegun) = <<>>
  <2>1. <<>> \o x = x
    BY ConcatEmptySeq DEF Words
  <2> QED
    BY <1>7, <2>1, ViewOfNothing
<1>9. /\ new \in Screens /\ new.stream = EmptyStream
      /\ new.thinking.current = None /\ LookAlike(c, d)
      /\ \A i \in 1..Len(c) : d[i].done <=> c[i].done \/ (up.thinking.current # None /\ i = up.thinking.current)
  <2>1. up.thinking.current # None => up.thinking.current \in 1..Len(up.passages)
    BY <1>4 DEF c
  <2> QED
    BY <1>3, <2>1, Completed DEF c
<1> HIDE DEF new, d
<1>10. d \in Seq(Passage)
  BY <1>9, ScreenFacts DEF d
<1>11. \A kind : View(d, kind, turnsBegun) = View(c, kind, turnsBegun)
  <2> SUFFICES ASSUME NEW kind PROVE View(d, kind, turnsBegun) = View(c, kind, turnsBegun)
    OBVIOUS
  <2> QED
    BY <1>5, <1>9, <1>10, ViewAlike
<1>12. Len(d) = 1 /\ \A i \in 1..Len(d) : d[i].turn <= turnsBegun
  BY <1>4, <1>7, <1>9 DEF LookAlike
<1>13. ThoughtsDone(d)
  <2>1. 1 # None
    BY TextAssumption
  <2> QED
    BY <1>4, <1>9, <1>12, <2>1 DEF ThoughtsDone
<1>14. Standing(new, turnsBegun)
  <2>1. StandsWell(new)
    BY <1>9 DEF StandsWell, EmptyStream
  <2> QED
    BY <1>9, <1>12, <2>1 DEF Standing, d
<1> QED
  BY <1>8, <1>9, <1>11, <1>12, <1>13, <1>14 DEF OneThought, d, new, up

\* A text after it.
LEMMA TextRestored ==
  ASSUME NEW at, NEW x \in Words, OneThought(at, x), turnsBegun \in Nat, NEW p \in TextPart,
         NEW y \in Words
  PROVE  LET new == BreakSegment(Upsert(BreakSegment(at), p, y))
         IN  /\ Standing(new, turnsBegun) /\ ThoughtsDone(new.passages)
             /\ new.stream.current = None /\ new.stream.text = y /\ new.thinking.current = None
             /\ View(new.passages, "thinking", turnsBegun) = x
             /\ View(new.passages, "assistant", turnsBegun) = y
<1> DEFINE cut == BreakSegment(at)
           up == Upsert(cut, p, y)
           new == BreakSegment(up)
           b == at.passages
           c == up.passages
<1>1. /\ at \in Screens /\ at.stream = EmptyStream /\ at.thinking.current = None
      /\ Len(b) = 1 /\ ThoughtsDone(b)
      /\ \A i \in 1..Len(b) : b[i].turn <= turnsBegun
      /\ View(b, "thinking", turnsBegun) = x /\ View(b, "assistant", turnsBegun) = <<>>
  BY DEF OneThought, Standing
<1>2. b \in Seq(Passage)
  BY <1>1, ScreenFacts
<1>3. /\ cut \in Screens /\ cut.passages = b /\ cut.thinking = at.thinking
      /\ cut.stream.text = <<>> /\ cut.stream.segments = NoSegments
  <2>1. /\ cut \in Screens /\ cut.passages = b /\ cut.thinking = at.thinking
        /\ cut.stream.text = at.stream.text /\ cut.stream.segments = at.stream.segments
    BY <1>1, Broken
  <2> QED
    BY <1>1, <2>1 DEF EmptyStream
<1> HIDE DEF cut
<1>4. KnownSegment(cut, p) = None
  BY <1>3 DEF KnownSegment, NoSegments
<1>5. /\ up \in Screens /\ up.thinking = cut.thinking
      /\ up.stream.text = StreamedAfter(<<>>, <<>>, y)
      /\ Len(b) + 1 \in 1..Len(c)
      /\ Wrote(b, c, Len(b) + 1, "assistant", y)
  BY <1>3, <1>4, PartUpserted
<1>6. StreamedAfter(<<>>, <<>>, y) = y
  <2>1. <<>> \in Words /\ <<>> \o y = y
    BY EmptySeq, ConcatEmptySeq DEF Words
  <2>2. StreamedAfter(<<>>, <<>>, <<>> \o y) = <<>> \o y
    BY <2>1, StreamedMore
  <2> QED
    BY <2>1, <2>2
<1> HIDE DEF up, b, c
<1>7. c \in Seq(Passage) /\ Len(b) \in Nat
  BY <1>2, <1>5, ScreenFacts, LenProperties DEF c
<1>8. /\ Len(c) = Len(b) + 1 /\ \A i \in 1..Len(b) : c[i] = b[i]
      /\ c[Len(b) + 1].kind = "assistant" /\ c[Len(b) + 1].text = y /\ ~c[Len(b) + 1].gone
      /\ c[Len(b) + 1].turn = turnsBegun
  BY <1>5, <1>7 DEF Wrote
<1>9. \A kind : View(c, kind, turnsBegun)
        = View(b, kind, turnsBegun) \o (IF Shows(c[Len(b) + 1], kind, turnsBegun) THEN c[Len(b) + 1].text ELSE <<>>)
  <2> SUFFICES ASSUME NEW kind
               PROVE  View(c, kind, turnsBegun)
                        = View(b, kind, turnsBegun)
                            \o (IF Shows(c[Len(b) + 1], kind, turnsBegun) THEN c[Len(b) + 1].text ELSE <<>>)
    OBVIOUS
  <2>1. OneBehind(b, c)
    BY <1>2, <1>7, <1>8 DEF OneBehind
  <2> QED
    BY <2>1, ViewAppended
<1>10. View(c, "thinking", turnsBegun) = x /\ View(c, "assistant", turnsBegun) = y
  <2>1. Shows(c[Len(b) + 1], "assistant", turnsBegun) /\ ~Shows(c[Len(b) + 1], "thinking", turnsBegun)
    BY <1>8 DEF Shows
  <2>2. x \o <<>> = x /\ <<>> \o y = y
    BY ConcatEmptySeq DEF Words
  <2> QED
    BY <1>1, <1>8, <1>9, <2>1, <2>2
<1>11. \A i \in 1..Len(c) : c[i].turn <= turnsBegun /\ (c[i].kind = "thinking" => c[i].done)
  <2>1. \A i \in 1..Len(c) : i \in 1..Len(b) \/ i = Len(b) + 1
    BY <1>7, <1>8
  <2> QED
    BY <1>1, <1>8, <2>1 DEF ThoughtsDone
<1>12. /\ new \in Screens /\ new.passages = c /\ new.thinking = up.thinking
       /\ new.stream.current = None /\ new.stream.text = up.stream.text
  BY <1>5, Broken DEF c
<1> HIDE DEF new
<1>13. new.thinking.current = None
  BY <1>1, <1>3, <1>5, <1>12
<1>14. Standing(new, turnsBegun)
  BY <1>11, <1>12, <1>13 DEF Standing, StandsWell
<1> QED
  BY <1>5, <1>6, <1>10, <1>11, <1>12, <1>13, <1>14 DEF ThoughtsDone, new, up, cut

\* What comes after them.
LEMMA ResultRestored ==
  ASSUME NEW at, Standing(at, turnsBegun), ThoughtsDone(at.passages), at.stream.current = None,
         turnsBegun \in Nat, NEW n \in Nat, at.stream.text \in Seq(1..n), NEW f \in Nat, n < f
  PROVE  LET new == ReconcileText(CompleteThinking(BreakSegment(at)), <<f>>)
         IN  /\ Standing(new, turnsBegun) /\ ThoughtsDone(new.passages)
             /\ View(new.passages, "thinking", turnsBegun) = View(at.passages, "thinking", turnsBegun)
             /\ View(new.passages, "assistant", turnsBegun)
                  = View(at.passages, "assistant", turnsBegun) \o <<f>>
<1> DEFINE cut == BreakSegment(at)
           over == CompleteThinking(cut)
           x == <<f>>
           new == ReconcileText(over, x)
<1>1. Ready(at) /\ at \in Screens
  BY DEF Ready, Standing
<1>2. /\ Ready(cut) /\ cut.passages = at.passages /\ cut.stream.text = at.stream.text
  BY <1>1, BrokenReady, Broken
<1> HIDE DEF cut
<1>3. OneActive(cut)
  BY <1>2 DEF OneActive, ThoughtsDone
<1>4. /\ Ready(over) /\ over.stream = cut.stream /\ ThoughtsDone(over.passages)
      /\ \A kind : View(over.passages, kind, turnsBegun) = View(cut.passages, kind, turnsBegun)
  BY <1>2, <1>3, CompletedReady
<1> HIDE DEF over
<1>5. NewEnd(over, x, f)
  <2>1. over.stream.text \in Seq(1..n)
    BY <1>2, <1>4
  <2> QED
    BY <2>1 DEF NewEnd
<1>6. x \in Words
  BY OneWord
<1>7. TextOnly(over, new)
  <2> HIDE DEF x
  <2> QED
    BY <1>4, <1>6, Reconciled
<1>8. View(new.passages, "assistant", turnsBegun) = View(over.passages, "assistant", turnsBegun) \o <<f>>
  <2> HIDE DEF x
  <2> QED
    BY <1>4, <1>5, <1>6, ReconciledEnd
<1> HIDE DEF new
<1>9. ThoughtsDone(new.passages)
  <2>1. ThoughtsKept(over, new) /\ Len(over.passages) \in Nat
    BY <1>4, <1>7, ScreenFacts DEF TextOnly, Ready, Standing
  <2>2. \A i \in 1..Len(new.passages) : i <= Len(over.passages) => i \in 1..Len(over.passages)
    BY <2>1
  <2> QED
    BY <1>4, <2>1, <2>2 DEF ThoughtsDone, ThoughtsKept
<1> QED
  BY <1>2, <1>4, <1>7, <1>8, <1>9 DEF TextOnly, new, over, cut, x

\* The screen of the restored session.
LEMMA RestoredShows ==
  ASSUME Here \in Screens, turnsBegun \in Nat, tokens \in Nat
  PROVE  /\ Standing(Restored, turnsBegun) /\ ThoughtsDone(Restored.passages)
         /\ View(Restored.passages, "thinking", turnsBegun) = <<FreshText>>
         /\ View(Restored.passages, "assistant", turnsBegun) = <<FreshText + 1>> \o <<FreshText + 2>>
<1> DEFINE p == CHOOSE q \in TextPart : TRUE
           t == CHOOSE q \in ThoughtPart : TRUE
           th == [thinking EXCEPT !.current = None, !.part = None, !.views = NoThinking.views]
           empty == Screen(<<>>, EmptyStream, th)
           x == <<FreshText>>
           y == <<FreshText + 1>>
           f == FreshText + 2
           thought == CompleteThinking(UpsertThought(empty, t, x))
           text == BreakSegment(Upsert(BreakSegment(thought), p, y))
           new == ReconcileText(CompleteThinking(BreakSegment(text)), <<f>>)
<1>1. Restored = new
  BY DEF Restored
<1>2. p \in TextPart /\ t \in ThoughtPart
  BY TextAssumption
<1>3. th \in Thoughts /\ th.part = None /\ \A q \in ThoughtPart : th.views[q] = None
  <2>1. thinking \in Thoughts
    BY ScreenFacts DEF Here, Screen
  <2>2. /\ NoThinking.views \in [ThoughtPart -> MaybeBlock]
        /\ \A q \in ThoughtPart : NoThinking.views[q] = None
    BY DEF NoThinking, MaybeBlock
  <2>3. None \in MaybeBlock
    BY DEF MaybeBlock
  <2> QED
    BY <2>1, <2>2, <2>3 DEF Thoughts
<1>4. EmptyStream \in Streams /\ <<>> \in Seq(Passage)
  BY EmptySeq DEF EmptyStream, NoSegments, Streams, Segment, MaybeBlock, Words
<1> HIDE DEF th
<1>5. /\ empty \in Screens /\ empty.passages = <<>> /\ empty.stream = EmptyStream
      /\ empty.thinking = th
  <2> DEFINE b == <<>>
  <2>1. b \in Seq(Passage)
    BY <1>4
  <2> HIDE DEF b
  <2>2. LET s == Screen(b, EmptyStream, th)
        IN  s \in Screens /\ s.passages = b /\ s.stream = EmptyStream /\ s.thinking = th
    BY <1>3, <1>4, <2>1, ScreenOf
  <2> QED
    BY <2>2 DEF b
<1>6. /\ FreshText \in Nat /\ FreshText + 1 \in Nat /\ f \in Nat /\ FreshText + 1 < f
  BY DEF FreshText
<1>7. x \in Words /\ y \in Words /\ y \in Seq(1 .. FreshText + 1)
  BY <1>6, OneWord
<1> HIDE DEF empty, p, t, x, y, f
<1>8. OneThought(thought, x)
  BY <1>2, <1>3, <1>5, <1>7, ThoughtRestored
<1> HIDE DEF thought
<1>9. /\ Standing(text, turnsBegun) /\ ThoughtsDone(text.passages)
      /\ text.stream.current = None /\ text.stream.text = y
      /\ View(text.passages, "thinking", turnsBegun) = x
      /\ View(text.passages, "assistant", turnsBegun) = y
  BY <1>2, <1>7, <1>8, TextRestored
<1> HIDE DEF text
<1>10. /\ Standing(new, turnsBegun) /\ ThoughtsDone(new.passages)
       /\ View(new.passages, "thinking", turnsBegun) = View(text.passages, "thinking", turnsBegun)
       /\ View(new.passages, "assistant", turnsBegun) = View(text.passages, "assistant", turnsBegun) \o <<f>>
  <2> DEFINE m == FreshText + 1
  <2>1. m \in Nat /\ m < f /\ text.stream.text \in Seq(1..m)
    BY <1>6, <1>7, <1>9
  <2> HIDE DEF m
  <2> QED
    BY <1>6, <1>9, <2>1, ResultRestored
<1> QED
  BY <1>1, <1>9, <1>10 DEF x, y, f

\* So another session shows what was said in it and by the command.
LEMMA SessionOpenedKeeps ==
  ASSUME SaidInv, SessionOpened
  PROVE  SaidInv'
<1> DEFINE x == <<FreshText>>
           y == <<FreshText + 1>>
           z == <<FreshText + 2>>
           a == Said("thinking", None, x)
           b == Said("assistant", None, y)
           c == Said("assistant", None, z)
           now == <<a, b, c>>
           n == tokens + 3
           new == Restored
<1>1. /\ turnsBegun \in Nat /\ tokens \in Nat /\ protocol \in {"plain", "parts"} /\ Here \in Screens
  BY DEF SaidInv, Standing
<1>2. /\ Move(new) /\ tokens' = n /\ talk' = "answered" /\ revised' = FALSE /\ told' = now
      /\ protocol' = protocol /\ turnsBegun' = turnsBegun
  BY DEF SessionOpened
<1>3. /\ Standing(new, turnsBegun) /\ ThoughtsDone(new.passages)
      /\ View(new.passages, "thinking", turnsBegun) = x
      /\ View(new.passages, "assistant", turnsBegun) = y \o z
  BY <1>1, RestoredShows
<1> HIDE DEF new
<1>4. n \in Nat /\ FreshText \in 1..n /\ FreshText + 1 \in 1..n /\ FreshText + 2 \in 1..n
  BY <1>1 DEF FreshText
<1>5. x \in Words /\ y \in Words /\ z \in Words /\ x \in Seq(1..n) /\ y \in Seq(1..n) /\ z \in Seq(1..n)
  BY <1>4, OneWord
<1> HIDE DEF x, y, z, n
<1>6. /\ a \in Entry /\ a.kind = "thinking" /\ a.text = x
      /\ b \in Entry /\ b.kind = "assistant" /\ b.text = y
      /\ c \in Entry /\ c.kind = "assistant" /\ c.text = z
  BY <1>5 DEF Said, Entry
<1> HIDE DEF a, b, c
<1>7. now \in Seq(Entry) /\ SaidText(now, "thinking") = x /\ SaidText(now, "assistant") = y \o z
  BY <1>6, ThreeSaid
<1>8. Fresh(now, n)
  <2>1. \A i \in 1..Len(now) : now[i] = a \/ now[i] = b \/ now[i] = c
    <3>1. Len(now) = 3 /\ now[1] = a /\ now[2] = b /\ now[3] = c
      OBVIOUS
    <3> HIDE DEF now
    <3>2. \A i \in 1..3 : i = 1 \/ i = 2 \/ i = 3
      OBVIOUS
    <3> QED
      BY <3>1, <3>2
  <2> HIDE DEF now
  <2> QED
    BY <1>5, <1>6, <1>7, <2>1 DEF Fresh
<1> HIDE DEF now
<1>9. new \in Screens
  BY <1>3 DEF Standing
<1>10. Here' = new
  BY <1>2, <1>9, MoveIs DEF Move
<1>11. SaidIsShownOnce'
  BY <1>2, <1>3, <1>7, <1>9, ShownAfter
<1>12. Standing(Here', turnsBegun') /\ Fresh(told', tokens')
  BY <1>2, <1>3, <1>8, <1>10
<1> QED
  BY <1>1, <1>2, <1>4, <1>11, <1>12 DEF SaidInv

-----------------------------------------------------------------------------
(* The theorem. *)

\* Before the first turn nothing was said and nothing is shown.
LEMMA SaidStarts ==
  ASSUME TextInit
  PROVE  SaidInv
<1>1. /\ protocol \in {"plain", "parts"} /\ talk = "idle" /\ turnsBegun = 0 /\ tokens = 0
      /\ passages = <<>> /\ stream = EmptyStream /\ thinking = NoThinking
      /\ told = <<>> /\ revised = FALSE
  BY DEF TextInit
<1>2. EmptyStream \in Streams /\ NoThinking \in Thoughts /\ <<>> \in Seq(Passage)
  BY EmptySeq DEF EmptyStream, NoSegments, NoThinking, Streams, Thoughts, Segment, MaybeBlock, Words
<1>3. /\ Here \in Screens /\ Here.passages = <<>> /\ Here.stream = EmptyStream
      /\ Here.thinking = NoThinking
  <2> DEFINE b == <<>>
  <2>1. b \in Seq(Passage)
    BY <1>2
  <2> HIDE DEF b
  <2>2. LET s == Screen(b, EmptyStream, NoThinking)
        IN  s \in Screens /\ s.passages = b /\ s.stream = EmptyStream /\ s.thinking = NoThinking
    BY <1>2, <2>1, ScreenOf
  <2> QED
    BY <1>1, <2>2 DEF Here, b
<1>4. Standing(Here, turnsBegun)
  BY <1>3, EmptySeq DEF Standing, StandsWell, EmptyStream, NoThinking
<1>5. Fresh(told, tokens)
  BY <1>1, EmptySeq DEF Fresh
<1>6. \A kind : OnView(kind) = TextOf(kind)
  BY <1>1, ViewOfNothing DEF OnView, TextOf, View, SaidText
<1>7. SaidIsShownOnce
  <2>1. \A i \in DOMAIN passages : FALSE
    BY <1>1
  <2> QED
    BY <1>6, <2>1 DEF SaidIsShownOnce
<1> QED
  BY <1>1, <1>4, <1>5, <1>7 DEF SaidInv

\* Every step keeps what the screen has in common with what was said.
LEMMA SaidSteps ==
  ASSUME SaidInv, [TextNext]_textVars
  PROVE  SaidInv'
<1>1. CASE PlainText \/ PlainThought \/ ThoughtEnds \/ ToolCalled
  BY <1>1, PlainTextKeeps, PlainThoughtKeeps, ThoughtEndsKeeps, ToolCalledKeeps
<1>2. ASSUME NEW p \in AnyPart, PartText(p) \/ PartThought(p) \/ PartTakenBack(p)
      PROVE  SaidInv'
  BY <1>2, PartTextKeeps, PartThoughtKeeps, TakenBackKeeps
<1>3. ASSUME NEW m \in {MessageOf[p] : p \in AnyPart}, MessageTakenBack(m) \/ CoordinatorFound(m)
      PROVE  SaidInv'
  BY <1>3, TakenBackKeeps
<1>4. CASE TurnEnds \/ TurnOpens \/ SessionOpened
  BY <1>4, TurnEndsKeeps, TurnOpensKeeps, SessionOpenedKeeps
<1>5. CASE UNCHANGED textVars
  <2>1. /\ protocol' = protocol /\ talk' = talk /\ turnsBegun' = turnsBegun
        /\ passages' = passages /\ stream' = stream /\ thinking' = thinking
        /\ told' = told /\ revised' = revised /\ tokens' = tokens
    BY <1>5 DEF textVars
  <2>2. Here' = Here
    BY <2>1 DEF Here, Screen
  <2>3. SaidIsShownOnce' <=> SaidIsShownOnce
    BY <2>1 DEF SaidIsShownOnce, OnView, TextOf
  <2> QED
    BY <2>1, <2>2, <2>3 DEF SaidInv
<1> QED
  BY <1>1, <1>2, <1>3, <1>4, <1>5 DEF TextNext

\* What the runtime said and thought in a turn is on the screen once and in its
\* order, in plain deltas as in parts sent again, changed and taken back, and
\* after the result that says it again (AssistantStream, ThinkingView and the
\* handlers that call them).
THEOREM WhatIsSaidIsShown == TextSpec => []SaidIsShownOnce
<1>1. TextInit => SaidInv
  BY SaidStarts
<1>2. SaidInv /\ [TextNext]_textVars => SaidInv'
  BY SaidSteps
<1>3. SaidInv => SaidIsShownOnce
  BY SaidInvShows
<1> QED
  BY <1>1, <1>2, <1>3, PTL DEF TextSpec
=============================================================================
