--------------------------- MODULE CeoAgentProofs ---------------------------
(***************************************************************************)
(* The safety properties of CeoAgent, for every set of tools and all budgets. *)
(***************************************************************************)
EXTENDS CeoAgent, TLAPS

Busy == {"reply", "try", "run"}
Asked(a) == asked[a] # NoTool
At(i) == <<trace[i].step, trace[i].reply, trace[i].try>>

\* The step under way is the first of the plan and the next of the record.
LoopInv ==
    /\ pc \in Busy => left \in 1..MaxPlanSteps
    /\ pc \in {"try", "run"} => tool \in Tools
    /\ pc \in Busy \cup {"plan"} => Len(results) = step - 1
    /\ pc = "replan" => Len(results) = step
    /\ \A i \in DOMAIN trace : trace[i].step <= step

\* No call is made before its turn.
FreshInv ==
    \A a \in Attempts : Asked(a) =>
        /\ pc # "plan"
        /\ a[1] <= step
        /\ pc \in Busy /\ a[1] = step => a[2] <= reply
        /\ pc = "reply" /\ a[1] = step => a[2] < reply
        /\ pc = "try" /\ a[1] = step /\ a[2] = reply => a[3] < try
        /\ pc = "run" /\ a[1] = step /\ a[2] = reply => a[3] <= try

\* What the answers say of the servers.
AnswerInv ==
    /\ \A a \in Attempts :
        /\ Asked(a) <=> answer[a] # "none"
        /\ times[a] = 1 => answer[a] \in {"pending", "failed", "ok"}
        /\ answer[a] = "ok" => times[a] = 1
        /\ answer[a] = "simulated" => dryRun /\ asked[a] \in Writes
        /\ dryRun /\ asked[a] \in Writes => answer[a] \in {"refused", "simulated"}
        /\ answer[a] = "pending" => pc = "run" /\ a = Current
        /\ times[a] = 1 => a \in worked \/ asked[a] \in InBand
    /\ pc = "run" => /\ asked[Current] = tool
                     /\ answer[Current] \in {"pending", "refused", "simulated"}

\* The executor goes on with a write only after an attempt that raised.
RetryInv ==
    /\ \A a \in Attempts : asked[a] \in Writes =>
          \A k \in 1..MaxTries : k < a[3] => <<a[1], a[2], k>> \in raised
    /\ pc \in {"try", "run"} /\ tool \in Writes =>
          \A k \in 1..MaxTries : k < try => <<step, reply, k>> \in raised

\* Calls and entries of the trace correspond.
TraceInv ==
    /\ \A a \in Attempts : Asked(a) =>
          \/ pc = "run" /\ a = Current
          \/ \E i \in DOMAIN trace : At(i) = a /\ trace[i].tool = asked[a]
    /\ \A i \in DOMAIN trace :
          IF trace[i].try = 0 THEN ~trace[i].ok
          ELSE /\ Asked(At(i)) /\ asked[At(i)] = trace[i].tool
               /\ ~(pc = "run" /\ At(i) = Current)
               /\ trace[i].ok => answer[At(i)] \in {"ok", "simulated"}

\* The trace is in the order of the calls.
OrderInv ==
    \A i, j \in DOMAIN trace :
        i < j /\ trace[i].try # 0 /\ trace[j].try # 0 => Earlier(At(i), At(j))

Inv == TypeOK /\ LoopInv /\ FreshInv /\ AnswerInv /\ RetryInv /\ TraceInv /\ OrderInv
       /\ RecordMatchesTrace

----------------------------------------------------------------------------

LEMMA AttemptParts ==
    ASSUME NEW a \in Attempts
    PROVE  /\ a = <<a[1], a[2], a[3]>>
           /\ a[1] \in 1..MaxTotalSteps /\ a[2] \in 1..MaxReplies /\ a[3] \in 1..MaxTries
BY DEF Attempts

LEMMA CurrentIsAttempt == TypeOK => Current \in Attempts
BY DEF TypeOK, Current, Attempts

\* Reading an appended sequence.
LEMMA Appended ==
    ASSUME NEW S, NEW s \in Seq(S), NEW e
    PROVE  /\ DOMAIN s = 1..Len(s) /\ Len(s) \in Nat
           /\ DOMAIN Append(s, e) = 1..(Len(s) + 1)
           /\ \A i \in 1..Len(s) : Append(s, e)[i] = s[i]
           /\ Append(s, e)[Len(s) + 1] = e
OBVIOUS

LEMMA InitInv == Init => Inv
<1> SUFFICES ASSUME Init PROVE Inv
    OBVIOUS
<1> USE AgentAssumption DEF Init, G!Init
<1>1. TypeOK
    BY DEF TypeOK, Attempts
<1>2. LoopInv /\ FreshInv /\ RetryInv
    BY DEF LoopInv, FreshInv, RetryInv, Busy, Asked, Attempts, Tools
<1>3. AnswerInv
    <2>1. ASSUME NEW a \in Attempts
          PROVE  asked[a] = NoTool /\ answer[a] = "none" /\ times[a] = 0 /\ asked[a] \notin Writes
        BY DEF Tools
    <2> QED BY <2>1 DEF AnswerInv, Asked
<1>4. TraceInv /\ OrderInv
    BY DEF TraceInv, OrderInv, Asked
<1>5. RecordMatchesTrace
    BY DEF RecordMatchesTrace, OkEntries, LastEntry
<1> QED BY <1>1, <1>2, <1>3, <1>4, <1>5 DEF Inv

\* EndStep leaves the types right.
LEMMA EndStepType ==
    ASSUME TypeOK, LoopInv, pc \in Busy, NEW completed \in BOOLEAN,
           NEW by \in {"call", "model", "nobody"}, EndStep(completed, by)
    PROVE  /\ pc' \in {"report", "replan"} /\ left' \in 0..MaxPlanSteps
           /\ step' \in 1..MaxTotalSteps /\ results' \in Seq(Results)
<1>1. [step |-> step, completed |-> completed, by |-> by] \in Results
    BY DEF TypeOK, Results
<1> QED BY <1>1, AgentAssumption DEF TypeOK, LoopInv, EndStep

LEMMA NextReplyType ==
    ASSUME TypeOK, LoopInv, pc \in Busy, NextReply
    PROVE  /\ pc' \in {"reply", "report", "replan"} /\ left' \in 0..MaxPlanSteps
           /\ step' \in 1..MaxTotalSteps /\ results' \in Seq(Results)
           /\ reply' \in 1..MaxReplies
<1>1. CASE reply = MaxReplies
    BY <1>1, EndStepType DEF NextReply, TypeOK
<1>2. CASE reply # MaxReplies
    BY <1>2, AgentAssumption DEF NextReply, TypeOK
<1> QED BY <1>1, <1>2

\* What a failed attempt leads to: another one, which takes a read or a raise, or the
\* next reply.
LEMMA AfterFailure ==
    ASSUME Fails
    PROVE  /\ pc = "run" /\ pc \in Busy /\ asked' = asked /\ raised \subseteq raised'
           /\ raised' \subseteq raised \cup {Current}
           /\ \/ TryAgain /\ (tool \in Writes /\ tool \notin Reads => Current \in raised')
              \/ NextReply /\ UNCHANGED executor
BY DEF Fails, Idempotent, Busy

LEMMA TypeStep == Inv /\ [Next]_vars => TypeOK'
<1> SUFFICES ASSUME Inv, [Next]_vars PROVE TypeOK'
    OBVIOUS
<1> USE AgentAssumption
<1>0. TypeOK /\ LoopInv /\ Current \in Attempts
    BY CurrentIsAttempt DEF Inv
<1>1. ASSUME NEW n \in 0..MaxPlanSteps, Plan(n) \/ Replan(n) PROVE TypeOK'
    BY <1>0, <1>1 DEF TypeOK, Plan, Replan, OutOfSteps, executor, gateway
<1>2. CASE NoPlan \/ Report \/ Raise
    BY <1>0, <1>2 DEF TypeOK, NoPlan, Report, Raise, loop, executor, gateway
<1>3. CASE Unusable
    BY <1>0, <1>3, NextReplyType DEF TypeOK, Unusable, executor, gateway, Busy
<1>4. CASE StepComplete
    <2>1. EndStep(TRUE, "model") /\ pc \in Busy
        BY <1>4 DEF StepComplete, Busy
    <2> QED BY <1>0, <1>4, <2>1, EndStepType DEF TypeOK, StepComplete, executor, gateway
<1>5. ASSUME NEW t \in Writes \cup {NoTool}, Refuse(t) PROVE TypeOK'
    <2>1. NextReply /\ pc \in Busy
        BY <1>5 DEF Refuse, Busy
    <2>2. trace' \in Seq(Entries)
        <3>1. Entry(t, 0, FALSE) \in Entries
            BY <1>0 DEF TypeOK, Entry, Entries, Tools
        <3>2. trace \in Seq(Entries) /\ trace' = Append(trace, Entry(t, 0, FALSE))
            BY <1>0, <1>5 DEF Refuse, TypeOK
        <3> QED BY <3>1, <3>2 DEF Entry
    <2> QED BY <1>0, <1>5, <2>1, <2>2, NextReplyType DEF TypeOK, Refuse, executor, gateway
<1>6. ASSUME NEW t \in Tools, Execute(t) PROVE TypeOK'
    BY <1>0, <1>6 DEF TypeOK, Execute, loop, gateway
<1>7. CASE Send
    <2>1. answer' \in [Attempts -> {"none", "pending", "ok", "failed", "refused", "simulated"}]
        BY <1>0, <1>7 DEF Send, TypeOK, G!LetThrough, G!Withhold
    <2> QED BY <1>0, <1>7, <2>1 DEF TypeOK, Send, loop, executor, G!LetThrough, G!Withhold
<1>8. CASE Succeeds
    <2>1. EndStep(TRUE, "call") /\ pc \in Busy
        BY <1>8 DEF Succeeds, Busy
    <2>2. trace' \in Seq(Entries)
        <3>1. Entry(tool, try, TRUE) \in Entries
            BY <1>0 DEF TypeOK, Entry, Entries, Tools
        <3>2. trace \in Seq(Entries) /\ trace' = Append(trace, Entry(tool, try, TRUE))
            BY <1>0, <1>8 DEF Succeeds, TypeOK
        <3> QED BY <3>1, <3>2 DEF Entry
    <2>3. answer' \in [Attempts -> {"none", "pending", "ok", "failed", "refused", "simulated"}]
          /\ times' = times
        BY <1>0, <1>8 DEF Succeeds, TypeOK, G!Succeed
    <2> QED BY <1>0, <1>8, <2>1, <2>2, <2>3, EndStepType DEF TypeOK, Succeeds, executor
<1>9. CASE Fails
    <2>1. trace' \in Seq(Entries)
        <3>1. Entry(tool, try, FALSE) \in Entries
            BY <1>0 DEF TypeOK, Entry, Entries, Tools
        <3>2. trace \in Seq(Entries) /\ trace' = Append(trace, Entry(tool, try, FALSE))
            BY <1>0, <1>9 DEF Fails, Traced, TypeOK
        <3> QED BY <3>1, <3>2 DEF Entry
    <2>2. answer' \in [Attempts -> {"none", "pending", "ok", "failed", "refused", "simulated"}]
          /\ times' = times
        BY <1>0, <1>9 DEF Fails, TypeOK, G!Fail
    <2>3. raised' \subseteq Attempts /\ UNCHANGED <<dryRun, asked, worked>> /\ pc \in Busy
        BY <1>0, <1>9, AfterFailure DEF TypeOK, Fails
    <2>4. CASE TryAgain
        BY <1>0, <2>1, <2>2, <2>3, <2>4 DEF TypeOK, TryAgain
    <2>5. CASE NextReply /\ UNCHANGED executor
        BY <1>0, <2>1, <2>2, <2>3, <2>5, NextReplyType DEF TypeOK, executor
    <2> QED BY <1>9, <2>4, <2>5, AfterFailure
<1>10. ASSUME NEW a \in Attempts, NEW works \in BOOLEAN, Land(a, works) PROVE TypeOK'
    BY <1>0, <1>10 DEF TypeOK, Land, G!CarryOut, loop, executor
<1>11. CASE UNCHANGED vars
    BY <1>0, <1>11 DEF TypeOK, vars
<1> QED BY <1>1, <1>2, <1>3, <1>4, <1>5, <1>6, <1>7, <1>8, <1>9, <1>10, <1>11 DEF Next, Step

\* After a reply, the same step goes on or its result is written down.
LEMMA StepOver ==
    ASSUME TypeOK, LoopInv, pc \in Busy,
           NextReply \/ EndStep(TRUE, "model") \/ EndStep(TRUE, "call")
    PROVE  /\ step' = step
           /\ \/ /\ pc' = "reply" /\ left' = left /\ results' = results
                 /\ reply # MaxReplies /\ reply' = reply + 1
              \/ pc' \in {"report", "replan"} /\ Len(results') = step
<1>1. results \in Seq(Results) /\ Len(results) = step - 1 /\ step \in 1..MaxTotalSteps
    BY DEF TypeOK, LoopInv
<1>2. ASSUME NEW completed \in BOOLEAN, NEW by \in {"call", "model", "nobody"},
             EndStep(completed, by)
      PROVE  step' = step /\ pc' \in {"report", "replan"} /\ Len(results') = step
    BY <1>1, <1>2, AgentAssumption DEF EndStep
<1>3. CASE NextReply /\ reply = MaxReplies
    <2>1. EndStep(FALSE, "nobody")
        BY <1>3 DEF NextReply
    <2> QED BY <1>2, <2>1
<1>4. CASE NextReply /\ reply # MaxReplies
    BY <1>4 DEF NextReply
<1>5. CASE EndStep(TRUE, "model")
    BY <1>2, <1>5
<1>6. CASE EndStep(TRUE, "call")
    BY <1>2, <1>6
<1> QED BY <1>3, <1>4, <1>5, <1>6

LEMMA LoopStep == Inv /\ [Next]_vars => LoopInv'
<1> SUFFICES ASSUME Inv, [Next]_vars PROVE LoopInv'
    OBVIOUS
<1> USE AgentAssumption
<1>0. TypeOK /\ LoopInv
    BY DEF Inv
<1>a. \A i \in DOMAIN trace : trace[i] \in Entries
    BY <1>0 DEF TypeOK
<1>1. ASSUME NEW n \in 0..MaxPlanSteps, Plan(n) \/ Replan(n) PROVE LoopInv'
    <2>1. \A i \in DOMAIN trace : trace[i].step <= step'
        BY <1>0, <1>1, <1>a DEF TypeOK, LoopInv, Plan, Replan, Entries
    <2> QED BY <1>0, <1>1, <2>1 DEF TypeOK, LoopInv, Plan, Replan, Busy
<1>2. CASE NoPlan \/ Report \/ Raise
    BY <1>0, <1>2 DEF LoopInv, NoPlan, Report, Raise, loop, Busy
<1>3. CASE Unusable \/ StepComplete
    <2>1. /\ pc \in Busy /\ trace' = trace
          /\ NextReply \/ EndStep(TRUE, "model") \/ EndStep(TRUE, "call")
        BY <1>3 DEF Unusable, StepComplete, Busy
    <2> QED BY <1>0, <2>1, StepOver DEF LoopInv, Busy
<1>4. ASSUME NEW e \in Entries, trace' = Append(trace, e), e.step = step,
             pc \in Busy, NextReply \/ EndStep(TRUE, "model") \/ EndStep(TRUE, "call")
      PROVE  LoopInv'
    <2>1. step' = step
        BY <1>0, <1>4, StepOver
    <2>2. \A i \in DOMAIN trace' : trace'[i].step <= step'
        BY <1>0, <1>4, <2>1, Appended DEF TypeOK, LoopInv
    <2> QED BY <1>0, <1>4, <2>2, StepOver DEF LoopInv, Busy
<1>5. ASSUME NEW t \in Writes \cup {NoTool}, Refuse(t) PROVE LoopInv'
    <2> DEFINE e == [step |-> step, reply |-> reply, try |-> 0, tool |-> t, ok |-> FALSE]
    <2>1. e \in Entries /\ e.step = step
        BY <1>0 DEF TypeOK, Entries, Tools
    <2>2. trace' = Append(trace, e) /\ NextReply /\ pc \in Busy
        BY <1>5 DEF Refuse, Entry, Busy
    <2> QED BY <1>4, <2>1, <2>2
<1>6. ASSUME NEW t \in Tools, Execute(t) PROVE LoopInv'
    BY <1>0, <1>6 DEF LoopInv, Execute, loop, Busy
<1>7. CASE Send
    BY <1>0, <1>7 DEF LoopInv, Send, loop, executor, Busy
<1>8. CASE Succeeds
    <2> DEFINE e == [step |-> step, reply |-> reply, try |-> try, tool |-> tool, ok |-> TRUE]
    <2>1. e \in Entries /\ e.step = step
        BY <1>0 DEF TypeOK, Entries
    <2>2. trace' = Append(trace, e) /\ EndStep(TRUE, "call") /\ pc \in Busy
        BY <1>8 DEF Succeeds, Entry, Busy
    <2> QED BY <1>4, <2>1, <2>2
<1>9. CASE Fails
    <2> DEFINE e == [step |-> step, reply |-> reply, try |-> try, tool |-> tool, ok |-> FALSE]
    <2>1. e \in Entries /\ e.step = step
        BY <1>0 DEF TypeOK, Entries
    <2>2. trace' = Append(trace, e) /\ pc \in Busy
        BY <1>9 DEF Fails, Traced, Entry, Busy
    <2>3. CASE TryAgain
        <3>1. pc' = "try" /\ tool' = tool /\ step' = step /\ left' = left /\ results' = results
              /\ pc = "run"
            BY <1>9, <2>3 DEF Fails, TryAgain
        <3>2. \A i \in DOMAIN trace' : trace'[i].step <= step'
            BY <1>0, <2>1, <2>2, <3>1, Appended DEF TypeOK, LoopInv
        <3> QED BY <1>0, <3>1, <3>2 DEF LoopInv, Busy
    <2>4. CASE NextReply
        BY <1>4, <2>1, <2>2, <2>4
    <2> QED BY <1>9, <2>3, <2>4, AfterFailure
<1>10. ASSUME NEW a \in Attempts, NEW works \in BOOLEAN, Land(a, works) PROVE LoopInv'
    BY <1>0, <1>10 DEF LoopInv, Land, loop, executor
<1>11. CASE UNCHANGED vars
    BY <1>0, <1>11 DEF LoopInv, vars
<1> QED BY <1>1, <1>2, <1>3, <1>5, <1>6, <1>7, <1>8, <1>9, <1>10, <1>11 DEF Next, Step

LEMMA FreshStep == Inv /\ [Next]_vars => FreshInv'
<1> SUFFICES ASSUME Inv, [Next]_vars,
                    NEW a \in Attempts, Asked(a)'
             PROVE  /\ pc' # "plan"
                    /\ a[1] <= step'
                    /\ pc' \in Busy /\ a[1] = step' => a[2] <= reply'
                    /\ pc' = "reply" /\ a[1] = step' => a[2] < reply'
                    /\ pc' = "try" /\ a[1] = step' /\ a[2] = reply' => a[3] < try'
                    /\ pc' = "run" /\ a[1] = step' /\ a[2] = reply' => a[3] <= try'
    BY DEF FreshInv, Busy
<1> DEFINE Goal == /\ pc' # "plan"
                   /\ a[1] <= step'
                   /\ pc' \in Busy /\ a[1] = step' => a[2] <= reply'
                   /\ pc' = "reply" /\ a[1] = step' => a[2] < reply'
                   /\ pc' = "try" /\ a[1] = step' /\ a[2] = reply' => a[3] < try'
                   /\ pc' = "run" /\ a[1] = step' /\ a[2] = reply' => a[3] <= try'
<1>0. /\ TypeOK /\ LoopInv
      /\ a = <<a[1], a[2], a[3]>> /\ a[1] \in Nat /\ a[2] \in Nat /\ a[3] \in Nat
      /\ step \in Nat /\ reply \in Nat /\ try \in Nat
    BY AttemptParts, AgentAssumption DEF Inv, TypeOK
<1>f. asked' = asked =>
        /\ pc # "plan"
        /\ a[1] <= step
        /\ pc \in Busy /\ a[1] = step => a[2] <= reply
        /\ pc = "reply" /\ a[1] = step => a[2] < reply
        /\ pc = "try" /\ a[1] = step /\ a[2] = reply => a[3] < try
        /\ pc = "run" /\ a[1] = step /\ a[2] = reply => a[3] <= try
    BY DEF Inv, FreshInv, Asked
<1>1. ASSUME NEW n \in 0..MaxPlanSteps, Plan(n) \/ Replan(n) PROVE Goal
    BY <1>0, <1>1, <1>f DEF Plan, Replan, gateway, Busy
<1>2. CASE NoPlan \/ Report \/ Raise
    BY <1>0, <1>2, <1>f DEF NoPlan, Report, Raise, gateway, loop, Busy
<1>3. ASSUME asked' = asked, pc \in Busy,
             NextReply \/ EndStep(TRUE, "model") \/ EndStep(TRUE, "call")
      PROVE  Goal
    <2>1. /\ step' = step
          /\ \/ pc' = "reply" /\ reply' = reply + 1
             \/ pc' \in {"report", "replan"}
        BY <1>0, <1>3, StepOver
    <2>2. a[1] <= step /\ (a[1] = step => a[2] <= reply)
        BY <1>3, <1>f
    <2> QED BY <1>0, <2>1, <2>2 DEF Busy
<1>4. CASE Unusable \/ StepComplete
    BY <1>3, <1>4 DEF Unusable, StepComplete, gateway, Busy
<1>5. ASSUME NEW t \in Writes \cup {NoTool}, Refuse(t) PROVE Goal
    <2>1. asked' = asked /\ pc \in Busy /\ NextReply
        BY <1>5 DEF Refuse, gateway, Busy
    <2> QED BY <1>3, <2>1
<1>6. ASSUME NEW t \in Tools, Execute(t) PROVE Goal
    BY <1>0, <1>6, <1>f DEF Execute, gateway, loop, Busy
<1>7. CASE Send
    <2>1. pc = "try" /\ pc' = "run" /\ asked' = [asked EXCEPT ![Current] = tool]
          /\ UNCHANGED <<step, reply, try>>
        BY <1>7 DEF Send, loop, executor
    <2>2. CASE a = Current
        <3>1. a[1] = step /\ a[2] = reply /\ a[3] = try
            BY <2>2 DEF Current
        <3> QED BY <1>0, <2>1, <3>1 DEF Busy
    <2>3. CASE a # Current
        <3>1. Asked(a)
            BY <1>0, <2>1, <2>3 DEF Asked, TypeOK
        <3>2. /\ a[1] <= step
              /\ a[1] = step => a[2] <= reply
              /\ a[1] = step /\ a[2] = reply => a[3] < try
            BY <2>1, <3>1 DEF Inv, FreshInv, Busy
        <3> QED BY <1>0, <2>1, <3>2 DEF Busy
    <2> QED BY <2>2, <2>3
<1>8. CASE Succeeds
    <2>1. asked' = asked /\ pc \in Busy /\ EndStep(TRUE, "call")
        BY <1>8 DEF Succeeds, Busy
    <2> QED BY <1>3, <2>1
<1>9. CASE Fails
    <2>1. asked' = asked /\ pc = "run"
        BY <1>9 DEF Fails
    <2>2. CASE TryAgain
        BY <1>0, <1>f, <2>1, <2>2 DEF TryAgain, Busy
    <2>3. CASE NextReply
        BY <1>3, <2>1, <2>3 DEF Busy
    <2> QED BY <1>9, <2>2, <2>3, AfterFailure
<1>10. ASSUME NEW b \in Attempts, NEW works \in BOOLEAN, Land(b, works) PROVE Goal
    BY <1>10, <1>f DEF Land, loop, executor
<1>11. CASE UNCHANGED vars
    BY <1>11, <1>f DEF vars
<1> QED BY <1>1, <1>2, <1>4, <1>5, <1>6, <1>7, <1>8, <1>9, <1>10, <1>11 DEF Next, Step

\* Nothing was asked where the next call goes.
LEMMA NextIsFresh == Inv /\ pc = "try" => ~Asked(Current)
<1> SUFFICES ASSUME Inv, pc = "try", Asked(Current) PROVE FALSE
    OBVIOUS
<1>1. Current \in Attempts /\ Current[1] = step /\ Current[2] = reply /\ Current[3] = try
    BY CurrentIsAttempt DEF Inv, Current
<1>2. Current[3] < try
    BY <1>1 DEF Inv, FreshInv
<1> QED BY <1>1, <1>2, AgentAssumption DEF Inv, TypeOK

LEMMA RetryStep == Inv /\ [Next]_vars => RetryInv'
<1> SUFFICES ASSUME Inv, [Next]_vars PROVE RetryInv'
    OBVIOUS
<1> USE AgentAssumption
<1>0. TypeOK /\ LoopInv /\ RetryInv /\ Current \in Attempts
    BY CurrentIsAttempt DEF Inv
<1>k. ASSUME asked' = asked, raised \subseteq raised', pc' \notin {"try", "run"} PROVE RetryInv'
    BY <1>0, <1>k DEF RetryInv
<1>1. ASSUME NEW n \in 0..MaxPlanSteps, Plan(n) \/ Replan(n) PROVE RetryInv'
    BY <1>1, <1>k DEF Plan, Replan, gateway
<1>2. CASE NoPlan \/ Report \/ Raise
    BY <1>2, <1>k DEF NoPlan, Report, Raise, gateway
<1>3. ASSUME asked' = asked, raised \subseteq raised', pc \in Busy,
             NextReply \/ EndStep(TRUE, "model") \/ EndStep(TRUE, "call")
      PROVE  RetryInv'
    BY <1>0, <1>3, <1>k, StepOver
<1>4. CASE Unusable \/ StepComplete
    BY <1>3, <1>4 DEF Unusable, StepComplete, gateway, Busy
<1>5. ASSUME NEW t \in Writes \cup {NoTool}, Refuse(t) PROVE RetryInv'
    <2>1. UNCHANGED <<asked, raised>> /\ pc \in Busy /\ NextReply
        BY <1>5 DEF Refuse, gateway, Busy
    <2> QED BY <1>3, <2>1
<1>6. ASSUME NEW t \in Tools, Execute(t) PROVE RetryInv'
    <2>1. try' = 1 /\ UNCHANGED <<asked, raised>>
        BY <1>6 DEF Execute, gateway
    <2>2. \A k \in 1..MaxTries : ~(k < try')
        BY <2>1
    <2> QED BY <1>0, <2>1, <2>2 DEF RetryInv
<1>7. CASE Send
    <2>1. pc = "try" /\ asked' = [asked EXCEPT ![Current] = tool]
          /\ UNCHANGED <<tool, try, step, reply, raised>>
        BY <1>7 DEF Send, executor, loop
    <2>2. tool \in Writes => \A k \in 1..MaxTries : k < try => <<step, reply, k>> \in raised
        BY <1>0, <2>1 DEF RetryInv
    <2>3. Current[1] = step /\ Current[2] = reply /\ Current[3] = try
        BY DEF Current
    <2>4. ASSUME NEW a \in Attempts, asked'[a] \in Writes, NEW k \in 1..MaxTries, k < a[3]
          PROVE  <<a[1], a[2], k>> \in raised
        <3>1. CASE a = Current
            BY <1>0, <2>1, <2>2, <2>3, <2>4, <3>1 DEF TypeOK
        <3>2. CASE a # Current
            BY <1>0, <2>1, <2>4, <3>2 DEF RetryInv, TypeOK
        <3> QED BY <3>1, <3>2
    <2> QED BY <2>1, <2>2, <2>4 DEF RetryInv
<1>8. CASE Succeeds
    <2>1. UNCHANGED <<asked, raised>> /\ pc \in Busy /\ EndStep(TRUE, "call")
        BY <1>8 DEF Succeeds, Busy
    <2> QED BY <1>3, <2>1
<1>9. CASE Fails
    <2>1. pc = "run" /\ asked' = asked /\ raised \subseteq raised' /\ pc \in Busy
        BY <1>9, AfterFailure
    <2>2. CASE TryAgain /\ (tool \in Writes /\ tool \notin Reads => Current \in raised')
        <3>1. UNCHANGED <<tool, step, reply>> /\ try' = try + 1 /\ try \in Nat
            BY <1>0, <2>2 DEF TryAgain, TypeOK
        <3>2. ASSUME tool \in Writes, NEW k \in 1..MaxTries, k < try + 1
              PROVE  <<step, reply, k>> \in raised'
            <4>1. CASE k = try
                BY <2>2, <3>2, <4>1 DEF Current
            <4>2. CASE k < try
                BY <1>0, <2>1, <3>2, <4>2 DEF RetryInv
            <4> QED BY <3>1, <3>2, <4>1, <4>2
        <3> QED BY <1>0, <2>1, <3>1, <3>2 DEF RetryInv
    <2>3. CASE NextReply
        BY <1>3, <2>1, <2>3
    <2> QED BY <1>9, <2>2, <2>3, AfterFailure
<1>10. ASSUME NEW b \in Attempts, NEW works \in BOOLEAN, Land(b, works) PROVE RetryInv'
    BY <1>0, <1>10 DEF RetryInv, Land, loop, executor
<1>11. CASE UNCHANGED vars
    BY <1>0, <1>11 DEF RetryInv, vars
<1> QED BY <1>1, <1>2, <1>4, <1>5, <1>6, <1>7, <1>8, <1>9, <1>10, <1>11 DEF Next, Step

\* Whether an answer may be wanted is decided where the gateway answers.
LEMMA AnswerStep == Inv /\ [Next]_vars => AnswerInv'
<1> SUFFICES ASSUME Inv, [Next]_vars PROVE AnswerInv'
    OBVIOUS
<1> USE AgentAssumption
<1>0. TypeOK /\ LoopInv /\ AnswerInv /\ Current \in Attempts
    BY CurrentIsAttempt DEF Inv
<1>1. ASSUME pc # "run", pc' # "run", UNCHANGED <<asked, answer, times, worked, dryRun>>
      PROVE  AnswerInv'
    BY <1>0, <1>1 DEF AnswerInv, Asked
<1>2. ASSUME NEW n \in 0..MaxPlanSteps, Plan(n) \/ Replan(n) PROVE AnswerInv'
    BY <1>1, <1>2 DEF Plan, Replan, gateway
<1>3. CASE NoPlan \/ Report \/ Raise
    BY <1>1, <1>3 DEF NoPlan, Report, Raise, gateway
<1>4. CASE Unusable \/ StepComplete
    <2>1. /\ pc = "reply" /\ UNCHANGED <<asked, answer, times, worked, dryRun>>
          /\ NextReply \/ EndStep(TRUE, "model") \/ EndStep(TRUE, "call")
        BY <1>4 DEF Unusable, StepComplete, gateway
    <2>2. pc' # "run"
        BY <1>0, <2>1, StepOver DEF Busy
    <2> QED BY <1>1, <2>1, <2>2
<1>5. ASSUME NEW t \in Writes \cup {NoTool}, Refuse(t) PROVE AnswerInv'
    <2>1. pc = "reply" /\ UNCHANGED <<asked, answer, times, worked, dryRun>> /\ NextReply
        BY <1>5 DEF Refuse, gateway
    <2>2. pc' # "run"
        BY <1>0, <2>1, StepOver DEF Busy
    <2> QED BY <1>1, <2>1, <2>2
<1>6. ASSUME NEW t \in Tools, Execute(t) PROVE AnswerInv'
    BY <1>1, <1>6 DEF Execute, gateway
<1>7. CASE Send
    <2>1. /\ pc = "try" /\ pc' = "run" /\ asked' = [asked EXCEPT ![Current] = tool]
          /\ UNCHANGED <<dryRun, worked, times, tool>> /\ Current' = Current
          /\ tool \in Tools /\ tool # NoTool
        BY <1>0, <1>7 DEF Send, loop, executor, Current, G!LetThrough, G!Withhold, LoopInv
    <2>2. answer[Current] = "none"
        BY <1>7 DEF Send, G!LetThrough, G!Withhold
    <2>3. times[Current] = 0 /\ asked'[Current] = tool
        BY <1>0, <2>1, <2>2 DEF AnswerInv, TypeOK
    <2>4. \E v \in {"pending", "refused", "simulated"} :
            /\ answer' = [answer EXCEPT ![Current] = v]
            /\ v = "pending" => tool \in Reads \/ ~dryRun
            /\ v = "simulated" => dryRun /\ tool \in Writes
        <3>1. CASE G!LetThrough(Current) /\ (tool \in Reads \/ ~dryRun)
            BY <3>1 DEF G!LetThrough
        <3>2. CASE /\ G!Withhold(Current)
                   /\ answer'[Current] = "simulated" => dryRun /\ tool \in Writes
            <4>1. PICK v \in {"refused", "simulated"} : answer' = [answer EXCEPT ![Current] = v]
                BY <3>2 DEF G!Withhold
            <4>2. answer'[Current] = v
                BY <1>0, <4>1 DEF TypeOK
            <4> QED BY <3>2, <4>1, <4>2
        <3> QED BY <1>7, <3>1, <3>2 DEF Send
    <2>5. PICK v \in {"pending", "refused", "simulated"} :
            /\ answer' = [answer EXCEPT ![Current] = v]
            /\ v = "pending" => tool \in Reads \/ ~dryRun
            /\ v = "simulated" => dryRun /\ tool \in Writes
        BY <2>4
    <2>6. answer'[Current] = v
        BY <1>0, <2>5 DEF TypeOK
    <2>7. \A a \in Attempts : a # Current =>
            asked'[a] = asked[a] /\ answer'[a] = answer[a] /\ answer[a] # "pending"
        BY <1>0, <2>1, <2>5 DEF TypeOK, AnswerInv
    <2> QED BY <1>0, <2>1, <2>3, <2>5, <2>6, <2>7 DEF AnswerInv, Asked, Tools
<1>8. ASSUME pc = "run", pc' # "run", UNCHANGED <<asked, times, worked, dryRun>>,
             \/ /\ answer[Current] = "pending"
                /\ \/ answer' = [answer EXCEPT ![Current] = "failed"]
                   \/ times[Current] = 1 /\ answer' = [answer EXCEPT ![Current] = "ok"]
             \/ answer[Current] \in {"refused", "simulated"} /\ answer' = answer
      PROVE  AnswerInv'
    <2>1. \A a \in Attempts : a # Current => answer'[a] = answer[a] /\ answer[a] # "pending"
        BY <1>0, <1>8 DEF AnswerInv, TypeOK
    <2>2. CASE answer[Current] = "pending"
        <3>1. answer'[Current] = "failed" \/ (times[Current] = 1 /\ answer'[Current] = "ok")
            BY <1>0, <1>8, <2>2 DEF TypeOK
        <3> QED BY <1>0, <1>8, <2>1, <2>2, <3>1 DEF AnswerInv, Asked
    <2>3. CASE answer[Current] # "pending"
        BY <1>0, <1>8, <2>1, <2>3 DEF AnswerInv, Asked
    <2> QED BY <2>2, <2>3
<1>9. CASE Succeeds
    <2>1. /\ pc = "run" /\ UNCHANGED <<asked, times, worked, dryRun>>
          /\ EndStep(TRUE, "call")
          /\ \/ /\ answer[Current] = "pending"
                /\ times[Current] = 1 /\ answer' = [answer EXCEPT ![Current] = "ok"]
             \/ answer[Current] \in {"refused", "simulated"} /\ answer' = answer
        BY <1>9 DEF Succeeds, G!Succeed
    <2>2. pc' # "run"
        BY <1>0, <2>1, StepOver DEF Busy
    <2> QED BY <1>8, <2>1, <2>2
<1>10. CASE Fails
    <2>1. /\ pc = "run" /\ UNCHANGED <<asked, times, worked, dryRun>>
          /\ \/ answer[Current] = "pending" /\ answer' = [answer EXCEPT ![Current] = "failed"]
             \/ answer[Current] \in {"refused", "simulated"} /\ answer' = answer
        BY <1>10 DEF Fails, G!Fail
    <2>2. pc' # "run"
        <3>1. pc' = "try" \/ NextReply
            BY <1>10, AfterFailure DEF TryAgain
        <3> QED BY <1>0, <2>1, <3>1, StepOver DEF Busy
    <2> QED BY <1>8, <2>1, <2>2
<1>11. ASSUME NEW b \in Attempts, NEW works \in BOOLEAN, Land(b, works) PROVE AnswerInv'
    <2>1. /\ answer[b] \in {"pending", "failed"} /\ times' = [times EXCEPT ![b] = 1]
          /\ answer' = answer /\ asked' = asked /\ dryRun' = dryRun /\ pc' = pc
          /\ tool' = tool /\ Current' = Current
        BY <1>11 DEF Land, G!CarryOut, loop, executor, Current
    <2>2. worked \subseteq worked' /\ (b \in worked' \/ asked[b] \in InBand)
        BY <1>11 DEF Land
    <2>3. \A a \in Attempts : times'[a] = IF a = b THEN 1 ELSE times[a]
        BY <1>0, <2>1 DEF TypeOK
    <2> QED BY <1>0, <2>1, <2>2, <2>3 DEF AnswerInv, Asked
<1>12. CASE UNCHANGED vars
    BY <1>0, <1>12 DEF AnswerInv, Asked, Current, vars
<1> QED BY <1>2, <1>3, <1>4, <1>5, <1>6, <1>7, <1>9, <1>10, <1>11, <1>12 DEF Next, Step

LEMMA OneMoreEntry ==
    ASSUME TypeOK, NEW e, trace' = Append(trace, e)
    PROVE  \E n \in Nat :
              /\ n = Len(trace) + 1
              /\ DOMAIN trace' = DOMAIN trace \cup {n} /\ DOMAIN trace \subseteq 1..(n - 1)
              /\ \A i \in DOMAIN trace : trace'[i] = trace[i] /\ At(i)' = At(i)
              /\ trace'[n] = e /\ At(n)' = <<e.step, e.reply, e.try>>
<1>1. trace \in Seq(Entries)
    BY DEF TypeOK
<1> DEFINE l == Len(trace)
<1>2. /\ DOMAIN trace = 1..l /\ l \in Nat
      /\ DOMAIN trace' = 1..(l + 1)
      /\ \A i \in 1..l : trace'[i] = trace[i]
      /\ trace'[l + 1] = e
    BY <1>1
<1>3. PICK n \in Nat : n = l + 1
    BY <1>2
<1>4. DOMAIN trace' = DOMAIN trace \cup {n} /\ DOMAIN trace \subseteq 1..(n - 1)
    BY <1>2, <1>3
<1>5. \A i \in DOMAIN trace : trace'[i] = trace[i] /\ At(i)' = At(i)
    BY <1>2 DEF At
<1>6. trace'[n] = e /\ At(n)' = <<e.step, e.reply, e.try>>
    BY <1>2, <1>3 DEF At
<1> QED BY <1>3, <1>4, <1>5, <1>6

LEMMA EntryAttempt ==
    ASSUME TypeOK, NEW i \in DOMAIN trace, trace[i].try # 0
    PROVE  At(i) \in Attempts
<1>1. trace[i] \in Entries
    BY DEF TypeOK
<1> QED BY <1>1, AgentAssumption DEF Entries, At, Attempts

\* The two kinds of entries: what the executor refuses, and what it sends.
LEMMA Refused ==
    ASSUME Inv, NEW t \in Writes \cup {NoTool}, Refuse(t)
    PROVE  \E e \in Entries :
              /\ trace' = Append(trace, e) /\ e.step = step /\ e.try = 0 /\ e.ok = FALSE
              /\ pc = "reply" /\ pc' # "run" /\ step' = step /\ NextReply
              /\ UNCHANGED <<asked, answer>>
<1>0. TypeOK /\ LoopInv
    BY DEF Inv
<1> DEFINE e == [step |-> step, reply |-> reply, try |-> 0, tool |-> t, ok |-> FALSE]
<1>1. e \in Entries /\ e.step = step /\ e.try = 0 /\ e.ok = FALSE
    BY <1>0, AgentAssumption DEF TypeOK, Entries, Tools
<1>2. /\ trace' = Append(trace, e) /\ NextReply /\ pc = "reply" /\ pc \in Busy
      /\ UNCHANGED <<asked, answer>>
    BY DEF Refuse, Entry, Busy, gateway
<1>3. step' = step /\ pc' # "run"
    BY <1>0, <1>2, StepOver
<1> HIDE DEF e
<1> QED BY <1>1, <1>2, <1>3

LEMMA Answered ==
    ASSUME Inv, Succeeds \/ Fails
    PROVE  \E e \in Entries :
              /\ trace' = Append(trace, e) /\ <<e.step, e.reply, e.try>> = Current /\ e.step = step
              /\ e.try # 0
              /\ e.tool = tool /\ pc = "run" /\ pc' # "run" /\ step' = step
              /\ asked' = asked
              /\ \A a \in Attempts : a # Current => answer'[a] = answer[a]
              /\ e.ok => answer'[Current] \in {"ok", "simulated"} /\ EndStep(TRUE, "call")
              /\ ~e.ok => \/ NextReply
                          \/ UNCHANGED <<results, left, step>> /\ pc' = "try"
<1>0. TypeOK /\ LoopInv /\ Current \in Attempts
    BY CurrentIsAttempt DEF Inv
<1>1. CASE Succeeds
    <2> DEFINE e == [step |-> step, reply |-> reply, try |-> try, tool |-> tool, ok |-> TRUE]
    <2>1. e \in Entries /\ <<e.step, e.reply, e.try>> = Current /\ e.tool = tool /\ e.ok
          /\ e.try # 0 /\ e.step = step
        BY <1>0, AgentAssumption DEF TypeOK, Entries, Current
    <2>2. /\ trace' = Append(trace, e) /\ EndStep(TRUE, "call") /\ pc = "run" /\ pc \in Busy
          /\ asked' = asked
        BY <1>1 DEF Succeeds, Entry, Busy
    <2>3. step' = step /\ pc' # "run"
        BY <1>0, <2>2, StepOver
    <2>4. /\ \A a \in Attempts : a # Current => answer'[a] = answer[a]
          /\ answer'[Current] \in {"ok", "simulated"}
        BY <1>0, <1>1 DEF Succeeds, G!Succeed, TypeOK
    <2> HIDE DEF e
    <2> QED BY <2>1, <2>2, <2>3, <2>4
<1>2. CASE Fails
    <2> DEFINE e == [step |-> step, reply |-> reply, try |-> try, tool |-> tool, ok |-> FALSE]
    <2>1. e \in Entries /\ <<e.step, e.reply, e.try>> = Current /\ e.tool = tool /\ ~e.ok
          /\ e.try # 0 /\ e.step = step
        BY <1>0, AgentAssumption DEF TypeOK, Entries, Current
    <2>2. trace' = Append(trace, e) /\ pc = "run" /\ pc \in Busy /\ asked' = asked
        BY <1>2 DEF Fails, Traced, Entry, Busy
    <2>3. NextReply \/ (UNCHANGED <<results, left, step>> /\ pc' = "try")
        BY <1>2, AfterFailure DEF TryAgain
    <2>4. step' = step /\ pc' # "run"
        BY <1>0, <2>2, <2>3, StepOver
    <2>5. \A a \in Attempts : a # Current => answer'[a] = answer[a]
        BY <1>0, <1>2 DEF Fails, G!Fail, TypeOK
    <2> HIDE DEF e
    <2> QED BY <2>1, <2>2, <2>3, <2>4, <2>5
<1> QED BY <1>1, <1>2

\* Every other step leaves the trace alone.
LEMMA Untraced ==
    ASSUME Inv, [Next]_vars, ~(Succeeds \/ Fails), \A t \in Writes \cup {NoTool} : ~Refuse(t)
    PROVE  /\ trace' = trace
           /\ \/ Send
              \/ /\ UNCHANGED <<asked, answer>> /\ ((pc = "run") <=> (pc' = "run"))
                 /\ pc = "run" => Current' = Current
<1>0. TypeOK /\ LoopInv
    BY DEF Inv
<1>1. ASSUME NEW n \in 0..MaxPlanSteps, Plan(n) \/ Replan(n)
      PROVE  trace' = trace /\ UNCHANGED <<asked, answer>> /\ pc # "run" /\ pc' # "run"
    BY <1>1 DEF Plan, Replan, gateway
<1>2. ASSUME NoPlan \/ Report \/ Raise
      PROVE  trace' = trace /\ UNCHANGED <<asked, answer>> /\ pc # "run" /\ pc' # "run"
    BY <1>2 DEF NoPlan, Report, Raise, gateway
<1>3. ASSUME Unusable \/ StepComplete
      PROVE  trace' = trace /\ UNCHANGED <<asked, answer>> /\ pc # "run" /\ pc' # "run"
    <2>1. /\ trace' = trace /\ UNCHANGED <<asked, answer>> /\ pc = "reply" /\ pc \in Busy
          /\ NextReply \/ EndStep(TRUE, "model") \/ EndStep(TRUE, "call")
        BY <1>3 DEF Unusable, StepComplete, gateway, Busy
    <2> QED BY <1>0, <2>1, StepOver
<1>4. ASSUME NEW t \in Tools, Execute(t)
      PROVE  trace' = trace /\ UNCHANGED <<asked, answer>> /\ pc # "run" /\ pc' # "run"
    BY <1>4 DEF Execute, gateway
<1>5. Send => trace' = trace
    BY DEF Send
<1>6. ASSUME NEW a \in Attempts, NEW works \in BOOLEAN, Land(a, works)
      PROVE  trace' = trace /\ UNCHANGED <<asked, answer, pc, step, reply, try>>
    BY <1>6 DEF Land, G!CarryOut, loop, executor
<1>7. UNCHANGED vars => trace' = trace /\ UNCHANGED <<asked, answer, pc, step, reply, try>>
    BY DEF vars
<1> QED BY <1>1, <1>2, <1>3, <1>4, <1>5, <1>6, <1>7 DEF Next, Step, Current

LEMMA TraceStep == Inv /\ [Next]_vars => TraceInv'
<1> SUFFICES ASSUME Inv, [Next]_vars PROVE TraceInv'
    OBVIOUS
<1>0. TypeOK /\ LoopInv /\ TraceInv /\ AnswerInv /\ Current \in Attempts
    BY CurrentIsAttempt DEF Inv
<1>1. ASSUME NEW t \in Writes \cup {NoTool}, Refuse(t) PROVE TraceInv'
    <2>1. PICK e \in Entries :
              /\ trace' = Append(trace, e) /\ e.try = 0 /\ e.ok = FALSE
              /\ pc = "reply" /\ pc' # "run"
              /\ UNCHANGED <<asked, answer>>
        BY <1>1, Refused
    <2>2. PICK n \in Nat :
              /\ DOMAIN trace' = DOMAIN trace \cup {n}
              /\ \A i \in DOMAIN trace : trace'[i] = trace[i] /\ At(i)' = At(i)
              /\ trace'[n] = e
        BY <1>0, <2>1, OneMoreEntry
    <2>3. \A a \in Attempts : Asked(a)' =>
              \E i \in DOMAIN trace' : At(i)' = a /\ trace'[i].tool = asked'[a]
        BY <1>0, <2>1, <2>2 DEF TraceInv, Asked
    <2>4. \A i \in DOMAIN trace' :
              IF trace'[i].try = 0 THEN ~trace'[i].ok
              ELSE /\ Asked(At(i))' /\ asked'[At(i)'] = trace'[i].tool
                   /\ trace'[i].ok => answer'[At(i)'] \in {"ok", "simulated"}
        BY <1>0, <2>1, <2>2 DEF TraceInv, Asked
    <2> QED BY <2>1, <2>3, <2>4 DEF TraceInv
<1>2. CASE Succeeds \/ Fails
    <2>1. PICK e \in Entries :
              /\ trace' = Append(trace, e) /\ <<e.step, e.reply, e.try>> = Current
              /\ e.try # 0
              /\ e.tool = tool /\ pc = "run" /\ pc' # "run"
              /\ asked' = asked
              /\ \A a \in Attempts : a # Current => answer'[a] = answer[a]
              /\ e.ok => answer'[Current] \in {"ok", "simulated"}
        BY <1>2, Answered
    <2>2. PICK n \in Nat :
              /\ DOMAIN trace' = DOMAIN trace \cup {n}
              /\ \A i \in DOMAIN trace : trace'[i] = trace[i] /\ At(i)' = At(i)
              /\ trace'[n] = e /\ At(n)' = <<e.step, e.reply, e.try>>
        BY <1>0, <2>1, OneMoreEntry
    <2>3. asked[Current] = tool /\ Asked(Current)
        BY <1>0, <2>1 DEF AnswerInv, Asked
    <2>4. \A a \in Attempts : Asked(a)' =>
              \E i \in DOMAIN trace' : At(i)' = a /\ trace'[i].tool = asked'[a]
        BY <1>0, <2>1, <2>2, <2>3 DEF TraceInv, Asked
    <2>5. ASSUME NEW i \in DOMAIN trace'
          PROVE  IF trace'[i].try = 0 THEN ~trace'[i].ok
                 ELSE /\ Asked(At(i))' /\ asked'[At(i)'] = trace'[i].tool
                      /\ trace'[i].ok => answer'[At(i)'] \in {"ok", "simulated"}
        <3>1. CASE i = n
            BY <2>1, <2>2, <2>3, <3>1 DEF Asked
        <3>2. CASE i \in DOMAIN trace /\ trace[i].try = 0
            BY <1>0, <2>2, <3>2 DEF TraceInv
        <3>3. CASE i \in DOMAIN trace /\ trace[i].try # 0
            <4>1. At(i) \in Attempts /\ At(i) # Current
                BY <1>0, <2>1, <3>3, EntryAttempt DEF TraceInv
            <4> QED BY <1>0, <2>1, <2>2, <3>3, <4>1 DEF TraceInv, Asked
        <3> QED BY <2>2, <3>1, <3>2, <3>3
    <2> QED BY <2>1, <2>4, <2>5 DEF TraceInv
<1>3. CASE ~(Succeeds \/ Fails) /\ \A t \in Writes \cup {NoTool} : ~Refuse(t)
    <2>1. /\ trace' = trace
          /\ \/ Send
             \/ /\ UNCHANGED <<asked, answer>> /\ ((pc = "run") <=> (pc' = "run"))
                /\ pc = "run" => Current' = Current
        BY <1>3, Untraced
    <2>2. \A i \in DOMAIN trace : At(i)' = At(i)
        BY <2>1 DEF At
    <2>3. CASE Send
        <3>1. /\ pc = "try" /\ pc' = "run" /\ Current' = Current
              /\ asked' = [asked EXCEPT ![Current] = tool]
            BY <2>3 DEF Send, loop, executor, Current
        <3>2. tool # NoTool /\ ~Asked(Current) /\ answer[Current] = "none"
            BY <1>0, <3>1, NextIsFresh, AgentAssumption DEF LoopInv, AnswerInv
        <3>3. \A a \in Attempts : a # Current => asked'[a] = asked[a] /\ answer'[a] = answer[a]
            BY <1>0, <2>3, <3>1 DEF TypeOK, Send, G!LetThrough, G!Withhold
        <3>4. \A i \in DOMAIN trace : trace[i].try # 0 => At(i) \in Attempts /\ At(i) # Current
            BY <1>0, <3>2, EntryAttempt DEF TraceInv
        <3> QED BY <1>0, <2>1, <2>2, <3>1, <3>2, <3>3, <3>4 DEF TraceInv, Asked
    <2>4. CASE /\ UNCHANGED <<asked, answer>> /\ ((pc = "run") <=> (pc' = "run"))
               /\ pc = "run" => Current' = Current
        BY <1>0, <2>1, <2>2, <2>4 DEF TraceInv, Asked
    <2> QED BY <2>1, <2>3, <2>4
<1> QED BY <1>1, <1>2, <1>3

\* Whatever has been sent before the call under way was sent earlier.
LEMMA OrderStep == Inv /\ [Next]_vars => OrderInv'
<1> SUFFICES ASSUME Inv, [Next]_vars PROVE OrderInv'
    OBVIOUS
<1>0. TypeOK /\ LoopInv /\ TraceInv /\ OrderInv /\ FreshInv /\ Current \in Attempts
    BY CurrentIsAttempt DEF Inv
<1>1. ASSUME NEW t \in Writes \cup {NoTool}, Refuse(t) PROVE OrderInv'
    <2>1. PICK e \in Entries : trace' = Append(trace, e) /\ e.try = 0
        BY <1>1, Refused
    <2>2. PICK n \in Nat :
              /\ DOMAIN trace' = DOMAIN trace \cup {n}
              /\ \A i \in DOMAIN trace : trace'[i] = trace[i] /\ At(i)' = At(i)
              /\ trace'[n] = e
        BY <1>0, <2>1, OneMoreEntry
    <2> QED BY <1>0, <2>1, <2>2 DEF OrderInv, Earlier
<1>2. CASE Succeeds \/ Fails
    <2>1. PICK e \in Entries :
              /\ trace' = Append(trace, e) /\ <<e.step, e.reply, e.try>> = Current
              /\ pc = "run"
        BY <1>2, Answered
    <2>2. PICK n \in Nat :
              /\ DOMAIN trace' = DOMAIN trace \cup {n} /\ DOMAIN trace \subseteq 1..(n - 1)
              /\ \A i \in DOMAIN trace : trace'[i] = trace[i] /\ At(i)' = At(i)
              /\ trace'[n] = e /\ At(n)' = <<e.step, e.reply, e.try>>
        BY <1>0, <2>1, OneMoreEntry
    <2>3. ASSUME NEW i \in DOMAIN trace, trace[i].try # 0 PROVE Earlier(At(i), Current)
        <3> DEFINE a == At(i)
        <3>1. a \in Attempts /\ Asked(a) /\ a # Current
            BY <1>0, <2>1, <2>3, EntryAttempt DEF TraceInv
        <3>2. /\ a = <<a[1], a[2], a[3]>> /\ a[1] \in Nat /\ a[2] \in Nat /\ a[3] \in Nat
            BY <3>1, AttemptParts, AgentAssumption
        <3>3. /\ a[1] <= step /\ (a[1] = step => a[2] <= reply)
              /\ (a[1] = step /\ a[2] = reply => a[3] <= try)
            BY <1>0, <2>1, <3>1 DEF FreshInv, Busy
        <3>4. step \in Nat /\ reply \in Nat /\ try \in Nat
            BY <1>0, AgentAssumption DEF TypeOK
        <3>5. Current[1] = step /\ Current[2] = reply /\ Current[3] = try
            BY DEF Current
        <3>6. ~(a[1] = step /\ a[2] = reply /\ a[3] = try)
            BY <3>1, <3>2 DEF Current
        <3> HIDE DEF a
        <3>7. Earlier(a, Current)
            BY <3>2, <3>3, <3>4, <3>5, <3>6 DEF Earlier
        <3> QED BY <3>7 DEF a
    <2>4. ASSUME NEW i \in DOMAIN trace', NEW j \in DOMAIN trace', i < j,
                 trace'[i].try # 0, trace'[j].try # 0
          PROVE  Earlier(At(i)', At(j)')
        <3>1. i \in DOMAIN trace
            BY <2>2, <2>4
        <3>2. CASE j = n
            BY <2>1, <2>2, <2>3, <2>4, <3>1, <3>2
        <3>3. CASE j \in DOMAIN trace
            BY <1>0, <2>2, <2>4, <3>1, <3>3 DEF OrderInv
        <3> QED BY <2>2, <3>2, <3>3
    <2> QED BY <2>4 DEF OrderInv, Earlier
<1>3. CASE ~(Succeeds \/ Fails) /\ \A t \in Writes \cup {NoTool} : ~Refuse(t)
    BY <1>0, <1>3, Untraced DEF OrderInv, At, Earlier
<1> QED BY <1>1, <1>2, <1>3

\* A step that ends without a successful call ends with another kind of result.
LEMMA Recorded ==
    ASSUME TypeOK, LoopInv, pc \in Busy, NextReply \/ EndStep(TRUE, "model")
    PROVE  \/ results' = results
           \/ \E r \in Results : r.step = step /\ r.by # "call" /\ results' = Append(results, r)
<1>1. ASSUME NEW completed \in BOOLEAN, NEW by \in {"model", "nobody"}, EndStep(completed, by)
      PROVE  \E r \in Results : r.step = step /\ r.by # "call" /\ results' = Append(results, r)
    <2> DEFINE r == [step |-> step, completed |-> completed, by |-> by]
    <2>1. r \in Results /\ r.step = step /\ r.by # "call"
        BY DEF TypeOK, Results
    <2>2. results' = Append(results, r)
        BY <1>1 DEF EndStep
    <2> HIDE DEF r
    <2> QED BY <2>1, <2>2
<1>2. CASE NextReply /\ reply = MaxReplies
    <2>1. EndStep(FALSE, "nobody")
        BY <1>2 DEF NextReply
    <2> QED BY <1>1, <2>1
<1>3. CASE NextReply /\ reply # MaxReplies
    BY <1>3 DEF NextReply
<1>4. CASE EndStep(TRUE, "model")
    BY <1>1, <1>4
<1> QED BY <1>2, <1>3, <1>4

\* Reading a record that has grown by the result of the step.
LEMMA OneMoreResult ==
    ASSUME TypeOK, Len(results) = step - 1, NEW r, results' = Append(results, r)
    PROVE  /\ DOMAIN results = 1..(step - 1) /\ DOMAIN results' = 1..step
           /\ \A i \in 1..(step - 1) : results'[i] = results[i]
           /\ results'[step] = r
           /\ step \in Nat \ {0}
<1>1. results \in Seq(Results) /\ step \in Nat \ {0}
    BY AgentAssumption DEF TypeOK
<1> QED BY <1>1

LEMMA RecordKept ==
    ASSUME Inv,
           \/ trace' = trace
           \/ /\ Len(results) = step - 1
              /\ \E e \in Entries : e.step = step /\ ~e.ok /\ trace' = Append(trace, e),
           \/ results' = results
           \/ /\ Len(results) = step - 1
              /\ \E r \in Results : r.step = step /\ r.by # "call" /\ results' = Append(results, r)
    PROVE  RecordMatchesTrace'
<1>0. TypeOK /\ RecordMatchesTrace
    BY DEF Inv
<1>1. \A s : OkEntries(s)' = OkEntries(s)
    <2>1. CASE trace' = trace
        BY <2>1 DEF OkEntries
    <2>2. ASSUME NEW e \in Entries, e.step = step, ~e.ok, trace' = Append(trace, e)
          PROVE  \A s : OkEntries(s)' = OkEntries(s)
        <3>1. PICK n \in Nat :
                  /\ DOMAIN trace' = DOMAIN trace \cup {n}
                  /\ \A i \in DOMAIN trace : trace'[i] = trace[i]
                  /\ trace'[n] = e
            BY <1>0, <2>2, OneMoreEntry
        <3> QED BY <2>2, <3>1 DEF OkEntries
    <2> QED BY <2>1, <2>2
<1>2. \A s \in DOMAIN results : LastEntry(s)' = LastEntry(s)
    <2>1. CASE trace' = trace
        BY <2>1 DEF LastEntry
    <2>2. ASSUME NEW e \in Entries, e.step = step, trace' = Append(trace, e),
                 Len(results) = step - 1, NEW s \in DOMAIN results
          PROVE  LastEntry(s)' = LastEntry(s)
        <3>1. PICK n \in Nat :
                  /\ DOMAIN trace' = DOMAIN trace \cup {n}
                  /\ \A i \in DOMAIN trace : trace'[i] = trace[i]
                  /\ trace'[n] = e
            BY <1>0, <2>2, OneMoreEntry
        <3>2. s # step
            BY <1>0, <2>2, AgentAssumption DEF TypeOK
        <3> QED BY <2>2, <3>1, <3>2 DEF LastEntry
    <2> QED BY <2>1, <2>2
<1>3. /\ \A i \in DOMAIN results' : results'[i].step = i
      /\ \A s : (s \in DOMAIN results' /\ results'[s].by = "call")
                  <=> (s \in DOMAIN results /\ results[s].by = "call")
    <2>1. CASE results' = results
        BY <1>0, <2>1 DEF RecordMatchesTrace
    <2>2. ASSUME NEW r \in Results, r.step = step, r.by # "call", Len(results) = step - 1,
                 results' = Append(results, r)
          PROVE  /\ \A i \in DOMAIN results' : results'[i].step = i
                 /\ \A s : (s \in DOMAIN results' /\ results'[s].by = "call")
                             <=> (s \in DOMAIN results /\ results[s].by = "call")
        <3>1. /\ DOMAIN results = 1..(step - 1) /\ DOMAIN results' = 1..step
              /\ \A i \in 1..(step - 1) : results'[i] = results[i]
              /\ results'[step] = r
              /\ step \in Nat \ {0}
            BY <1>0, <2>2, OneMoreResult
        <3>2. \A i \in DOMAIN results' : i \in 1..(step - 1) \/ i = step
            BY <3>1
        <3>3. 1..(step - 1) \subseteq DOMAIN results' /\ step \notin DOMAIN results
            BY <3>1
        <3> QED BY <1>0, <2>2, <3>1, <3>2, <3>3 DEF RecordMatchesTrace
    <2> QED BY <2>1, <2>2
<1>4. ASSUME NEW s \in 1..MaxTotalSteps
      PROVE  OkEntries(s)' = IF s \in DOMAIN results' /\ results'[s].by = "call"
                             THEN LastEntry(s)' ELSE {}
    <2>1. OkEntries(s) = IF s \in DOMAIN results /\ results[s].by = "call" THEN LastEntry(s) ELSE {}
        BY <1>0 DEF RecordMatchesTrace
    <2> QED BY <1>1, <1>2, <1>3, <2>1
<1> QED BY <1>3, <1>4 DEF RecordMatchesTrace

LEMMA RecordStep == Inv /\ [Next]_vars => RecordMatchesTrace'
<1> SUFFICES ASSUME Inv, [Next]_vars PROVE RecordMatchesTrace'
    OBVIOUS
<1>0. TypeOK /\ LoopInv /\ RecordMatchesTrace
    BY DEF Inv
<1>1. ASSUME NEW t \in Writes \cup {NoTool}, Refuse(t) PROVE RecordMatchesTrace'
    <2>1. PICK e \in Entries :
              /\ trace' = Append(trace, e) /\ e.step = step /\ e.ok = FALSE
              /\ pc = "reply" /\ NextReply
        BY <1>1, Refused
    <2>2. Len(results) = step - 1 /\ pc \in Busy
        BY <1>0, <2>1 DEF LoopInv, Busy
    <2> QED BY <1>0, <2>1, <2>2, Recorded, RecordKept
<1>2. CASE Succeeds \/ Fails
    <2>1. PICK e \in Entries :
              /\ trace' = Append(trace, e) /\ e.step = step /\ pc = "run"
              /\ e.ok => EndStep(TRUE, "call")
              /\ ~e.ok => NextReply \/ UNCHANGED <<results, left, step>>
        BY <1>2, Answered
    <2>2. Len(results) = step - 1 /\ pc \in Busy
        BY <1>0, <2>1 DEF LoopInv, Busy
    <2>3. CASE ~e.ok
        BY <1>0, <2>1, <2>2, <2>3, Recorded, RecordKept
    <2>4. CASE e.ok
        <3> DEFINE r == [step |-> step, completed |-> TRUE, by |-> "call"]
        <3>1. results' = Append(results, r) /\ r.step = step /\ r.by = "call"
            BY <2>1, <2>4 DEF EndStep
        <3> HIDE DEF r
        <3>2. /\ DOMAIN results = 1..(step - 1) /\ DOMAIN results' = 1..step
              /\ \A i \in 1..(step - 1) : results'[i] = results[i]
              /\ results'[step] = r
              /\ step \in Nat \ {0}
            BY <1>0, <2>2, <3>1, OneMoreResult
        <3>3. /\ \A i \in 1..step : i \in 1..(step - 1) \/ i = step
              /\ 1..(step - 1) \subseteq 1..step /\ step \notin 1..(step - 1)
            BY <3>2
        <3>4. \A i \in DOMAIN results' : results'[i].step = i
            BY <1>0, <3>1, <3>2, <3>3 DEF RecordMatchesTrace
        <3>5. PICK n \in Nat :
                  /\ DOMAIN trace' = DOMAIN trace \cup {n} /\ DOMAIN trace \subseteq 1..(n - 1)
                  /\ \A i \in DOMAIN trace : trace'[i] = trace[i]
                  /\ trace'[n] = e
            BY <1>0, <2>1, OneMoreEntry
        <3>6. n \notin DOMAIN trace /\ \A i \in DOMAIN trace : i < n
            BY <3>5
        <3>7. ASSUME NEW s \in 1..MaxTotalSteps
              PROVE  OkEntries(s)' = IF s \in DOMAIN results' /\ results'[s].by = "call"
                                     THEN LastEntry(s)' ELSE {}
            <4>0. OkEntries(s) = IF s \in DOMAIN results /\ results[s].by = "call"
                                 THEN LastEntry(s) ELSE {}
                BY <1>0 DEF RecordMatchesTrace
            <4>1. CASE s = step
                <5>1. OkEntries(s) = {}
                    BY <3>2, <3>3, <4>0, <4>1
                <5>2. OkEntries(s)' = {n}
                    BY <2>1, <2>4, <3>5, <4>1, <5>1 DEF OkEntries
                <5>3. LastEntry(s)' = {n}
                    BY <2>1, <3>5, <3>6, <4>1 DEF LastEntry
                <5> QED BY <3>1, <3>2, <4>1, <5>2, <5>3
            <4>2. CASE s # step
                <5>1. OkEntries(s)' = OkEntries(s) /\ LastEntry(s)' = LastEntry(s)
                    BY <2>1, <3>5, <4>2 DEF OkEntries, LastEntry
                <5>2. (s \in DOMAIN results') <=> (s \in DOMAIN results)
                    BY <3>2, <3>3, <4>2
                <5>3. s \in DOMAIN results => results'[s] = results[s]
                    BY <3>2
                <5> QED BY <4>0, <5>1, <5>2, <5>3
            <4> QED BY <4>1, <4>2
        <3> QED BY <3>4, <3>7 DEF RecordMatchesTrace
    <2> QED BY <2>3, <2>4
<1>3. CASE ~(Succeeds \/ Fails) /\ \A t \in Writes \cup {NoTool} : ~Refuse(t)
    <2>1. trace' = trace
        BY <1>3, Untraced
    <2>2. \/ results' = results
          \/ /\ Len(results) = step - 1
             /\ \E r \in Results : r.step = step /\ r.by # "call" /\ results' = Append(results, r)
        <3>1. CASE Unusable \/ StepComplete
            <4>1. pc \in Busy /\ (NextReply \/ EndStep(TRUE, "model"))
                BY <3>1 DEF Unusable, StepComplete, Busy
            <4> QED BY <1>0, <4>1, Recorded DEF LoopInv
        <3>2. ASSUME NEW n \in 0..MaxPlanSteps, Plan(n) \/ Replan(n) PROVE results' = results
            BY <3>2 DEF Plan, Replan
        <3>3. NoPlan \/ Report \/ Raise => results' = results
            BY DEF NoPlan, Report, Raise
        <3>4. ASSUME NEW t \in Tools, Execute(t) PROVE results' = results
            BY <3>4 DEF Execute
        <3>5. Send => results' = results
            BY DEF Send, loop
        <3>6. ASSUME NEW a \in Attempts, NEW works \in BOOLEAN, Land(a, works)
              PROVE  results' = results
            BY <3>6 DEF Land
        <3>7. UNCHANGED vars => results' = results
            BY DEF vars
        <3> QED BY <1>3, <3>1, <3>2, <3>3, <3>4, <3>5, <3>6, <3>7 DEF Next, Step
    <2> QED BY <2>1, <2>2, RecordKept
<1> QED BY <1>1, <1>2, <1>3

----------------------------------------------------------------------------

LEMMA Invariance == Spec => []Inv
<1>1. Inv /\ [Next]_vars => Inv'
    BY TypeStep, LoopStep, FreshStep, AnswerStep, RetryStep, TraceStep, OrderStep, RecordStep
    DEF Inv
<1> QED BY <1>1, InitInv, PTL DEF Spec

\* Every reachable state is well typed: in particular no loop of chat(), of a step
\* or of the executor goes over its budget.
THEOREM TypeCorrect == Spec => []TypeOK
<1>1. Inv => TypeOK
    BY DEF Inv
<1> QED BY <1>1, Invariance, PTL

\* What chat() records of its steps is what the executor's trace shows of them.
THEOREM RecordIsTrue == Spec => []RecordMatchesTrace
<1>1. Inv => RecordMatchesTrace
    BY DEF Inv
<1> QED BY <1>1, Invariance, PTL

\* The executor repeats a write only when its run() raised: of two attempts that were both
\* carried out, however late, the first is one that raised.
THEOREM OnlyRaisesRepeatWrites == Spec => []WritesRepeatAfterRaiseOnly
<1>1. ASSUME Inv PROVE WritesRepeatAfterRaiseOnly
    <2>1. SUFFICES ASSUME NEW a \in Attempts, NEW b \in Attempts, a[1] = b[1], a[2] = b[2],
                          a[3] < b[3], asked[b] \in Writes
                   PROVE  a \in raised
        BY DEF WritesRepeatAfterRaiseOnly
    <2>2. a = <<a[1], a[2], a[3]>> /\ a[3] \in 1..MaxTries
        BY AttemptParts
    <2>3. <<b[1], b[2], a[3]>> \in raised
        BY <1>1, <2>1, <2>2 DEF Inv, RetryInv
    <2> QED BY <2>1, <2>2, <2>3
<1> QED BY <1>1, Invariance, PTL

\* Every call that was carried out, early or late, is in the trace.
THEOREM TraceIsComplete == Spec => []EffectsAreTraced
<1>1. ASSUME Inv PROVE EffectsAreTraced
    <2>1. SUFFICES ASSUME NEW a \in Attempts, times[a] = 1
                   PROVE  EntryOf(a) # {} \/ (pc = "run" /\ a = Current)
        BY DEF EffectsAreTraced
    <2>2. Asked(a)
        BY <1>1, <2>1 DEF Inv, AnswerInv
    <2> QED BY <1>1, <2>2 DEF Inv, TraceInv, EntryOf, At
<1> QED BY <1>1, Invariance, PTL

\* The checks that main() prints say what happened.
THEOREM ChecksTell == Spec => []ChecksAreTrue
<1>1. ASSUME Inv, pc = "done"
      PROVE  /\ Published => \E a \in worked : asked[a] = Post
             /\ PostCallOk /\ ~Published => \A a \in Attempts : asked[a] = Post => times[a] = 0
             /\ AttemptedWrites = {} => \A a \in Attempts : times[a] = 1 => asked[a] \in Reads
             /\ AttemptedWrites # {} /\ ReadBeforeWrite =>
                   \A a \in Attempts : times[a] = 1 /\ asked[a] \in Writes =>
                       \E b \in Attempts : Earlier(b, a) /\ asked[b] \in Reads /\ answer[b] = "ok"
    <2>0. TypeOK /\ AnswerInv /\ TraceInv /\ OrderInv /\ AgentAssumption
        BY <1>1, AgentAssumption DEF Inv
    <2>1. ASSUME NEW i \in DOMAIN trace, trace[i].ok
          PROVE  /\ trace[i].try # 0 /\ At(i) \in Attempts /\ asked[At(i)] = trace[i].tool
                 /\ answer[At(i)] \in {"ok", "simulated"}
        BY <2>0, <2>1, EntryAttempt DEF TraceInv
    <2>2. ASSUME Published PROVE \E a \in worked : asked[a] = Post
        <3>1. PICK i \in DOMAIN trace : trace[i].tool = Post /\ trace[i].ok
            BY <2>2 DEF Published, PostCallOk
        <3>2. answer[At(i)] = "ok"
            BY <2>0, <2>1, <2>2, <3>1 DEF AnswerInv, Published
        <3>3. At(i) \in worked
            BY <2>0, <2>1, <3>1, <3>2 DEF AnswerInv, AgentAssumption
        <3> QED BY <2>1, <3>1, <3>3
    <2>3. ASSUME PostCallOk, ~Published, NEW a \in Attempts, asked[a] = Post PROVE times[a] = 0
        <3>1. answer[a] \in {"refused", "simulated"}
            BY <2>0, <2>3 DEF AnswerInv, Published, AgentAssumption
        <3> QED BY <2>0, <3>1 DEF AnswerInv, TypeOK
    <2>4. ASSUME NEW a \in Attempts, times[a] = 1
          PROVE  /\ asked[a] \in Tools
                 /\ \E i \in DOMAIN trace : At(i) = a /\ trace[i].tool = asked[a]
        BY <1>1, <2>0, <2>4 DEF AnswerInv, TraceInv, Asked, TypeOK
    <2>5. ASSUME AttemptedWrites = {}, NEW a \in Attempts, times[a] = 1 PROVE asked[a] \in Reads
        BY <2>4, <2>5 DEF AttemptedWrites, Tools
    <2>6. ASSUME ReadBeforeWrite, NEW a \in Attempts, times[a] = 1, asked[a] \in Writes
          PROVE  \E b \in Attempts : Earlier(b, a) /\ asked[b] \in Reads /\ answer[b] = "ok"
        <3>1. PICK i \in DOMAIN trace : /\ trace[i].tool \in Reads /\ trace[i].ok
                                        /\ \A w \in AttemptedWrites : i < w
            BY <2>6 DEF ReadBeforeWrite
        <3>2. PICK j \in DOMAIN trace : At(j) = a /\ trace[j].tool = asked[a]
            BY <2>4, <2>6
        <3>3. i < j
            BY <2>6, <3>1, <3>2 DEF AttemptedWrites
        <3>4. trace[j].try # 0
            <4>1. a[3] \in Nat \ {0}
                BY <2>0, AttemptParts DEF AgentAssumption
            <4> QED BY <3>2, <4>1 DEF At
        <3>5. Earlier(At(i), a)
            BY <2>0, <2>1, <3>1, <3>2, <3>3, <3>4 DEF OrderInv
        <3>6. answer[At(i)] = "ok"
            BY <2>0, <2>1, <3>1 DEF AnswerInv, AgentAssumption
        <3> QED BY <2>1, <3>1, <3>5, <3>6
    <2> QED BY <2>2, <2>3, <2>5, <2>6
<1>2. Inv => ChecksAreTrue
    BY <1>1 DEF ChecksAreTrue
<1> QED BY <1>2, Invariance, PTL

----------------------------------------------------------------------------
(* chat() ends: the safety half of ChatReturns.                              *)

\* How far chat() has come: each of its steps takes it further, and Budget is the end.
ReplySize == 2 * MaxTries + 1
StepSize == MaxReplies * ReplySize + 1
Budget == MaxTotalSteps * StepSize + 2

InReply == IF pc = "try" THEN 2 * try - 1 ELSE IF pc = "run" THEN 2 * try ELSE 0
InStep == IF pc = "replan" THEN MaxReplies * ReplySize ELSE (reply - 1) * ReplySize + InReply
Position ==
    IF pc = "plan" THEN 0
    ELSE IF pc \in Busy \cup {"replan"} THEN (step - 1) * StepSize + InStep + 1
    ELSE IF pc = "report" THEN Budget - 1 ELSE Budget

LEMMA Multiples ==
    ASSUME NEW n \in Nat
    PROVE  /\ \A i \in Nat : i * n \in Nat /\ (i + 1) * n = i * n + n
           /\ \A i, j \in Nat : i <= j => i * n <= j * n
           /\ 0 * n = 0
<1>1. \A i \in Nat : i * n \in Nat /\ (i + 1) * n = i * n + n
    OBVIOUS
<1>2. ASSUME NEW i \in Nat, NEW j \in Nat, i <= j PROVE i * n <= j * n
    <2>1. j - i \in Nat /\ (j - i) * n \in Nat
        BY <1>1, <1>2
    <2>2. j * n = i * n + (j - i) * n
        BY <1>2
    <2> QED BY <1>1, <2>1, <2>2
<1> QED BY <1>1, <1>2

LEMMA Sizes ==
    /\ ReplySize \in Nat /\ ReplySize = 2 * MaxTries + 1
    /\ MaxReplies * ReplySize \in Nat
    /\ StepSize \in Nat /\ StepSize = MaxReplies * ReplySize + 1
    /\ MaxTotalSteps * StepSize \in Nat
    /\ Budget \in Nat /\ Budget = MaxTotalSteps * StepSize + 2
<1>1. ReplySize \in Nat
    BY AgentAssumption DEF ReplySize
<1>2. MaxReplies * ReplySize \in Nat
    BY <1>1, Multiples, AgentAssumption
<1>3. StepSize \in Nat
    BY <1>2 DEF StepSize
<1>4. MaxTotalSteps * StepSize \in Nat
    BY <1>3, Multiples, AgentAssumption
<1> QED BY <1>1, <1>2, <1>3, <1>4 DEF ReplySize, StepSize, Budget

\* A place in a step, whichever reply it is in, is before the next reply and before the
\* replanner; a place in the loop is before the next step and before the report.
LEMMA Places ==
    ASSUME NEW s \in 1..MaxTotalSteps, NEW r \in 1..MaxReplies
    PROVE  /\ (r - 1) * ReplySize \in Nat
           /\ r # MaxReplies => r * ReplySize = (r - 1) * ReplySize + ReplySize
           /\ (r - 1) * ReplySize + ReplySize <= MaxReplies * ReplySize
           /\ (s - 1) * StepSize \in Nat
           /\ s * StepSize = (s - 1) * StepSize + StepSize
           /\ s * StepSize <= MaxTotalSteps * StepSize
<1>1. ReplySize \in Nat /\ StepSize \in Nat
    BY Sizes
<1>2. r \in Nat /\ r - 1 \in Nat /\ r <= MaxReplies /\ MaxReplies \in Nat
      /\ s \in Nat /\ s - 1 \in Nat /\ s <= MaxTotalSteps /\ MaxTotalSteps \in Nat
    BY AgentAssumption
<1>3. /\ (r - 1) * ReplySize \in Nat
      /\ ((r - 1) + 1) * ReplySize = (r - 1) * ReplySize + ReplySize
      /\ r * ReplySize <= MaxReplies * ReplySize
    BY <1>1, <1>2, Multiples
<1>4. /\ (s - 1) * StepSize \in Nat
      /\ ((s - 1) + 1) * StepSize = (s - 1) * StepSize + StepSize
      /\ s * StepSize <= MaxTotalSteps * StepSize
    BY <1>1, <1>2, Multiples
<1>5. (r - 1) + 1 = r /\ (s - 1) + 1 = s
    BY <1>2
<1> QED BY <1>3, <1>4, <1>5

LEMMA InStepRange ==
    ASSUME TypeOK, pc \in Busy
    PROVE  /\ InReply \in Nat /\ InReply < ReplySize
           /\ InStep = (reply - 1) * ReplySize + InReply
           /\ InStep \in Nat /\ InStep < MaxReplies * ReplySize
<1>1. /\ (reply - 1) * ReplySize \in Nat
      /\ (reply - 1) * ReplySize + ReplySize <= MaxReplies * ReplySize
    <2>1. \E s \in 1..MaxTotalSteps : TRUE
        BY AgentAssumption
    <2> QED BY <2>1, Places DEF TypeOK
<1>2. InReply \in Nat /\ InReply < ReplySize
    BY Sizes, AgentAssumption DEF TypeOK, InReply, Busy
<1>3. InStep = (reply - 1) * ReplySize + InReply
    BY DEF InStep, Busy
<1> HIDE DEF InStep, InReply
<1> QED BY <1>1, <1>2, <1>3, Sizes

LEMMA PositionRange == TypeOK => Position \in 0..Budget
<1> SUFFICES ASSUME TypeOK PROVE Position \in 0..Budget
    OBVIOUS
<1>1. /\ (step - 1) * StepSize \in Nat
      /\ (step - 1) * StepSize + StepSize <= MaxTotalSteps * StepSize
    BY Places DEF TypeOK
<1>2. CASE pc \in Busy
    <2>1. Position = (step - 1) * StepSize + InStep + 1
        BY <1>2 DEF Position, Busy
    <2> QED BY <1>1, <1>2, <2>1, InStepRange, Sizes
<1>3. CASE pc = "replan"
    <2>1. Position = (step - 1) * StepSize + MaxReplies * ReplySize + 1
        BY <1>3, Sizes DEF Position, InStep
    <2> QED BY <1>1, <2>1, Sizes
<1>4. CASE pc \notin Busy \cup {"replan"}
    BY <1>4, Sizes DEF Position
<1> QED BY <1>2, <1>3, <1>4

LEMMA InLoopRange ==
    ASSUME TypeOK, pc \in Busy \cup {"replan"}
    PROVE  /\ Position = (step - 1) * StepSize + InStep + 1
           /\ InStep \in Nat /\ InStep <= MaxReplies * ReplySize
           /\ Position \in Nat /\ Position > 0 /\ Position < Budget - 1
<1>1. /\ (step - 1) * StepSize \in Nat
      /\ (step - 1) * StepSize + StepSize <= MaxTotalSteps * StepSize
    BY Places DEF TypeOK
<1>2. Position = (step - 1) * StepSize + InStep + 1
    BY DEF Position, Busy
<1>3. InStep \in Nat /\ InStep <= MaxReplies * ReplySize
    <2>1. CASE pc \in Busy
        BY <2>1, InStepRange, Sizes
    <2>2. CASE pc = "replan"
        BY <2>2, Sizes DEF InStep
    <2> QED BY <2>1, <2>2
<1> HIDE DEF InStep, Position
<1> QED BY <1>1, <1>2, <1>3, Sizes

LEMMA ReportIsNext == pc \in {"report", "done", "no_plan", "raised"} =>
    Position = IF pc = "report" THEN Budget - 1 ELSE Budget
BY DEF Position, Busy

LEMMA StepOverAdvances ==
    ASSUME TypeOK, TypeOK', LoopInv, pc \in Busy,
           NextReply \/ EndStep(TRUE, "model") \/ EndStep(TRUE, "call")
    PROVE  Position' > Position
<1>1. /\ step' = step
      /\ \/ pc' = "reply" /\ reply # MaxReplies /\ reply' = reply + 1
         \/ pc' \in {"report", "replan"}
    BY StepOver
<1>2. /\ Position = (step - 1) * StepSize + InStep + 1
      /\ InStep = (reply - 1) * ReplySize + InReply
      /\ InReply < ReplySize /\ InReply \in Nat
      /\ InStep \in Nat /\ InStep < MaxReplies * ReplySize
      /\ Position < Budget - 1 /\ Position \in Nat
    BY InStepRange, InLoopRange
<1>3. (step - 1) * StepSize \in Nat /\ (reply - 1) * ReplySize \in Nat
    BY Places DEF TypeOK
<1>4. CASE pc' = "reply"
    <2>1. reply # MaxReplies /\ reply' = reply + 1
        BY <1>1, <1>4
    <2>2. reply * ReplySize = (reply - 1) * ReplySize + ReplySize
        BY <2>1, Places DEF TypeOK
    <2>3. (reply + 1) - 1 = reply
        BY DEF TypeOK
    <2>4. InStep' = reply * ReplySize + 0
        BY <1>4, <2>1, <2>3 DEF InStep, InReply
    <2>5. Position' = (step - 1) * StepSize + InStep' + 1
        BY <1>1, <1>4 DEF Position, Busy
    <2> QED BY <1>2, <1>3, <2>2, <2>4, <2>5, Sizes
<1>5. CASE pc' = "replan"
    <2>1. InStep' = MaxReplies * ReplySize
        BY <1>5 DEF InStep
    <2>2. Position' = (step - 1) * StepSize + InStep' + 1
        BY <1>1, <1>5 DEF Position
    <2> QED BY <1>2, <1>3, <2>1, <2>2, Sizes
<1>6. CASE pc' = "report"
    <2>1. Position' = Budget - 1
        BY <1>6 DEF Position, Busy
    <2> QED BY <1>2, <2>1, Sizes
<1> QED BY <1>1, <1>4, <1>5, <1>6

\* Within a reply: the call is sent, and answered or sent again.
LEMMA WithinReply ==
    ASSUME TypeOK, TypeOK', pc \in Busy, pc' \in Busy, step' = step, reply' = reply,
           InReply' > InReply
    PROVE  Position' > Position
<1>1. /\ Position = (step - 1) * StepSize + InStep + 1
      /\ InStep = (reply - 1) * ReplySize + InReply /\ InReply \in Nat
    BY InStepRange, InLoopRange
<1>2. /\ Position' = (step - 1) * StepSize + InStep' + 1
      /\ InStep' = (reply - 1) * ReplySize + InReply'
    BY DEF Position, InStep, Busy
<1>3. (step - 1) * StepSize \in Nat /\ (reply - 1) * ReplySize \in Nat
    BY Places DEF TypeOK
<1>4. InReply' \in Nat
    <2>1. try' \in Nat /\ try' >= 1
        BY AgentAssumption DEF TypeOK
    <2>2. \A x \in Nat : x >= 1 => 2 * x \in Nat /\ 2 * x - 1 \in Nat
        OBVIOUS
    <2>3. InReply' = IF pc' = "try" THEN 2 * try' - 1 ELSE IF pc' = "run" THEN 2 * try' ELSE 0
        BY DEF InReply
    <2>4. 2 * try' \in Nat /\ 2 * try' - 1 \in Nat
        BY <2>1, <2>2
    <2> QED BY <2>3, <2>4
<1> HIDE DEF InStep, InReply, Position
<1> QED BY <1>1, <1>2, <1>3, <1>4

LEMMA ReplanAdvances ==
    ASSUME TypeOK, TypeOK', NEW n \in 0..MaxPlanSteps, Plan(n) \/ Replan(n)
    PROVE  Position' > Position
<1>1. CASE Plan(n)
    <2>1. Position = 0
        BY <1>1 DEF Plan, Position
    <2>2. CASE pc' = "reply"
        <3>1. pc' \in Busy \cup {"replan"}
            BY <2>2 DEF Busy
        <3>2. Position' \in Nat /\ Position' > 0
            <4>1. /\ (step' - 1) * StepSize \in Nat /\ (reply' - 1) * ReplySize \in Nat
                BY Places DEF TypeOK
            <4>2. Position' = (step' - 1) * StepSize + InStep' + 1
                BY <3>1 DEF Position, Busy
            <4>3. InStep' = (reply' - 1) * ReplySize + 0
                BY <2>2 DEF InStep, InReply
            <4> QED BY <4>1, <4>2, <4>3
        <3> QED BY <2>1, <3>2
    <2>3. CASE pc' = "report"
        BY <2>1, <2>3, Sizes DEF Position, Busy
    <2> QED BY <1>1, <2>2, <2>3 DEF Plan
<1>2. CASE Replan(n)
    <2>1. /\ Position = (step - 1) * StepSize + InStep + 1 /\ Position < Budget - 1
          /\ InStep \in Nat /\ InStep <= MaxReplies * ReplySize /\ Position \in Nat
        BY <1>2, InLoopRange DEF Replan
    <2>2. CASE pc' = "report"
        <3>1. Position' = Budget - 1
            BY <2>2 DEF Position, Busy
        <3> QED BY <2>1, <3>1, Sizes
    <2>3. CASE pc' = "reply"
        <3>1. step' = step + 1 /\ reply' = 1
            BY <1>2, <2>3 DEF Replan
        <3>2. /\ (step - 1) * StepSize \in Nat
              /\ step * StepSize = (step - 1) * StepSize + StepSize
            BY Places DEF TypeOK
        <3>3. (step + 1) - 1 = step /\ (1 - 1) * ReplySize = 0
            BY Multiples, Sizes DEF TypeOK
        <3>4. InStep' = 0
            BY <2>3, <3>1, <3>3 DEF InStep, InReply
        <3>5. Position' = step * StepSize + 0 + 1
            BY <2>3, <3>1, <3>3, <3>4 DEF Position, Busy
        <3> QED BY <2>1, <3>2, <3>5, Sizes
    <2> QED BY <1>2, <2>2, <2>3 DEF Replan
<1> QED BY <1>1, <1>2

LEMMA StepAdvances ==
    ASSUME Inv, TypeOK', Step
    PROVE  Position' > Position
<1>0. TypeOK /\ LoopInv
    BY DEF Inv
<1>1. ASSUME NEW n \in 0..MaxPlanSteps, Plan(n) \/ Replan(n) PROVE Position' > Position
    BY <1>0, <1>1, ReplanAdvances
<1>2. CASE NoPlan \/ Report \/ Raise
    <2>1. pc \in {"plan", "reply", "replan", "report"} /\ pc' \in {"done", "no_plan", "raised"}
        BY <1>2 DEF NoPlan, Report, Raise
    <2>2. Position' = Budget
        BY <2>1 DEF Position, Busy
    <2>3. CASE pc = "plan"
        BY <2>2, <2>3, Sizes DEF Position
    <2>4. CASE pc = "report"
        BY <2>2, <2>4, Sizes, ReportIsNext
    <2>5. CASE pc \in {"reply", "replan"}
        <3>1. Position \in Nat /\ Position < Budget - 1
            BY <1>0, <2>5, InLoopRange DEF Busy
        <3> QED BY <2>2, <3>1, Sizes
    <2> QED BY <2>1, <2>3, <2>4, <2>5
<1>3. CASE Unusable \/ StepComplete \/ Succeeds
    <2>1. pc \in Busy /\ (NextReply \/ EndStep(TRUE, "model") \/ EndStep(TRUE, "call"))
        BY <1>3 DEF Unusable, StepComplete, Succeeds, Busy
    <2> QED BY <1>0, <2>1, StepOverAdvances
<1>4. ASSUME NEW t \in Writes \cup {NoTool}, Refuse(t) PROVE Position' > Position
    BY <1>0, <1>4, StepOverAdvances DEF Refuse, Busy
<1>5. ASSUME NEW t \in Tools, Execute(t) PROVE Position' > Position
    <2>1. InReply' > InReply
        BY <1>5 DEF Execute, InReply
    <2> QED BY <1>0, <1>5, <2>1, WithinReply DEF Execute, Busy, loop
<1>6. CASE Send
    <2>1. InReply' > InReply
        BY <1>0, <1>6 DEF Send, InReply, executor, TypeOK
    <2> QED BY <1>0, <1>6, <2>1, WithinReply DEF Send, Busy, loop
<1>7. CASE Fails
    <2>1. CASE TryAgain
        <3>1. InReply' > InReply
            BY <1>0, <1>7, <2>1 DEF Fails, TryAgain, InReply, TypeOK
        <3> QED BY <1>0, <1>7, <2>1, <3>1, WithinReply DEF Fails, TryAgain, Busy
    <2>2. CASE NextReply
        BY <1>0, <1>7, <2>2, StepOverAdvances DEF Fails, Busy
    <2> QED BY <1>7, <2>1, <2>2, AfterFailure
<1> QED BY <1>1, <1>2, <1>3, <1>4, <1>5, <1>6, <1>7 DEF Step

\* chat() cannot go on for ever: each of its steps takes it further (CEO_Agent.py:562-796,
\* tool_executor.py), what the servers do in between does not move it, and it is at the
\* end after Budget steps, whatever the model answers and however often calls fail.
\* Together with the fairness of FairSpec this is ChatReturns, for all budgets.
THEOREM ChatIsBounded ==
    Spec => /\ [](Position \in 0..Budget)
            /\ [][IF Step THEN Position' > Position ELSE Position' = Position]_vars
<1>1. Inv => Position \in 0..Budget
    BY PositionRange DEF Inv
<1>2. Inv /\ [Next]_vars => [IF Step THEN Position' > Position ELSE Position' = Position]_vars
    <2> SUFFICES ASSUME Inv, Next, TypeOK'
                 PROVE  IF Step THEN Position' > Position ELSE Position' = Position
        BY TypeStep
    <2>1. CASE Step
        BY <2>1, StepAdvances
    <2>2. CASE ~Step
        <3>1. UNCHANGED <<pc, step, reply, try>>
            BY <2>2 DEF Next, Land, loop, executor
        <3> QED BY <2>2, <3>1 DEF Position, InStep, InReply, Busy, Budget, StepSize, ReplySize
    <2> QED BY <2>1, <2>2
<1> QED BY <1>1, <1>2, Invariance, PTL DEF Spec

----------------------------------------------------------------------------
(* The agent and the gateway meet in GuardedCalls.                           *)

\* All the agent takes for granted of its calls is GuardedCalls, and it never asks for
\* more: no call is sent twice under one name, and none is answered after its answer.
\* Gateway implements that specification (GatewayProofs!Implements), so what is proved
\* here holds of an agent in front of it.
THEOREM UsesGuardedCalls == Spec => G!Spec
<1>1. Init => G!Init
    BY DEF Init
<1>2. Inv /\ [Next]_vars => [G!Next]_(G!vars)
    <2> SUFFICES ASSUME Inv, [Next]_vars PROVE G!Next \/ UNCHANGED <<answer, times>>
        BY DEF G!vars
    <2>1. Current \in Attempts
        BY CurrentIsAttempt DEF Inv
    <2>2. ASSUME NEW n \in 0..MaxPlanSteps, Plan(n) \/ Replan(n) PROVE UNCHANGED <<answer, times>>
        BY <2>2 DEF Plan, Replan, gateway
    <2>3. CASE NoPlan \/ Report \/ Raise \/ Unusable \/ StepComplete
        BY <2>3 DEF NoPlan, Report, Raise, Unusable, StepComplete, gateway
    <2>4. ASSUME NEW t \in Writes \cup {NoTool}, Refuse(t) PROVE UNCHANGED <<answer, times>>
        BY <2>4 DEF Refuse, gateway
    <2>5. ASSUME NEW t \in Tools, Execute(t) PROVE UNCHANGED <<answer, times>>
        BY <2>5 DEF Execute, gateway
    <2>6. CASE Send
        BY <2>1, <2>6 DEF Send, G!Next
    <2>7. CASE Succeeds
        BY <2>1, <2>7 DEF Succeeds, G!Next
    <2>8. CASE Fails
        BY <2>1, <2>8 DEF Fails, G!Next
    <2>9. ASSUME NEW a \in Attempts, NEW works \in BOOLEAN, Land(a, works) PROVE G!Next
        BY <2>9 DEF Land, G!Next
    <2>10. CASE UNCHANGED vars
        BY <2>10 DEF vars
    <2> QED BY <2>2, <2>3, <2>4, <2>5, <2>6, <2>7, <2>8, <2>9, <2>10 DEF Next, Step
<1> QED BY <1>1, <1>2, Invariance, PTL DEF Spec, G!Spec

=============================================================================
