------------------------------ MODULE CeoAgent ------------------------------
(***************************************************************************)
(* One run of the CEO agent (CEO_Agent.chat): a plan, one tool call for each   *)
(* step, and a replanner that may rewrite the rest of the plan after every     *)
(* step.  A step is retried on two levels: the model is asked again when its    *)
(* call failed, and ToolExecutor repeats a failed call by itself when its result *)
(* says idempotent.  GatewayToolAdapter says so of reads only; of a call whose   *)
(* run() raised, write or read, the default of ToolResult says so.             *)
(*                                                                           *)
(* The tools are the gateway's, and what is known of them is GuardedCalls: a    *)
(* call that failed may have been carried out, or may be later.  Some servers   *)
(* also report that they did nothing inside a successful answer.              *)
(***************************************************************************)
EXTENDS Naturals, Sequences, FiniteSets

CONSTANTS
    Reads,          \* tools with access "read"
    Writes,         \* the others: "write" and "public_write"
    Post,           \* social.create_post
    InBand,         \* tools whose server puts "there is no such ticket" in the body
    MaxPlanSteps,   \* CeoConfig.max_plan_steps
    MaxTotalSteps,  \* CeoConfig.max_total_steps
    MaxReplies,     \* CeoConfig.max_tool_retries_per_step
    MaxTries,       \* ToolExecutor.max_retries + 1
    MaxCalls,       \* bound of the model: after so many calls the model asks for no other
    NoTool          \* a name that is not registered

Tools == Reads \cup Writes

ASSUME AgentAssumption ==
    /\ Reads \cap Writes = {} /\ Post \in Writes \ InBand /\ InBand \subseteq Tools
    /\ NoTool \notin Tools
    /\ MaxPlanSteps \in Nat \ {0} /\ MaxTotalSteps \in Nat \ {0}
    /\ MaxReplies \in Nat \ {0} /\ MaxTries \in Nat \ {0} /\ MaxCalls \in Nat

\* A call as the executor makes it: in which step, for which reply of the model,
\* and which of the executor's own attempts it is.
Attempts == (1..MaxTotalSteps) \X (1..MaxReplies) \X (1..MaxTries)

VARIABLES
    pc,       \* what chat() is waiting for or about to do
    left,     \* len(plan), the step being executed included
    step,     \* step_number
    reply,    \* which attempt of the step's loop it is
    tool,     \* the tool being executed
    try,      \* which attempt of the executor
    results,  \* previous_results
    trace,    \* the ACT entries of the executor's trace
    dryRun,   \* GATEWAY_DRY_RUN
    raised,   \* history: the attempts at a write whose run() raised
    asked,    \* the tool of each call, NoTool until it is made
    answer,   \* what the gateway has answered to each call
    times,    \* how often its server has carried it out
    worked    \* the calls that did what they were for

loop == <<left, step, reply>>
executor == <<tool, try>>
gateway == <<raised, asked, answer, times, worked>>
vars == <<pc, left, step, reply, tool, try, results, trace, dryRun, raised, asked, answer,
          times, worked>>

G == INSTANCE GuardedCalls WITH Calls <- Attempts

Current == <<step, reply, try>>

Init ==
    /\ pc = "plan"
    /\ left = 0 /\ step = 1 /\ reply = 1
    /\ tool = NoTool /\ try = 1
    /\ results = <<>>
    /\ trace = <<>>
    /\ dryRun \in BOOLEAN
    /\ raised = {}
    /\ asked = [a \in Attempts |-> NoTool]
    /\ worked = {}
    /\ G!Init

----------------------------------------------------------------------------
(* chat                                                                      *)

\* The model's plan, cut to max_plan_steps.
Plan(n) ==
    /\ pc = "plan"
    /\ left' = n
    /\ pc' = IF n = 0 THEN "report" ELSE "reply"
    /\ UNCHANGED <<step, reply, results, trace, dryRun>>
    /\ UNCHANGED executor /\ UNCHANGED gateway

\* No plan in the model's reply: chat returns, and nothing was done.
NoPlan ==
    /\ pc = "plan"
    /\ pc' = "no_plan"
    /\ UNCHANGED <<results, trace, dryRun>>
    /\ UNCHANGED loop /\ UNCHANGED executor /\ UNCHANGED gateway

\* The step is over, one way or the other: it leaves the plan.
EndStep(completed, by) ==
    /\ results' = Append(results, [step |-> step, completed |-> completed, by |-> by])
    /\ left' = left - 1
    /\ pc' = IF left = 1 THEN "report" ELSE "replan"
    /\ UNCHANGED step

OutOfSteps == step = MaxTotalSteps

\* Mutant of Replan: a plan beyond the budget goes back to the replanner.
Replan_AskAgain(n) ==
    /\ pc = "replan"
    /\ left' = n
    /\ IF n = 0
       THEN pc' = "report" /\ UNCHANGED <<step, reply>>
       ELSE IF OutOfSteps THEN UNCHANGED <<pc, step, reply>>
       ELSE pc' = "reply" /\ step' = step + 1 /\ reply' = 1
    /\ UNCHANGED <<results, trace, dryRun>>
    /\ UNCHANGED executor /\ UNCHANGED gateway

\* The replanner: unusable (the rest of the plan stands), done or empty, or a new
\* plan for the rest.
Replan(n) ==
    /\ pc = "replan"
    /\ left' = n
    /\ IF n = 0 \/ OutOfSteps
       THEN pc' = "report" /\ UNCHANGED <<step, reply>>
       ELSE pc' = "reply" /\ step' = step + 1 /\ reply' = 1
    /\ UNCHANGED <<results, trace, dryRun>>
    /\ UNCHANGED executor /\ UNCHANGED gateway

\* The final report is written, and remembered.
Report ==
    /\ pc = "report"
    /\ pc' = "done"
    /\ UNCHANGED <<results, trace, dryRun>>
    /\ UNCHANGED loop /\ UNCHANGED executor /\ UNCHANGED gateway

\* Any call of the model, and the memory, may raise: nothing in chat() catches it.
Raise ==
    /\ pc \in {"plan", "reply", "replan", "report"}
    /\ pc' = "raised"
    /\ UNCHANGED <<results, trace, dryRun>>
    /\ UNCHANGED loop /\ UNCHANGED executor /\ UNCHANGED gateway

----------------------------------------------------------------------------
(* _execute_single_step                                                      *)

\* A reply that got the step nowhere: the next one, or the step is given up.
NextReply ==
    IF reply = MaxReplies
    THEN EndStep(FALSE, "nobody") /\ UNCHANGED reply
    ELSE pc' = "reply" /\ reply' = reply + 1 /\ UNCHANGED <<left, step, results>>

\* No tool call in the reply.
Unusable ==
    /\ pc = "reply"
    /\ NextReply
    /\ UNCHANGED <<trace, dryRun>> /\ UNCHANGED executor /\ UNCHANGED gateway

\* The model calls step_complete: the step is over because it says so.
StepComplete ==
    /\ pc = "reply"
    /\ EndStep(TRUE, "model")
    /\ UNCHANGED <<reply, trace, dryRun>> /\ UNCHANGED executor /\ UNCHANGED gateway

Entry(t, k, ok) == [step |-> step, reply |-> reply, try |-> k, tool |-> t, ok |-> ok]

\* The executor refuses a name it does not know, and a call without its arguments:
\* of such a read it keeps no more than of an unknown name, of a write the intent.
Refuse(t) ==
    /\ pc = "reply"
    /\ trace' = Append(trace, Entry(t, 0, FALSE))
    /\ NextReply
    /\ UNCHANGED dryRun /\ UNCHANGED executor /\ UNCHANGED gateway

Execute(t) ==
    /\ pc = "reply"
    /\ Cardinality({a \in Attempts : asked[a] # NoTool}) < MaxCalls
    /\ tool' = t
    /\ try' = 1
    /\ pc' = "try"
    /\ UNCHANGED <<results, trace, dryRun>> /\ UNCHANGED loop /\ UNCHANGED gateway

----------------------------------------------------------------------------
(* ToolExecutor.execute and GatewayToolAdapter.run                           *)

\* The call goes to the router, which lets it through or answers by itself: a
\* refusal, or what a dry run says of every write.  A run() that raises before it
\* reaches the router (an argument it has no room for) did as little as a refusal.
Send ==
    /\ pc = "try"
    /\ asked' = [asked EXCEPT ![Current] = tool]
    /\ pc' = "run"
    /\ \/ /\ G!LetThrough(Current)
          /\ tool \in Reads \/ ~dryRun
       \/ /\ G!Withhold(Current)
          /\ answer'[Current] = "simulated" => dryRun /\ tool \in Writes
    /\ UNCHANGED <<results, trace, dryRun, raised, worked>>
    /\ UNCHANGED loop /\ UNCHANGED executor

\* The answer is ok: the step's work is done, and the loop ends with it.
\* Mutant: the loop goes on until the model says that the step is complete.
Succeeds_AskAgain ==
    /\ pc = "run"
    /\ \/ G!Succeed(Current)
       \/ answer[Current] = "simulated" /\ UNCHANGED <<answer, times>>
    /\ trace' = Append(trace, Entry(tool, try, TRUE))
    /\ NextReply
    /\ UNCHANGED <<dryRun, raised, asked, worked>> /\ UNCHANGED executor
Succeeds ==
    /\ pc = "run"
    /\ \/ G!Succeed(Current)
       \/ answer[Current] = "simulated" /\ UNCHANGED <<answer, times>>
    /\ trace' = Append(trace, Entry(tool, try, TRUE))
    /\ EndStep(TRUE, "call")
    /\ UNCHANGED <<reply, dryRun, raised, asked, worked>> /\ UNCHANGED executor

\* ToolResult.is_idempotent: what the adapter says, or the default, which is True, in
\* the result that the executor makes of an exception.
\* Mutant: the adapter leaves it at the default too.
Idempotent_Default(t, raises) == TRUE
Idempotent(t, raises) == raises \/ t \in Reads

\* Mutant of Traced: only the last attempt is traced.
Traced_Last(k) == IF tool \in Reads /\ k < MaxTries THEN trace
                  ELSE Append(trace, Entry(tool, k, FALSE))
Traced(k) == Append(trace, Entry(tool, k, FALSE))

TryAgain ==
    /\ try < MaxTries
    /\ pc' = "try" /\ try' = try + 1
    /\ UNCHANGED <<left, step, reply, results, tool>>

\* The adapter reports an error, or run() raises: the task of the call was cancelled,
\* or its answer could not be read (call_tool of connection.py guards the request
\* and not what follows).  Either way the call may have been carried out.
Fails ==
    /\ pc = "run"
    /\ \/ G!Fail(Current)
       \/ answer[Current] = "refused" /\ UNCHANGED <<answer, times>>
    /\ trace' = Traced(try)
    /\ \E raises \in BOOLEAN :
          /\ raised' = IF raises /\ tool \in Writes THEN raised \cup {Current} ELSE raised
          /\ IF Idempotent(tool, raises) /\ try < MaxTries
             THEN TryAgain
             ELSE NextReply /\ UNCHANGED executor
    /\ UNCHANGED <<dryRun, asked, worked>>

----------------------------------------------------------------------------
(* The servers, behind the gateway.                                          *)

\* A call is carried out, in time or late; a read that comes late has no effect.  It
\* does what it is for, or its server finds that it cannot and says so in the body
\* of its answer.
Land(a, works) ==
    /\ G!CarryOut(a)
    /\ asked[a] \in Reads => answer[a] = "pending"
    /\ ~works => asked[a] \in InBand
    /\ worked' = IF works THEN worked \cup {a} ELSE worked
    /\ UNCHANGED <<pc, results, trace, dryRun, raised, asked>>
    /\ UNCHANGED loop /\ UNCHANGED executor

----------------------------------------------------------------------------

Step ==
    \/ \E n \in 0..MaxPlanSteps : Plan(n) \/ Replan(n)
    \/ NoPlan \/ Report \/ Raise
    \/ Unusable \/ StepComplete
    \/ \E t \in Writes \cup {NoTool} : Refuse(t)
    \/ \E t \in Tools : Execute(t)
    \/ Send \/ Succeeds \/ Fails

Next == Step \/ \E a \in Attempts : \E works \in BOOLEAN : Land(a, works)

Spec == Init /\ [][Next]_vars

\* The model answers or its client raises, and the gateway answers every call
\* (EveryWaitEnds).  Nothing is assumed of the servers.
FairSpec == Spec /\ WF_vars(Step)

----------------------------------------------------------------------------
(* The checks that main() prints after chat() has returned.                  *)

AttemptedWrites == {i \in DOMAIN trace : trace[i].tool \in Writes}

\* Only what was answered before the first write counts, and only if it was ok.
ReadBeforeWrite ==
    \E i \in DOMAIN trace : /\ trace[i].tool \in Reads /\ trace[i].ok
                            /\ \A w \in AttemptedWrites : i < w

PostCallOk == \E i \in DOMAIN trace : trace[i].tool = Post /\ trace[i].ok

\* Mutant of Published: the trace's ok is taken for the post.
Published_Ok == PostCallOk
Published == PostCallOk /\ ~dryRun

----------------------------------------------------------------------------
(* Properties                                                                *)

Results == [step : 1..MaxTotalSteps, completed : BOOLEAN, by : {"call", "model", "nobody"}]
Entries == [step : 1..MaxTotalSteps, reply : 1..MaxReplies, try : 0..MaxTries,
            tool : Tools \cup {NoTool}, ok : BOOLEAN]

TypeOK ==
    /\ pc \in {"plan", "reply", "try", "run", "replan", "report", "done", "no_plan", "raised"}
    /\ left \in 0..MaxPlanSteps
    /\ step \in 1..MaxTotalSteps /\ reply \in 1..MaxReplies /\ try \in 1..MaxTries
    /\ tool \in Tools \cup {NoTool}
    /\ results \in Seq(Results)
    /\ trace \in Seq(Entries)
    /\ dryRun \in BOOLEAN
    /\ raised \subseteq Attempts
    /\ asked \in [Attempts -> Tools \cup {NoTool}]
    /\ answer \in [Attempts -> {"none", "pending", "ok", "failed", "refused", "simulated"}]
    /\ times \in [Attempts -> {0, 1}]
    /\ worked \subseteq Attempts

EntryOf(a) == {i \in DOMAIN trace : <<trace[i].step, trace[i].reply, trace[i].try>> = a
                                    /\ trace[i].tool = asked[a]}
OkEntries(s) == {i \in DOMAIN trace : trace[i].step = s /\ trace[i].ok}
LastEntry(s) == {i \in DOMAIN trace : trace[i].step = s
                                     /\ \A j \in DOMAIN trace : trace[j].step = s => j <= i}

\* Whatever the replanner does, the steps of the record are the steps executed, in
\* their order, and a step is recorded as done by a call exactly when one call of
\* it came back ok, which was its last: nothing is sent after a success, and no
\* failed or given-up step passes for one that called a tool.
RecordMatchesTrace ==
    /\ \A i \in DOMAIN results : results[i].step = i
    /\ \A s \in 1..MaxTotalSteps :
          OkEntries(s) = IF s \in DOMAIN results /\ results[s].by = "call" THEN LastEntry(s) ELSE {}

\* "A retried write could double-fire a side effect" (gateway_bridge.py:135-136), and it
\* does: tool_executor.py:93-94 builds the result of an exception without is_idempotent,
\* so the write is sent again, against the rule at its line 111.  That is the only way:
\* within one reply of the model, of two attempts at a write that were both carried out,
\* late effects included, the earlier one had raised.
WritesRepeatAfterRaiseOnly ==
    \A a, b \in Attempts :
        (/\ a[1] = b[1] /\ a[2] = b[2] /\ a[3] < b[3]
         /\ times[a] = 1 /\ times[b] = 1
         /\ {asked[a], asked[b]} \subseteq Writes) => a \in raised

\* The trace, which main.py judges the run by, names every call that any server
\* has carried out, but for the one that is under way.
EffectsAreTraced ==
    \A a \in Attempts :
        times[a] = 1 => EntryOf(a) # {} \/ (pc = "run" /\ a = Current)

\* What the checks at the end of main.py print is so.  "Published: YES" means that
\* the post is there, and "held it back" that it is not; "no write attempted", that
\* no write was or will be carried out; and "Read ran before first write: YES", that
\* a read had been answered before any write took effect.
Earlier(b, a) == \/ b[1] < a[1]
                 \/ b[1] = a[1] /\ b[2] < a[2]
                 \/ b[1] = a[1] /\ b[2] = a[2] /\ b[3] < a[3]
ChecksAreTrue ==
    pc = "done" =>
        /\ Published => \E a \in worked : asked[a] = Post
        /\ PostCallOk /\ ~Published => \A a \in Attempts : asked[a] = Post => times[a] = 0
        /\ AttemptedWrites = {} => \A a \in Attempts : times[a] = 1 => asked[a] \in Reads
        /\ AttemptedWrites # {} /\ ReadBeforeWrite =>
              \A a \in Attempts : times[a] = 1 /\ asked[a] \in Writes =>
                  \E b \in Attempts : Earlier(b, a) /\ asked[b] \in Reads /\ answer[b] = "ok"

\* chat() returns or raises, whatever the model answers: the budgets of replies,
\* attempts and steps bound every loop, the replanner's included.
ChatReturns == <>(pc \in {"done", "no_plan", "raised"})

\* test_gateway_bridge.py: a failure that the server reports inside a successful
\* answer is caught at the adapter, so no failed call is recorded as a completed
\* step.
CompletedStepDidItsWork ==
    \A i \in DOMAIN trace :
        LET a == <<trace[i].step, trace[i].reply, trace[i].try>> IN
            trace[i].ok => a \in worked \/ answer[a] = "simulated"
=============================================================================
