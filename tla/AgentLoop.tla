------------------------------ MODULE AgentLoop ------------------------------
(***************************************************************************)
(* One attempt of a turn: runAgentLoop (runtime/modelAdapter.ts) with      *)
(* callProviderWithRetry, the stall guard and the context recovery.        *)
(*                                                                         *)
(* pc is the await the generator is at, or what it does next:              *)
(*   "top"      the head of the for loop                                   *)
(*   "compact"  proactive compaction                                       *)
(*   "ask"      the head of callProviderWithRetry's while loop             *)
(*   "asking"   the provider is answering                                  *)
(*   "tools"    the waves of the reply that are left run, one per step     *)
(*   "recover"  compaction after a context overflow                        *)
(*   "done"     a result was returned                                      *)
(*   "thrown"   the generator threw: there is no result                    *)
(*                                                                         *)
(* A call of a tool is an id and an act.  The provider numbers its calls:  *)
(* the id is the iteration and the position in the reply.  Text, thinking, *)
(* usage, tool exposure and the memory of past errors are left out, and so *)
(* are two mechanisms that cannot act: the same-error nudge compares a     *)
(* tool's name with an error kind, and auto-delivery looks for a path      *)
(* where formatToolEvidenceResult never writes one (README, section 7).    *)
(***************************************************************************)
EXTENDS ProviderMessages, ToolBatchPlanner

CONSTANTS
  Acts,                \* what a tool is called with: [tool, path]
  Replies,             \* the non-empty batches of acts a reply may call
  Histories,           \* conversations: sequences of the roles of its messages
  Budgeted,            \* whether MAX_BUDGET_USD is set
  MaxIterations,       \* MAX_TURN_ITERATIONS
  MaxCompactions,      \* MAX_COMPACTIONS_PER_TURN
  MaxRateLimitRetries,
  MaxOverloadRetries

ASSUME RepliesAssumption == Replies \subseteq Seq(Acts) \ {<<>>}
ASSUME HistoriesAssumption == Histories \subseteq Seq({"user", "assistant"})
ASSUME BudgetedAssumption == Budgeted \in BOOLEAN
ASSUME BoundsAssumption ==
  /\ MaxIterations \in Nat /\ MaxCompactions \in Nat
  /\ MaxRateLimitRetries \in Nat /\ MaxOverloadRetries \in Nat

VARIABLES
  pc,
  iteration,
  messages,     \* what the next request is built from
  waves,        \* the waves of the current reply that have not run
  results,      \* toolResults of those that have, in the order of the calls
  steps,        \* the calls reported in AssistantTurnResult.steps
  failures,     \* operationalFailures, per tool
  compactions,
  retries,      \* attempts of callProviderWithRetry, per kind of error
  aborted,      \* options.abortSignal.aborted
  result,       \* what was returned: stop reason, error or not, calls reported
  ran,          \* history: the calls that were executed
  old           \* history: those executed before the last message of role user

vars == <<pc, iteration, messages, waves, results, steps, failures, compactions,
          retries, aborted, result, ran, old>>

Tools == {a.tool : a \in Acts}

\* The complement of isOperationalTool.
TechnicalTools == {"Bash", "Write", "Edit", "Replace", "patch", "Delete", "Undo", "Save"}

NoResult  == [stopReason |-> "none", error |-> FALSE, steps |-> {}]
NoRetries == [rate |-> 0, overload |-> 0, auth |-> 0]

-----------------------------------------------------------------------------
(* Messages.                                                               *)

TextMessage(role) == [role |-> role, calls |-> <<>>, id |-> NoId, tool |-> "none", outcome |-> "none"]

Feedback == TextMessage("user")

CallMessage(calls) == [TextMessage("assistant") EXCEPT !.calls = calls]

ToolMessage(r) ==
  [role |-> "tool", calls |-> <<>>, id |-> r.call.id, tool |-> r.call.act.tool, outcome |-> r.outcome]

\* sessionToMessages: neighbours of one role are merged.
SessionToMessages(history) ==
  MergeConsecutiveMessages([k \in DOMAIN history |-> TextMessage(history[k])])

\* Seeded bug: the results of the tools are lost.
RebuiltCalls(history) ==
  SessionToMessages(history) \o Select(messages, LAMBDA m : m.role = "assistant")

\* After a compaction: the stored conversation, then every assistant and tool
\* message of the loop, those that came from the conversation included.
Rebuilt(history) ==
  SessionToMessages(history) \o Select(messages, LAMBDA m : m.role # "user")

\* How many calls of a message have this act.
TimesAsked(m, act) == Cardinality({k \in DOMAIN m.calls : m.calls[k].act = act})

\* isToolCallStalled: the identical calls asked for since the last message of
\* role user, the current reply included.
IdenticalCalls(act) ==
  LET upTo[n \in 0 .. Len(messages)] ==
        IF n = 0 \/ messages[n].role = "user" THEN 0
        ELSE upTo[n - 1] + TimesAsked(messages[n], act)
  IN  upTo[Len(messages)]

\* Seeded bug: the guard lets one more identical call through.
StalledLate(act) == IdenticalCalls(act) > 3

Stalled(act) == IdenticalCalls(act) >= 3

\* isFail: what a tool's result says.  A command that runs and fails makes the
\* Bash tool throw, so it is an "error"; "killed" is one without an exit code.
OutcomesOf(act) == {"ok", "error"} \cup (IF act.tool = "Bash" THEN {"killed"} ELSE {})

\* The failure of a technical tool is answered by the TDD fail-safe.
NeedsCorrection(tool, outcome) == tool \in TechnicalTools /\ outcome # "ok"

\* The TDD finalization guard: the last message that is not the assistant's is
\* a failed tool's; a Bash result counts only if it shows an exit code.
UnresolvedFailure ==
  LET k == SelectLastInSeq(messages, LAMBDA m : m.role # "assistant") IN
  /\ k # 0
  /\ messages[k].role = "tool"
  /\ NeedsCorrection(messages[k].tool, messages[k].outcome)
  /\ messages[k].tool = "Bash" => messages[k].outcome = "killed"

-----------------------------------------------------------------------------
(* Ways out.                                                               *)

Finish(reason, error) ==
  /\ pc' = "done"
  /\ result' = [stopReason |-> reason, error |-> error, steps |-> steps]
  /\ UNCHANGED <<iteration, messages, waves, results, steps, failures, compactions,
                 retries, aborted, ran, old>>

Throw ==
  /\ pc' = "thrown"
  /\ UNCHANGED <<iteration, messages, waves, results, steps, failures, compactions,
                 retries, aborted, result, ran, old>>

\* Seeded bug: the calls made so far are not reported.
FailSilently ==
  /\ pc' = "done"
  /\ result' = [stopReason |-> "completed", error |-> TRUE, steps |-> {}]
  /\ UNCHANGED <<iteration, messages, waves, results, steps, failures, compactions,
                 retries, aborted, ran, old>>

\* The catch block for an error that is neither an overflow nor an AbortError:
\* finalize's default stop reason is "completed".
Fail == IF aborted THEN Finish("aborted", FALSE) ELSE Finish("completed", TRUE)

\* A user message for the model, and the next iteration.
Correct ==
  /\ messages' = Append(messages, Feedback)
  /\ old' = ran
  /\ iteration' = iteration + 1
  /\ pc' = "top"
  /\ UNCHANGED <<waves, results, steps, failures, compactions, retries, aborted, result, ran>>

-----------------------------------------------------------------------------
(* The loop.                                                               *)

Init ==
  /\ pc = "top" /\ iteration = 1
  /\ \E h \in Histories : messages = SessionToMessages(h)
  /\ waves = <<>> /\ results = <<>> /\ steps = {}
  /\ failures = [t \in Tools |-> 0]
  /\ compactions = 0 /\ retries = NoRetries
  /\ aborted = FALSE /\ result = NoResult
  /\ ran = {} /\ old = {}

\* The signal of the turn, fired at any time.
Abort ==
  /\ pc \notin {"done", "thrown"} /\ ~ aborted
  /\ aborted' = TRUE
  /\ UNCHANGED <<pc, iteration, messages, waves, results, steps, failures, compactions,
                 retries, result, ran, old>>

OutOfIterations == pc = "top" /\ iteration > MaxIterations /\ Finish("max_iterations", TRUE)

\* enforceBudgetLimit stands before the try block.
OverBudget == pc = "top" /\ iteration <= MaxIterations /\ Budgeted /\ Throw

\* Seeded bug: the loop has no bound.
AnyTop == pc = "top"

\* Within the limits of iterations and budget; ralph attempts and timing apart.
AtTop == pc = "top" /\ iteration <= MaxIterations

AbortedAtTop == AtTop /\ aborted /\ Finish("aborted", FALSE)

OutOfTime == AtTop /\ ~ aborted /\ Finish("max_duration", TRUE)

\* The context is small enough, or was compacted often enough in this turn.
Prepare ==
  /\ AtTop /\ ~ aborted
  /\ pc' = "ask" /\ retries' = NoRetries
  /\ UNCHANGED <<iteration, messages, waves, results, steps, failures, compactions,
                 aborted, result, ran, old>>

StartCompaction ==
  /\ AtTop /\ ~ aborted
  /\ compactions < MaxCompactions
  /\ pc' = "compact" /\ compactions' = compactions + 1
  /\ UNCHANGED <<iteration, messages, waves, results, steps, failures,
                 retries, aborted, result, ran, old>>

\* Trimming tool results keeps the messages; flushing or summarising the stored
\* session rebuilds them.
Compact ==
  /\ pc = "compact"
  /\ messages' \in {messages} \cup {Rebuilt(h) : h \in Histories}
  /\ pc' = "ask" /\ retries' = NoRetries
  /\ UNCHANGED <<iteration, waves, results, steps, failures, compactions,
                 aborted, result, ran, old>>

CompactFails == pc = "compact" /\ Fail

-----------------------------------------------------------------------------
(* callProviderWithRetry.                                                  *)

\* Seeded bug: the signal is not looked at before a request.
AskUnchecked ==
  /\ pc = "ask" /\ pc' = "asking"
  /\ UNCHANGED <<iteration, messages, waves, results, steps, failures, compactions,
                 retries, aborted, result, ran, old>>

\* The head of the while loop: throwIfAborted, then a request.
Ask == pc = "ask" /\ IF aborted THEN Fail ELSE
  /\ pc' = "asking"
  /\ UNCHANGED <<iteration, messages, waves, results, steps, failures, compactions,
                 retries, aborted, result, ran, old>>

Retry(counted) ==
  /\ pc' = "ask" /\ retries' = counted
  /\ UNCHANGED <<iteration, messages, waves, results, steps, failures, compactions,
                 aborted, result, ran, old>>

\* Seeded bug: each kind of error forgives the other.
OverloadForgives == [retries EXCEPT !.overload = @ + 1, !.rate = 0]

\* An overload keeps the count of rate limits.
OverloadCounted == [retries EXCEPT !.overload = @ + 1]

RateLimited ==
  LET counted == [retries EXCEPT !.rate = @ + 1, !.overload = 0] IN
  /\ pc = "asking" /\ ~ aborted
  /\ IF counted.rate > MaxRateLimitRetries THEN Fail ELSE Retry(counted)

Overloaded ==
  /\ pc = "asking" /\ ~ aborted
  /\ IF OverloadCounted.overload >= MaxOverloadRetries THEN Fail ELSE Retry(OverloadCounted)

\* The credentials are reloaded and tried once more.
AuthRejected ==
  /\ pc = "asking" /\ ~ aborted
  /\ IF retries.auth > 0 THEN Fail ELSE Retry([retries EXCEPT !.auth = 1])

\* Any other error, and every error after an abort.
AskFails == pc = "asking" /\ Fail

Overflows ==
  /\ pc = "asking" /\ ~ aborted
  /\ IF compactions = MaxCompactions THEN Throw ELSE
       /\ pc' = "recover" /\ compactions' = compactions + 1
       /\ UNCHANGED <<iteration, messages, waves, results, steps, failures,
                      retries, aborted, result, ran, old>>

\* The recovery is the end of this iteration: the failed request costs one.
Recover ==
  /\ pc = "recover"
  /\ messages' \in {messages} \cup {Rebuilt(h) : h \in Histories}
  /\ iteration' = iteration + 1
  /\ pc' = "top"
  /\ UNCHANGED <<waves, results, steps, failures, compactions, retries, aborted, result, ran, old>>

\* An error of the recovery leaves the catch block.
RecoverFails == pc = "recover" /\ Throw

\* The usage of the reply exceeds the budget: an AbortError, thrown again.
ReplyOverBudget == pc = "asking" /\ ~ aborted /\ Budgeted /\ Throw

-----------------------------------------------------------------------------
(* The reply.                                                              *)

\* A tool call or a search query that came as text.
RepliedMalformed == pc = "asking" /\ ~ aborted /\ Correct

RepliedText ==
  /\ pc = "asking" /\ ~ aborted
  /\ IF UnresolvedFailure THEN Correct ELSE Finish("completed", FALSE)

RepliedCalls(acts) ==
  LET calls == [k \in DOMAIN acts |-> [id |-> <<iteration, k>>, act |-> acts[k]]] IN
  /\ pc = "asking" /\ ~ aborted
  /\ messages' = Append(messages, CallMessage(calls))
  /\ steps' = steps \cup ToSet(calls)
  /\ waves' = PlanToolExecutionWaves(calls)
  /\ results' = <<>>
  /\ pc' = "tools"
  /\ UNCHANGED <<iteration, failures, compactions, retries, aborted, result, ran, old>>

\* The calls of a wave run at the same time and the loop awaits all of them; a
\* call that the stall guard blocks is not executed.
RunWave ==
  /\ pc = "tools" /\ waves # <<>>
  /\ LET wave == Head(waves) IN
     \E outcome \in [DOMAIN wave -> {"ok", "error", "killed"}] :
       /\ \A k \in DOMAIN wave :
            outcome[k] \in IF Stalled(wave[k].act) THEN {"error"} ELSE OutcomesOf(wave[k].act)
       /\ results' = results \o [k \in DOMAIN wave |-> [call |-> wave[k], outcome |-> outcome[k]]]
       /\ ran' = ran \cup {c \in ToSet(wave) : ~ Stalled(c.act)}
  /\ waves' = Tail(waves)
  /\ UNCHANGED <<pc, iteration, messages, steps, failures, compactions, retries, aborted, result, old>>

\* The results in the order of the calls.  The second failure in a row of an
\* operational tool puts an alert right behind its result.
Collected ==
  LET upTo[n \in 0 .. Len(results)] ==
        IF n = 0 THEN [messages |-> messages, failures |-> failures]
        ELSE LET before == upTo[n - 1]
                 r      == results[n]
                 tool   == r.call.act.tool
                 count  == IF tool \in TechnicalTools THEN 0
                           ELSE IF r.outcome = "ok" THEN 0 ELSE before.failures[tool] + 1
                 alert  == IF count >= 2 THEN <<Feedback>> ELSE <<>>
             IN  [messages |-> Append(before.messages, ToolMessage(r)) \o alert,
                  failures |-> [before.failures EXCEPT ![tool] = count]]
  IN  upTo[Len(results)]

Correction ==
  IF \E k \in DOMAIN results : NeedsCorrection(results[k].call.act.tool, results[k].outcome)
  THEN <<Feedback>> ELSE <<>>

Collect ==
  /\ pc = "tools" /\ waves = <<>>
  /\ messages' = Collected.messages \o Correction
  /\ failures' = Collected.failures
  /\ old' = IF messages' = messages \o [k \in DOMAIN results |-> ToolMessage(results[k])]
            THEN old ELSE ran
  /\ results' = <<>>
  /\ iteration' = iteration + 1
  /\ pc' = "top"
  /\ UNCHANGED <<waves, steps, compactions, retries, aborted, result, ran>>

-----------------------------------------------------------------------------
Step ==
  \/ OutOfIterations \/ OverBudget \/ AbortedAtTop \/ OutOfTime
  \/ Prepare \/ StartCompaction \/ Compact \/ CompactFails
  \/ Ask \/ RateLimited \/ Overloaded \/ AuthRejected \/ AskFails
  \/ Overflows \/ Recover \/ RecoverFails
  \/ ReplyOverBudget \/ RepliedMalformed \/ RepliedText
  \/ \E acts \in Replies : RepliedCalls(acts)
  \/ RunWave \/ Collect

Next == Step \/ Abort

Spec == Init /\ [][Next]_vars /\ WF_vars(Step)

-----------------------------------------------------------------------------
(* Properties.                                                             *)

Call(c) == Len(c.id) = 2 /\ c.act \in Acts

TypeOK ==
  /\ pc \in {"top", "compact", "ask", "asking", "tools", "recover", "done", "thrown"}
  /\ iteration \in 1 .. MaxIterations + 1
  /\ \A k \in DOMAIN messages :
       /\ messages[k].role \in {"user", "assistant", "tool"}
       /\ \A n \in DOMAIN messages[k].calls : Call(messages[k].calls[n])
  /\ \A w \in ToSet(waves) : w # <<>> /\ \A c \in ToSet(w) : Call(c)
  /\ \A r \in ToSet(results) : Call(r.call) /\ r.outcome \in OutcomesOf(r.call.act)
  /\ \A c \in steps \cup ran \cup old : Call(c)
  /\ failures \in [Tools -> Nat]
  /\ compactions \in 0 .. MaxCompactions
  /\ retries \in [rate : 0 .. MaxRateLimitRetries, overload : 0 .. MaxOverloadRetries, auth : 0 .. 1]
  /\ aborted \in BOOLEAN
  /\ result = NoResult \/ result.stopReason \in {"completed", "aborted", "max_iterations", "max_duration"}

\* Every request is one the provider accepts, whatever feedback, alert or
\* compaction came between the calls and their results.
RequestsPaired == pc = "asking" => WellPaired(Request(messages))

\* The result of a call that was alone in its reply reaches the model, in
\* every later request of the turn.
LoneResultsShown ==
  pc = "asking" =>
    \A k \in DOMAIN messages :
      Len(messages[k].calls) = 1 => messages[k].calls[1].id \in Shown(Request(messages))

\* What the provider is asked is well formed and loses no result of a lone
\* call, and every variable has its type.
RequestsFaithful == TypeOK /\ RequestsPaired /\ LoneResultsShown

\* A tool is executed with the same input at most twice before the model is
\* given a user message, however the calls are spread over replies and waves.
StallBounded ==
  \A a \in Acts : Cardinality({c \in ran \ old : c.act = a}) <= 2

\* Calls that run at the same time do not write where another one works.
NoOverlapInWave ==
  \A n \in DOMAIN waves : \A i, k \in DOMAIN waves[n] :
    /\ i # k
    /\ waves[n][i].act.tool \in PathScopedWrites
    /\ waves[n][k].act.tool \in PathScoped
    => ~ PathsOverlap(waves[n][i].act.path, waves[n][k].act.path)

\* A turn that ends with a result, by an error or an abort too, reports every
\* call it executed.
EffectsReported == pc = "done" => ran \subseteq result.steps

\* Once the turn is aborted no further request is sent.
StopsAsking == [][aborted /\ pc # "asking" => pc' # "asking"]_vars

\* A turn comes to an end, whatever the provider and the tools answer.
Ends == <>(pc \in {"done", "thrown"})

\* What docs/model-and-config.md says the repair is for: the model gets the
\* results of its calls.
ResultsShown ==
  pc = "asking" =>
    \A k \in DOMAIN messages :
      messages[k].role = "tool" => messages[k].id \in Shown(Request(messages))
=============================================================================
