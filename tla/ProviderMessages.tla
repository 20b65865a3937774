-------------------------- MODULE ProviderMessages --------------------------
(***************************************************************************)
(* The conversion of a conversation into one request of the Anthropic      *)
(* Messages API, which is the protocol of every agent turn except those of *)
(* OpenAI profiles: mergeConsecutiveMessages and buildAnthropicMessages    *)
(* (providers/utils.ts), then ensureToolResultPairing.                     *)
(*                                                                         *)
(* A message of the conversation has a role, the calls of an assistant     *)
(* message (records with an id), and the id that a tool message answers.   *)
(* A message of the request has a role, "user" or "assistant", and blocks. *)
(* Images, thinking and the text beside tool calls are left out.           *)
(***************************************************************************)
EXTENDS Naturals, Sequences, SequencesExt

NoId == <<>>

TextBlock    == [kind |-> "text", id |-> NoId]
UseBlock(i)  == [kind |-> "use", id |-> i]
ResultBlock(i)  == [kind |-> "result", id |-> i]
\* "[Tool result missing due to internal error]"
MissingBlock(i) == [kind |-> "missing", id |-> i]

UserMessage(blocks) == [role |-> "user", blocks |-> blocks]

\* Neighbours of one role become one message; tool messages stay apart.
MergeConsecutiveMessages(messages) ==
  LET merged[n \in 0 .. Len(messages)] ==
        IF n = 0 THEN <<>>
        ELSE LET m == messages[n] IN
             IF /\ merged[n - 1] # <<>>
                /\ Last(merged[n - 1]).role = m.role
                /\ m.role # "tool"
             THEN [merged[n - 1] EXCEPT ![Len(merged[n - 1])].calls = @ \o m.calls]
             ELSE Append(merged[n - 1], m)
  IN  merged[Len(messages)]

\* Every tool message becomes a user message of its own.
Converted(m) ==
  CASE m.role = "tool" -> UserMessage(<<ResultBlock(m.id)>>)
    [] m.role = "user" -> UserMessage(<<TextBlock>>)
    [] m.role = "assistant" ->
         [role |-> "assistant",
          blocks |-> IF m.calls = <<>> THEN <<TextBlock>>
                     ELSE [k \in DOMAIN m.calls |-> UseBlock(m.calls[k].id)]]

BuildAnthropicMessages(messages) ==
  LET merged == MergeConsecutiveMessages(messages)
      result == [k \in DOMAIN merged |-> Converted(merged[k])]
  IN  IF result # <<>> /\ Last(result).role = "assistant"
      THEN Append(result, UserMessage(<<TextBlock>>))
      ELSE result

-----------------------------------------------------------------------------
\* The elements of s that are in S, in their order.
Sift(s, S) ==
  LET kept[n \in 0 .. Len(s)] ==
        IF n = 0 THEN <<>>
        ELSE IF s[n] \in S THEN Append(kept[n - 1], s[n]) ELSE kept[n - 1]
  IN  kept[Len(s)]

\* SelectSeq, in a form that can be unfolded in a proof.
Select(s, Test(_)) == Sift(s, {x \in ToSet(s) : Test(x)})

UseKind     == {"use"}
ResultKinds == {"result", "missing"}
IsUse(b)    == b.kind \in UseKind
IsResult(b) == b.kind \in ResultKinds
IdsOf(blocks) == {b.id : b \in ToSet(blocks)}
ResultIds(m) == IdsOf(Select(m.blocks, IsResult))

\* blocks without a second block of these kinds with the same kind and id, or
\* one whose id was known before.
Once(blocks, kinds, known) ==
  LET kept[n \in 0 .. Len(blocks)] ==
        IF n = 0 THEN <<>>
        ELSE IF blocks[n].kind \in kinds /\ (blocks[n].id \in known \/ Contains(kept[n - 1], blocks[n]))
             THEN kept[n - 1]
             ELSE Append(kept[n - 1], blocks[n])
  IN  kept[Len(blocks)]

\* Seeded bug: such a message is kept as it is.
RepairNothing(out, m) == Append(out, m)

\* A user message that does not follow an assistant's loses its results; out
\* is the request so far.
RepairUser(out, m) ==
  LET stripped == Select(m.blocks, LAMBDA b : ~ IsResult(b)) IN
  IF (out # <<>> /\ Last(out).role = "assistant") \/ stripped = m.blocks
  THEN Append(out, m)
  ELSE IF stripped # <<>> THEN Append(out, UserMessage(stripped))
  ELSE IF out = <<>> THEN <<UserMessage(<<TextBlock>>)>>
  ELSE out

\* The calls without a result, and the placeholders for them.
Unanswered(uses, results) == Select(uses, LAMBDA b : b.id \notin IdsOf(results))
Placeholders(missing) == [k \in DOMAIN missing |-> MissingBlock(missing[k].id)]

\* An assistant message keeps tool calls whose id is new.  The message behind
\* it (next, as a sequence of length 0 or 1) is to answer them: it gets a
\* placeholder for each missing result and loses those nobody asked for.
\* The result is what this adds to the request, and whether next is consumed.
RepairAssistant(m, next, seen) ==
  LET kept     == Once(m.blocks, UseKind, seen)
      final    == [m EXCEPT !.blocks = IF kept = <<>> THEN <<TextBlock>> ELSE kept]
      uses     == Select(kept, IsUse)
      answered == next # <<>> /\ next[1].role = "user"
      results  == IF answered THEN Select(next[1].blocks, IsResult) ELSE <<>>
      missing  == Unanswered(uses, results)
      orphaned == IdsOf(results) \ IdsOf(uses)
      repeated == Len(results) # Cardinality(IdsOf(results))
      cleaned  == IF orphaned = {} /\ ~ repeated THEN next[1].blocks
                  ELSE Once(Select(next[1].blocks, LAMBDA b : ~ (IsResult(b) /\ b.id \in orphaned)),
                            ResultKinds, {})
      patched  == Placeholders(missing) \o cleaned
  IN  IF missing = <<>> /\ orphaned = {} /\ ~ repeated
      THEN [adds |-> <<final>>, consumes |-> FALSE, uses |-> IdsOf(uses)]
      ELSE IF answered
      THEN [adds |-> <<final, UserMessage(IF patched = <<>> THEN <<TextBlock>> ELSE patched)>>,
            consumes |-> TRUE, uses |-> IdsOf(uses)]
      ELSE [adds |-> <<final, UserMessage(Placeholders(missing))>>,
            consumes |-> FALSE, uses |-> IdsOf(uses)]

EnsureToolResultPairing(messages) ==
  LET pass[n \in 0 .. Len(messages)] ==
        IF n = 0 THEN [out |-> <<>>, seen |-> {}, skip |-> FALSE]
        ELSE LET before == pass[n - 1]
                 m == messages[n]
             IN  IF before.skip THEN [before EXCEPT !.skip = FALSE]
                 ELSE IF m.role # "assistant"
                 THEN [before EXCEPT !.out = RepairUser(before.out, m)]
                 ELSE LET next == SubSeq(messages, n + 1, IF n < Len(messages) THEN n + 1 ELSE n)
                          r == RepairAssistant(m, next, before.seen)
                      IN  [out  |-> before.out \o r.adds,
                           seen |-> before.seen \cup r.uses,
                           skip |-> r.consumes]
  IN  pass[Len(messages)].out

Request(messages) == EnsureToolResultPairing(BuildAnthropicMessages(messages))

-----------------------------------------------------------------------------
\* What the API accepts: the results of a message are those of the calls of
\* the assistant message before it, each once, and no call lacks one.
WellPaired(request) ==
  \A n \in DOMAIN request :
    LET m == request[n]
        results == Select(m.blocks, IsResult)
        asked == IF n > 1 THEN IdsOf(Select(request[n - 1].blocks, IsUse)) ELSE {}
    IN  /\ ResultIds(m) = asked
        /\ Len(results) = Cardinality(asked)
        /\ m.role = "assistant" /\ n = Len(request) => IdsOf(Select(m.blocks, IsUse)) = {}

\* The calls whose result the model gets to see.
Shown(request) ==
  UNION {IdsOf(Select(request[n].blocks, LAMBDA b : b.kind = "result")) : n \in DOMAIN request}
=============================================================================
