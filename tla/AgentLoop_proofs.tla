-------------------------- MODULE AgentLoop_proofs --------------------------
(***************************************************************************)
(* What holds of the agent loop whatever tools, replies, conversations and *)
(* limits it has: it sends nothing after an abort, it is bounded, its      *)
(* requests are well paired, it reports what it did, calls that run at the *)
(* same time do not conflict, and the stall guard holds.                   *)
(*                                                                         *)
(* The requests are computed by recursive functions.  What they compute    *)
(* for sequences of any length is proved here by induction over a set of   *)
(* numbers, from the well-foundedness of <.                                *)
(***************************************************************************)
EXTENDS AgentLoop, WellFoundedInduction, FiniteSetTheorems, SequenceTheorems, TLAPS

\* The request that a step of the loop sends is one it sends unaborted.
LEMMA OnlyAskSends == Next /\ pc # "asking" /\ pc' = "asking" => ~ aborted
<1>1. SUFFICES ASSUME Next, pc # "asking", pc' = "asking"
               PROVE  ~ aborted
  OBVIOUS
<1>2. CASE Abort
  BY <1>1, <1>2 DEF Abort
<1>3. CASE Ask
  BY <1>1, <1>3 DEF Ask, Fail, Finish
<1>4. CASE OutOfIterations \/ OverBudget \/ AbortedAtTop \/ OutOfTime
  BY <1>1, <1>4 DEF OutOfIterations, OverBudget, AbortedAtTop, OutOfTime, Finish, Throw
<1>5. CASE Prepare \/ StartCompaction \/ Compact \/ CompactFails
  BY <1>1, <1>5 DEF Prepare, StartCompaction, Compact, CompactFails, Fail, Finish
<1>6. CASE RateLimited \/ Overloaded \/ AuthRejected \/ AskFails \/ Overflows
           \/ ReplyOverBudget \/ RepliedMalformed \/ RepliedText
  BY <1>1, <1>6 DEF RateLimited, Overloaded, AuthRejected, AskFails, Overflows,
                    ReplyOverBudget, RepliedMalformed, RepliedText
<1>7. CASE Recover \/ RecoverFails \/ RunWave \/ Collect
  BY <1>1, <1>7 DEF Recover, RecoverFails, Throw, RunWave, Collect
<1>8. CASE \E acts \in Replies : RepliedCalls(acts)
  BY <1>1, <1>8 DEF RepliedCalls
<1>9. QED
  BY <1>1, <1>2, <1>3, <1>4, <1>5, <1>6, <1>7, <1>8 DEF Next, Step

\* Once the signal of the turn has fired no further request is sent, wherever
\* the loop is: in tools, in a compaction, in a back-off.
THEOREM AbortStopsAsking == Spec => StopsAsking
<1>1. ASSUME Next, aborted, pc # "asking"
      PROVE  pc' # "asking"
  BY <1>1, OnlyAskSends
<1>2. [Next]_vars => [aborted /\ pc # "asking" => pc' # "asking"]_vars
  BY <1>1
<1>3. QED
  BY <1>2, PTL DEF Spec, StopsAsking

-----------------------------------------------------------------------------
(* The counters that end a turn.                                           *)

\* Each attempt at a request counts, and so do the iterations; the head of the
\* loop is the only place that may have used the last iteration.
Bounded ==
  /\ iteration \in 1 .. MaxIterations + 1
  /\ pc \notin {"top", "done", "thrown"} => iteration <= MaxIterations
  /\ compactions \in 0 .. MaxCompactions
  /\ retries \in [rate : 0 .. MaxRateLimitRetries, overload : 0 .. MaxOverloadRetries, auth : 0 .. 1]

\* The counters, initially.
LEMMA BoundedInit == Init => Bounded
  BY BoundsAssumption DEF Init, Bounded, NoRetries

\* A step that leaves the counters alone and does not leave the head of the
\* loop, or finds an iteration left.
LEMMA BoundedKept ==
  ASSUME Bounded, UNCHANGED <<iteration, compactions, retries>>,
         pc' \in {"top", "done", "thrown"} \/ iteration <= MaxIterations
  PROVE  Bounded'
  BY DEF Bounded

\* The counters, step by step: each step that raises one looked at its limit.
LEMMA BoundedStep == Bounded /\ [Next]_vars => Bounded'
<1>1. SUFFICES ASSUME Bounded, [Next]_vars
               PROVE  Bounded'
  OBVIOUS
<1>2. CASE UNCHANGED vars
  BY <1>1, <1>2 DEF Bounded, vars
<1>3. CASE Abort
  BY <1>1, <1>3 DEF Bounded, Abort
<1>4. CASE OutOfIterations \/ OverBudget \/ AbortedAtTop \/ OutOfTime
  BY <1>1, <1>4, BoundedKept
  DEF OutOfIterations, OverBudget, AbortedAtTop, OutOfTime, Finish, Throw
<1>5. CASE Prepare
  BY <1>1, <1>5, BoundsAssumption DEF Bounded, Prepare, AtTop, NoRetries
<1>6. CASE StartCompaction
  BY <1>1, <1>6, BoundsAssumption DEF Bounded, StartCompaction, AtTop
<1>7. CASE Compact
  BY <1>1, <1>7, BoundsAssumption DEF Bounded, Compact, NoRetries
<1>8. CASE CompactFails \/ AskFails
  BY <1>1, <1>8, BoundedKept DEF CompactFails, AskFails, Fail, Finish
<1>9. CASE Ask
  <2>1. pc = "ask" /\ iteration <= MaxIterations
    BY <1>1, <1>9 DEF Ask, Bounded
  <2>2. UNCHANGED <<iteration, compactions, retries>>
    BY <1>9 DEF Ask, Fail, Finish
  <2>3. QED
    BY <1>1, <2>1, <2>2, BoundedKept
<1>10. CASE RateLimited \/ Overloaded \/ AuthRejected
  <2>1. iteration <= MaxIterations
    BY <1>1, <1>10 DEF RateLimited, Overloaded, AuthRejected, Bounded
  <2>2. CASE Fail
    BY <1>1, <2>1, <2>2, BoundedKept DEF Fail, Finish
  <2>3. CASE RateLimited /\ ~ Fail
    <3>1. retries.rate \in Nat /\ MaxRateLimitRetries \in Nat
      BY <1>1, BoundsAssumption DEF Bounded
    <3>2. [retries EXCEPT !.rate = @ + 1, !.overload = 0].rate = retries.rate + 1
      BY <1>1 DEF Bounded
    <3>3. ~ (retries.rate + 1 > MaxRateLimitRetries)
      BY <2>3, <3>2 DEF RateLimited
    <3>4. Retry([retries EXCEPT !.rate = @ + 1, !.overload = 0])
      BY <2>3, <3>2, <3>3 DEF RateLimited
    <3>5. [retries EXCEPT !.rate = @ + 1, !.overload = 0]
            \in [rate : 0 .. MaxRateLimitRetries, overload : 0 .. MaxOverloadRetries, auth : 0 .. 1]
      <4>1. retries.rate + 1 \in 0 .. MaxRateLimitRetries
        BY <3>1, <3>3
      <4>2. 0 \in 0 .. MaxOverloadRetries
        BY BoundsAssumption
      <4>3. retries \in [rate : 0 .. MaxRateLimitRetries, overload : 0 .. MaxOverloadRetries, auth : 0 .. 1]
        BY <1>1 DEF Bounded
      <4>4. QED
        BY <4>1, <4>2, <4>3
    <3>6. QED
      BY <1>1, <2>1, <3>4, <3>5 DEF Retry, Bounded
  <2>4. CASE Overloaded /\ ~ Fail
    BY <1>1, <2>1, <2>4, BoundsAssumption DEF Overloaded, OverloadCounted, Retry, Bounded
  <2>5. CASE AuthRejected /\ ~ Fail
    BY <1>1, <2>1, <2>5, BoundsAssumption DEF AuthRejected, Retry, Bounded
  <2>6. QED
    BY <1>10, <2>2, <2>3, <2>4, <2>5
<1>11. CASE Overflows
  BY <1>1, <1>11, BoundsAssumption DEF Bounded, Overflows, Throw
<1>12. CASE RecoverFails \/ ReplyOverBudget
  BY <1>1, <1>12, BoundedKept DEF RecoverFails, ReplyOverBudget, Throw
<1>13. CASE Recover \/ Collect
  BY <1>1, <1>13, BoundsAssumption DEF Bounded, Recover, Collect
<1>14. CASE RepliedMalformed \/ RepliedText
  BY <1>1, <1>14, BoundsAssumption DEF Bounded, RepliedMalformed, RepliedText, Correct, Finish
<1>15. CASE \E acts \in Replies : RepliedCalls(acts)
  BY <1>1, <1>15 DEF Bounded, RepliedCalls
<1>16. CASE RunWave
  BY <1>1, <1>16 DEF Bounded, RunWave
<1>17. QED
  BY <1>1, <1>2, <1>3, <1>4, <1>5, <1>6, <1>7, <1>8, <1>9, <1>10, <1>11, <1>12,
     <1>13, <1>14, <1>15, <1>16 DEF Next, Step

\* No turn goes beyond its iterations, its compactions or, in one iteration,
\* its retries, however the errors of the provider alternate.
THEOREM TurnsBounded == Spec => []Bounded
<1>1. QED
  BY BoundedInit, BoundedStep, PTL DEF Spec

-----------------------------------------------------------------------------
(* Induction.  The theorems of the library take the predicate as an operator, *)
(* which the provers cannot instantiate; with a set in its place they can. *)

\* Every nonempty set of numbers has a smallest element.
LEMMA Smallest ==
  ASSUME NEW S \in SUBSET Nat, S # {}
  PROVE  \E n \in S : \A m \in S : ~ (m < n)
<1> DEFINE R == {ss \in Nat \X Nat : ss[1] < ss[2]}
<1>1. IsWellFoundedOn(R, Nat)
  BY NatLessThanWellFounded DEF OpToRel
<1> HIDE DEF R
<1>2. \E x \in S : \A y \in S : ~ (<<y, x>> \in R)
  BY <1>1, WFMin
<1> USE DEF R
<1>3. QED
  BY <1>2

\* Induction over a set of numbers; the form with a predicate takes an
\* operator as a parameter.
LEMMA SetInduction ==
  ASSUME NEW S, 0 \in S, \A n \in Nat : n \in S => n + 1 \in S
  PROVE  \A n \in Nat : n \in S
<1>1. SUFFICES ASSUME Nat \ S # {} PROVE FALSE
  OBVIOUS
<1>2. PICK n \in Nat \ S : \A m \in Nat \ S : ~ (m < n)
  BY <1>1, Smallest
<1>3. n - 1 \in S
  BY <1>2
<1>4. QED
  BY <1>2, <1>3

\* Induction up to a bound: what every lemma about a recursive function uses.
LEMMA UpTo ==
  ASSUME NEW N \in Nat, NEW S, 0 \in S, \A n \in 1 .. N : n - 1 \in S => n \in S
  PROVE  \A n \in 0 .. N : n \in S
<1> DEFINE T == {n \in Nat : n <= N => n \in S}
<1>1. 0 \in T
  OBVIOUS
<1>2. ASSUME NEW n \in Nat, n \in T
      PROVE  n + 1 \in T
  <2>1. CASE n + 1 <= N
    <3>1. n + 1 \in 1 .. N /\ (n + 1) - 1 = n /\ n \in S
      BY <1>2, <2>1
    <3>2. QED
      BY <3>1
  <2>2. QED
    BY <2>1
<1> HIDE DEF T
<1>3. \A n \in Nat : n \in T
  BY <1>1, <1>2, SetInduction
<1>4. QED
  BY <1>3 DEF T

\* F[n] is the n-th of N functions that take a value of D to the next, from d.
Iterable(N, D, d, F) == N \in Nat /\ d \in D /\ F \in [1 .. N -> [D -> D]]

\* Such functions can be applied one after the other.
LEMMA Iteration ==
  ASSUME NEW N, NEW D, NEW d, NEW F, Iterable(N, D, d, F)
  PROVE  \E p \in [0 .. N -> D] : p[0] = d /\ \A n \in 1 .. N : p[n] = F[n][p[n - 1]]
<1> USE DEF Iterable
<1> DEFINE Good(p, m) == p[0] = d /\ \A n \in 1 .. m : p[n] = F[n][p[n - 1]]
           S == {m \in Nat : \E p \in [0 .. m -> D] : Good(p, m)}
<1>1. 0 \in S
  <2>1. Good([n \in 0 .. 0 |-> d], 0) /\ [n \in 0 .. 0 |-> d] \in [0 .. 0 -> D]
    OBVIOUS
  <2>2. QED
    BY <2>1
<1>2. ASSUME NEW m \in 1 .. N, m - 1 \in S
      PROVE  m \in S
  <2>1. PICK p \in [0 .. m - 1 -> D] : Good(p, m - 1)
    BY <1>2
  <2> DEFINE q == [n \in 0 .. m |-> IF n < m THEN p[n] ELSE F[m][p[m - 1]]]
  <2>2. \A n \in 0 .. m - 1 : q[n] = p[n]
    OBVIOUS
  <2>3. q[m] = F[m][p[m - 1]] /\ F[m][p[m - 1]] \in D
    BY <2>1
  <2>4. q \in [0 .. m -> D]
    BY <2>3
  <2> HIDE DEF q
  <2>5. \A n \in 1 .. m : q[n] = F[n][q[n - 1]]
    BY <2>1, <2>2, <2>3
  <2>6. q[0] = d
    BY <2>1, <2>2
  <2>7. QED
    BY <2>4, <2>5, <2>6
<1> HIDE DEF S
<1>3. \A m \in 0 .. N : m \in S
  BY <1>1, <1>2, UpTo
<1>4. QED
  BY <1>3 DEF S

-----------------------------------------------------------------------------
(* The recursive functions of the model.  Each is unfolded in the same way: *)
(* its steps can be iterated, so that there is a function that satisfies the *)
(* recursion, and its definition chooses one.  The lemma states the steps with *)
(* the type of their values.                                               *)

\* One step of Sift: what its n-th value makes of the one before it.
SiftStep(s, S, n, r) == IF s[n] \in S THEN Append(r, s[n]) ELSE r

\* p is the function that Sift defines, with values in Seq(A).
SiftRun(A, s, S, p) ==
  /\ p \in [0 .. Len(s) -> Seq(A)]
  /\ Sift(s, S) = p[Len(s)]
  /\ p[0] = <<>>
  /\ \A n \in 1 .. Len(s) : p[n] = SiftStep(s, S, n, p[n - 1])

\* Sift is computed by its steps.
LEMMA SiftUnfold ==
  ASSUME NEW A, NEW s \in Seq(A), NEW S
  PROVE  \E p : SiftRun(A, s, S, p)
<1> DEFINE N == Len(s)
           D == Seq(A)
           d == <<>>
           F == [n \in 1 .. N |-> [x \in D |-> SiftStep(s, S, n, x)]]
           Is(p) == p = [n \in 0 .. N |-> IF n = 0 THEN d ELSE SiftStep(s, S, n, p[n - 1])]
           q == CHOOSE p : Is(p)
<1>1. N \in Nat /\ d \in D
  OBVIOUS
<1>2. \A n \in 1 .. N : \A x \in D : SiftStep(s, S, n, x) \in D
  BY DEF SiftStep
<1>3. Sift(s, S) = q[N]
  BY Zenon DEF Sift, SiftStep
<1> HIDE DEF N, D, d
<1>4. F \in [1 .. N -> [D -> D]] /\ \A n \in 1 .. N : \A x \in D : F[n][x] = SiftStep(s, S, n, x)
  BY <1>2
<1> HIDE DEF F
<1>5. PICK p \in [0 .. N -> D] : p[0] = d /\ \A n \in 1 .. N : p[n] = F[n][p[n - 1]]
  <2>1. Iterable(N, D, d, F)
    BY <1>1, <1>4 DEF Iterable
  <2>2. QED
    BY <2>1, Iteration
<1>6. Is(p)
  <2>1. \A n \in 1 .. N : p[n] = SiftStep(s, S, n, p[n - 1])
    BY <1>1, <1>4, <1>5
  <2>2. \A n \in 0 .. N : p[n] = IF n = 0 THEN d ELSE SiftStep(s, S, n, p[n - 1])
    BY <1>1, <1>5, <2>1
  <2>3. QED
    BY <2>2, <1>5
<1> HIDE DEF q
<1>7. Is(q)
  <2> HIDE DEF Is
  <2>1. QED
    BY <1>6 DEF q
<1>8. q[0] = d /\ \A n \in 1 .. N : q[n] = SiftStep(s, S, n, q[n - 1])
  BY <1>1, <1>7
<1>9. q \in [0 .. N -> D]
  <2> DEFINE E == {n \in Nat : q[n] \in D}
  <2>1. 0 \in E /\ \A n \in 1 .. N : n - 1 \in E => n \in E
    BY <1>1, <1>2, <1>8
  <2> HIDE DEF E
  <2>2. \A n \in 0 .. N : n \in E
    BY <1>1, <2>1, UpTo
  <2>3. QED
    BY <1>7, <2>2 DEF E
<1>10. QED
  BY <1>3, <1>8, <1>9 DEF N, D, d, SiftRun

-----------------------------------------------------------------------------
(* The types of the data.                                                  *)

\* A call of a tool.
CallT == [id : Nat \X Nat, act : Acts]

\* The ids of calls, and that of messages and blocks without one.
Ids == (Nat \X Nat) \cup {NoId}

\* The messages of the loop.
Message == [role : {"user", "assistant", "tool"}, calls : Seq(CallT), id : Ids,
            tool : Tools \cup {"none"}, outcome : {"none", "ok", "error", "killed"}]

\* The blocks of a request.
Block == [kind : {"text", "use", "result", "missing"}, id : Ids]

\* One step of Once.
OnceStep(blocks, kinds, known, n, r) ==
  IF blocks[n].kind \in kinds /\ (blocks[n].id \in known \/ Contains(r, blocks[n]))
  THEN r ELSE Append(r, blocks[n])

\* p is the function that Once defines.
OnceRun(blocks, kinds, known, p) ==
  /\ p \in [0 .. Len(blocks) -> Seq(Block)]
  /\ Once(blocks, kinds, known) = p[Len(blocks)]
  /\ p[0] = <<>>
  /\ \A n \in 1 .. Len(blocks) : p[n] = OnceStep(blocks, kinds, known, n, p[n - 1])

\* Once is computed by its steps.
LEMMA OnceUnfold ==
  ASSUME NEW blocks \in Seq(Block), NEW kinds, NEW known
  PROVE  \E p : OnceRun(blocks, kinds, known, p)
<1> DEFINE N == Len(blocks)
           D == Seq(Block)
           d == <<>>
           F == [n \in 1 .. N |-> [x \in D |-> OnceStep(blocks, kinds, known, n, x)]]
           Is(p) == p = [n \in 0 .. N |-> IF n = 0 THEN d ELSE OnceStep(blocks, kinds, known, n, p[n - 1])]
           q == CHOOSE p : Is(p)
<1>1. N \in Nat /\ d \in D
  OBVIOUS
<1>2. \A n \in 1 .. N : \A x \in D : OnceStep(blocks, kinds, known, n, x) \in D
  BY DEF OnceStep
<1>3. Once(blocks, kinds, known) = q[N]
  BY Zenon DEF Once, OnceStep
<1> HIDE DEF N, D, d
<1>4. F \in [1 .. N -> [D -> D]]
      /\ \A n \in 1 .. N : \A x \in D : F[n][x] = OnceStep(blocks, kinds, known, n, x)
  BY <1>2
<1> HIDE DEF F
<1>5. PICK p \in [0 .. N -> D] : p[0] = d /\ \A n \in 1 .. N : p[n] = F[n][p[n - 1]]
  <2>1. Iterable(N, D, d, F)
    BY <1>1, <1>4 DEF Iterable
  <2>2. QED
    BY <2>1, Iteration
<1>6. Is(p)
  <2>1. \A n \in 1 .. N : p[n] = OnceStep(blocks, kinds, known, n, p[n - 1])
    BY <1>1, <1>4, <1>5
  <2>2. \A n \in 0 .. N : p[n] = IF n = 0 THEN d ELSE OnceStep(blocks, kinds, known, n, p[n - 1])
    BY <1>1, <1>5, <2>1
  <2>3. QED
    BY <2>2, <1>5
<1> HIDE DEF q
<1>7. Is(q)
  <2> HIDE DEF Is
  <2>1. QED
    BY <1>6 DEF q
<1>8. q[0] = d /\ \A n \in 1 .. N : q[n] = OnceStep(blocks, kinds, known, n, q[n - 1])
  BY <1>1, <1>7
<1>9. q \in [0 .. N -> D]
  <2> DEFINE E == {n \in Nat : q[n] \in D}
  <2>1. 0 \in E /\ \A n \in 1 .. N : n - 1 \in E => n \in E
    BY <1>1, <1>2, <1>8
  <2> HIDE DEF E
  <2>2. \A n \in 0 .. N : n \in E
    BY <1>1, <2>1, UpTo
  <2>3. QED
    BY <1>7, <2>2 DEF E
<1>10. QED
  BY <1>3, <1>8, <1>9 DEF N, D, d, OnceRun

\* One step of MergeConsecutiveMessages.
MergeStep(r, m) ==
  IF r # <<>> /\ Last(r).role = m.role /\ m.role # "tool"
  THEN [r EXCEPT ![Len(r)].calls = @ \o m.calls]
  ELSE Append(r, m)

\* Merging a message into a conversation gives a conversation.
LEMMA MergeStepType ==
  ASSUME NEW r \in Seq(Message), NEW m \in Message
  PROVE  MergeStep(r, m) \in Seq(Message)
<1>1. CASE r # <<>> /\ Last(r).role = m.role /\ m.role # "tool"
  <2>1. Len(r) \in DOMAIN r /\ r[Len(r)] \in Message
    BY <1>1
  <2>2. r[Len(r)].calls \o m.calls \in Seq(CallT)
    <3>1. r[Len(r)].calls \in Seq(CallT) /\ m.calls \in Seq(CallT)
      BY <2>1 DEF Message
    <3>2. QED
      BY <3>1
  <2>3. [r[Len(r)] EXCEPT !.calls = @ \o m.calls] \in Message
    BY <2>1, <2>2 DEF Message
  <2>4. QED
    BY <1>1, <2>1, <2>3 DEF MergeStep
<1>2. QED
  BY <1>1 DEF MergeStep

\* p is the function that MergeConsecutiveMessages defines.
MergeRun(ms, p) ==
  /\ p \in [0 .. Len(ms) -> Seq(Message)]
  /\ MergeConsecutiveMessages(ms) = p[Len(ms)]
  /\ p[0] = <<>>
  /\ \A n \in 1 .. Len(ms) : p[n] = MergeStep(p[n - 1], ms[n])

\* MergeConsecutiveMessages is computed by its steps.
LEMMA MergeUnfold ==
  ASSUME NEW ms \in Seq(Message)
  PROVE  \E p : MergeRun(ms, p)
<1> DEFINE N == Len(ms)
           D == Seq(Message)
           d == <<>>
           F == [n \in 1 .. N |-> [x \in D |-> MergeStep(x, ms[n])]]
           Is(p) == p = [n \in 0 .. N |-> IF n = 0 THEN d ELSE MergeStep(p[n - 1], ms[n])]
           q == CHOOSE p : Is(p)
<1>1. N \in Nat /\ d \in D
  OBVIOUS
<1>2. \A n \in 1 .. N : \A x \in D : MergeStep(x, ms[n]) \in D
  BY MergeStepType
<1>3. MergeConsecutiveMessages(ms) = q[N]
  BY Zenon DEF MergeConsecutiveMessages, MergeStep
<1> HIDE DEF N, D, d
<1>4. F \in [1 .. N -> [D -> D]] /\ \A n \in 1 .. N : \A x \in D : F[n][x] = MergeStep(x, ms[n])
  BY <1>2
<1> HIDE DEF F
<1>5. PICK p \in [0 .. N -> D] : p[0] = d /\ \A n \in 1 .. N : p[n] = F[n][p[n - 1]]
  <2>1. Iterable(N, D, d, F)
    BY <1>1, <1>4 DEF Iterable
  <2>2. QED
    BY <2>1, Iteration
<1>6. Is(p)
  <2>1. \A n \in 1 .. N : p[n] = MergeStep(p[n - 1], ms[n])
    BY <1>1, <1>4, <1>5
  <2>2. \A n \in 0 .. N : p[n] = IF n = 0 THEN d ELSE MergeStep(p[n - 1], ms[n])
    BY <1>1, <1>5, <2>1
  <2>3. QED
    BY <2>2, <1>5
<1> HIDE DEF q
<1>7. Is(q)
  <2> HIDE DEF Is
  <2>1. QED
    BY <1>6 DEF q
<1>8. q[0] = d /\ \A n \in 1 .. N : q[n] = MergeStep(q[n - 1], ms[n])
  BY <1>1, <1>7
<1>9. q \in [0 .. N -> D]
  <2> DEFINE E == {n \in Nat : q[n] \in D}
  <2>1. 0 \in E /\ \A n \in 1 .. N : n - 1 \in E => n \in E
    BY <1>1, <1>2, <1>8
  <2> HIDE DEF E
  <2>2. \A n \in 0 .. N : n \in E
    BY <1>1, <2>1, UpTo
  <2>3. QED
    BY <1>7, <2>2 DEF E
<1>10. QED
  BY <1>3, <1>8, <1>9 DEF N, D, d, MergeRun

\* No two calls of a wave conflict: NoOverlapInWave, for one wave.
Clear(w) ==
  \A i, k \in DOMAIN w :
    /\ i # k
    /\ w[i].act.tool \in PathScopedWrites
    /\ w[k].act.tool \in PathScoped
    => ~ PathsOverlap(w[i].act.path, w[k].act.path)

\* The waves of calls of C.
Wave(C) == {w \in Seq(C) : w # <<>> /\ Clear(w)}

\* One step of PlanToolExecutionWaves.
PlanStep(w, c) ==
  IF w # <<>> /\ CanRunInParallelWave(c.act, ReservedPaths(w[Len(w)]))
  THEN [w EXCEPT ![Len(w)] = Append(@, c)]
  ELSE Append(w, <<c>>)

\* A call that joins a wave conflicts with none of its calls: this is what
\* canRunInParallelWave looks at.
LEMMA PlanStepType ==
  ASSUME NEW C, NEW w \in Seq(Wave(C)), NEW c \in C
  PROVE  PlanStep(w, c) \in Seq(Wave(C))
<1>1. <<c>> \in Wave(C)
  <2>1. Clear(<<c>>)
    BY DEF Clear
  <2>2. QED
    BY <2>1 DEF Wave
<1>2. CASE w # <<>> /\ CanRunInParallelWave(c.act, ReservedPaths(w[Len(w)]))
  <2> DEFINE v == w[Len(w)]
  <2>1. Len(w) \in DOMAIN w /\ v \in Wave(C)
    BY <1>2
  <2>2. v \in Seq(C) /\ Clear(v)
    BY <2>1 DEF Wave
  <2>3. ASSUME NEW k \in DOMAIN v, v[k].act.tool \in PathScoped, c.act.tool \in PathScoped
        PROVE  ~ PathsOverlap(c.act.path, v[k].act.path) /\ ~ PathsOverlap(v[k].act.path, c.act.path)
    <3>1. v[k].act.path \in ReservedPaths(v)
      BY <2>3 DEF ReservedPaths, ScopePaths
    <3>2. c.act.path \in ScopePaths(c.act)
      BY <2>3 DEF ScopePaths
    <3>3. ~ PathsOverlap(c.act.path, v[k].act.path)
      BY <1>2, <3>1, <3>2 DEF CanRunInParallelWave
    <3>4. QED
      BY <3>3 DEF PathsOverlap
  <2> HIDE DEF v
  <2>4. PathScopedWrites \subseteq PathScoped
    BY DEF PathScopedWrites, PathScoped
  <2>5. Clear(Append(v, c))
    <3>1. SUFFICES ASSUME NEW i \in DOMAIN Append(v, c), NEW k \in DOMAIN Append(v, c), i # k,
                          Append(v, c)[i].act.tool \in PathScopedWrites,
                          Append(v, c)[k].act.tool \in PathScoped
                   PROVE  ~ PathsOverlap(Append(v, c)[i].act.path, Append(v, c)[k].act.path)
      BY DEF Clear
    <3>2. \A n \in DOMAIN Append(v, c) : (n \in DOMAIN v /\ Append(v, c)[n] = v[n])
                                        \/ (n = Len(v) + 1 /\ Append(v, c)[n] = c)
      BY <2>2
    <3>3. QED
      BY <2>2, <2>3, <2>4, <3>1, <3>2 DEF Clear
  <2>6. Append(v, c) \in Wave(C)
    BY <2>2, <2>5 DEF Wave
  <2>7. QED
    BY <1>2, <2>1, <2>6 DEF PlanStep, v
<1>3. QED
  BY <1>1, <1>2 DEF PlanStep

\* p is the function that PlanToolExecutionWaves defines.
PlanRun(C, calls, p) ==
  /\ p \in [0 .. Len(calls) -> Seq(Wave(C))]
  /\ PlanToolExecutionWaves(calls) = p[Len(calls)]
  /\ p[0] = <<>>
  /\ \A n \in 1 .. Len(calls) : p[n] = PlanStep(p[n - 1], calls[n])

\* PlanToolExecutionWaves is computed by its steps, and its waves are clear.
LEMMA PlanUnfold ==
  ASSUME NEW C, NEW calls \in Seq(C)
  PROVE  \E p : PlanRun(C, calls, p)
<1> DEFINE N == Len(calls)
           D == Seq(Wave(C))
           d == <<>>
           F == [n \in 1 .. N |-> [x \in D |-> PlanStep(x, calls[n])]]
           Is(p) == p = [n \in 0 .. N |-> IF n = 0 THEN d ELSE PlanStep(p[n - 1], calls[n])]
           q == CHOOSE p : Is(p)
<1>1. N \in Nat /\ d \in D
  OBVIOUS
<1>2. \A n \in 1 .. N : \A x \in D : PlanStep(x, calls[n]) \in D
  BY PlanStepType
<1>3. PlanToolExecutionWaves(calls) = q[N]
  BY Zenon DEF PlanToolExecutionWaves, PlanStep
<1> HIDE DEF N, D, d
<1>4. F \in [1 .. N -> [D -> D]] /\ \A n \in 1 .. N : \A x \in D : F[n][x] = PlanStep(x, calls[n])
  BY <1>2
<1> HIDE DEF F
<1>5. PICK p \in [0 .. N -> D] : p[0] = d /\ \A n \in 1 .. N : p[n] = F[n][p[n - 1]]
  <2>1. Iterable(N, D, d, F)
    BY <1>1, <1>4 DEF Iterable
  <2>2. QED
    BY <2>1, Iteration
<1>6. Is(p)
  <2>1. \A n \in 1 .. N : p[n] = PlanStep(p[n - 1], calls[n])
    BY <1>1, <1>4, <1>5
  <2>2. \A n \in 0 .. N : p[n] = IF n = 0 THEN d ELSE PlanStep(p[n - 1], calls[n])
    BY <1>1, <1>5, <2>1
  <2>3. QED
    BY <2>2, <1>5
<1> HIDE DEF q
<1>7. Is(q)
  <2> HIDE DEF Is
  <2>1. QED
    BY <1>6 DEF q
<1>8. q[0] = d /\ \A n \in 1 .. N : q[n] = PlanStep(q[n - 1], calls[n])
  BY <1>1, <1>7
<1>9. q \in [0 .. N -> D]
  <2> DEFINE E == {n \in Nat : q[n] \in D}
  <2>1. 0 \in E /\ \A n \in 1 .. N : n - 1 \in E => n \in E
    BY <1>1, <1>2, <1>8
  <2> HIDE DEF E
  <2>2. \A n \in 0 .. N : n \in E
    BY <1>1, <2>1, UpTo
  <2>3. QED
    BY <1>7, <2>2 DEF E
<1>10. QED
  BY <1>3, <1>8, <1>9 DEF N, D, d, PlanRun

\* One step of IdenticalCalls.
IdenticalStep(act, n, r) ==
  IF messages[n].role = "user" THEN 0
  ELSE r + TimesAsked(messages[n], act)

\* A message asks for an act a number of times.
LEMMA TimesAskedType ==
  ASSUME NEW m \in Message, NEW act
  PROVE  TimesAsked(m, act) \in Nat
<1>1. m.calls \in Seq(CallT)
  BY DEF Message
<1> DEFINE K == {k \in DOMAIN m.calls : m.calls[k].act = act}
<1>2. IsFiniteSet(1 .. Len(m.calls)) /\ DOMAIN m.calls = 1 .. Len(m.calls)
  BY <1>1, FS_Interval
<1>3. IsFiniteSet(K)
  BY <1>2, FS_Subset
<1>4. Cardinality(K) \in Nat
  BY <1>3, FS_CardinalityType
<1>5. QED
  BY <1>4, Zenon DEF TimesAsked

\* The count stays a number.
LEMMA IdenticalStepType ==
  ASSUME messages \in Seq(Message), NEW act, NEW n \in 1 .. Len(messages), NEW r \in Nat
  PROVE  IdenticalStep(act, n, r) \in Nat
<1>1. TimesAsked(messages[n], act) \in Nat
  BY TimesAskedType
<1>2. QED
  BY <1>1 DEF IdenticalStep

\* p is the function that IdenticalCalls defines.
IdenticalRun(act, p) ==
  /\ p \in [0 .. Len(messages) -> Nat]
  /\ IdenticalCalls(act) = p[Len(messages)]
  /\ p[0] = 0
  /\ \A n \in 1 .. Len(messages) : p[n] = IdenticalStep(act, n, p[n - 1])

\* IdenticalCalls is computed by its steps.
LEMMA IdenticalUnfold ==
  ASSUME messages \in Seq(Message), NEW act
  PROVE  \E p : IdenticalRun(act, p)
<1> DEFINE N == Len(messages)
           D == Nat
           d == 0
           F == [n \in 1 .. N |-> [x \in D |-> IdenticalStep(act, n, x)]]
           Is(p) == p = [n \in 0 .. N |->
                                IF n = 0 \/ messages[n].role = "user" THEN 0 ELSE p[n - 1] + TimesAsked(messages[n], act)]
           q == CHOOSE p : Is(p)
<1>1. N \in Nat /\ d \in D
  OBVIOUS
<1>2. \A n \in 1 .. N : \A x \in D : IdenticalStep(act, n, x) \in D
  BY IdenticalStepType
<1>3. IdenticalCalls(act) = q[N]
  BY Zenon DEF IdenticalCalls
<1> HIDE DEF N, D, d
<1>4. F \in [1 .. N -> [D -> D]] /\ \A n \in 1 .. N : \A x \in D : F[n][x] = IdenticalStep(act, n, x)
  BY <1>2
<1> HIDE DEF F
<1>5. PICK p \in [0 .. N -> D] : p[0] = d /\ \A n \in 1 .. N : p[n] = F[n][p[n - 1]]
  <2>1. Iterable(N, D, d, F)
    BY <1>1, <1>4 DEF Iterable
  <2>2. QED
    BY <2>1, Iteration
<1>6. Is(p)
  <2>1. \A n \in 1 .. N : p[n] = IdenticalStep(act, n, p[n - 1])
    BY <1>1, <1>4, <1>5
  <2>2. \A n \in 0 .. N : p[n] =
                          IF n = 0 \/ messages[n].role = "user" THEN 0 ELSE p[n - 1] + TimesAsked(messages[n], act)
    BY <1>1, <1>5, <2>1 DEF IdenticalStep, d
  <2>3. QED
    BY <2>2, <1>5
<1> HIDE DEF q
<1>7. Is(q)
  <2> HIDE DEF Is
  <2>1. QED
    BY <1>6 DEF q
<1>8. q[0] = d /\ \A n \in 1 .. N : q[n] = IdenticalStep(act, n, q[n - 1])
  BY <1>1, <1>7 DEF IdenticalStep, d
<1>9. q \in [0 .. N -> D]
  <2> DEFINE E == {n \in Nat : q[n] \in D}
  <2>1. 0 \in E /\ \A n \in 1 .. N : n - 1 \in E => n \in E
    BY <1>1, <1>2, <1>8
  <2> HIDE DEF E
  <2>2. \A n \in 0 .. N : n \in E
    BY <1>1, <2>1, UpTo
  <2>3. QED
    BY <1>7, <2>2 DEF E
<1>10. QED
  BY <1>3, <1>8, <1>9 DEF N, D, d, IdenticalRun

\* The result of a call that was executed or blocked.
ResultT == [call : CallT, outcome : {"ok", "error", "killed"}]

\* One step of Collected: a result, and perhaps an alert behind it.
CollectStep(x, r) ==
  LET tool   == r.call.act.tool
      count  == IF tool \in TechnicalTools THEN 0
                ELSE IF r.outcome = "ok" THEN 0 ELSE x.failures[tool] + 1
      alert  == IF count >= 2 THEN <<Feedback>> ELSE <<>>
  IN  [messages |-> Append(x.messages, ToolMessage(r)) \o alert,
       failures |-> [x.failures EXCEPT ![tool] = count]]

\* What Collected computes.
Gathered == [messages : Seq(Message), failures : [Tools -> Nat]]

\* The message with an alert or a correction is a message.
LEMMA FeedbackType == Feedback \in Message
  BY DEF Feedback, TextMessage, Message, Ids

\* The message with the result of a call is a message.
LEMMA ToolMessageType ==
  ASSUME NEW r \in ResultT
  PROVE  ToolMessage(r) \in Message
<1>1. r.call.id \in Ids /\ r.call.act \in Acts /\ r.outcome \in {"ok", "error", "killed"}
  BY DEF ResultT, CallT, Ids
<1>2. r.call.act.tool \in Tools
  BY <1>1 DEF Tools
<1>3. QED
  BY <1>1, <1>2 DEF ToolMessage, Message

\* A result keeps the types.
LEMMA CollectStepType ==
  ASSUME NEW x \in Gathered, NEW r \in ResultT
  PROVE  CollectStep(x, r) \in Gathered
<1>1. r.call.act.tool \in Tools
  BY DEF ResultT, CallT, Tools
<1>2. x.messages \in Seq(Message) /\ x.failures \in [Tools -> Nat]
  BY DEF Gathered
<1> DEFINE tool   == r.call.act.tool
           count  == IF tool \in TechnicalTools THEN 0
                     ELSE IF r.outcome = "ok" THEN 0 ELSE x.failures[tool] + 1
           alert  == IF count >= 2 THEN <<Feedback>> ELSE <<>>
<1>3. count \in Nat
  BY <1>1, <1>2
<1> HIDE DEF count
<1>4. alert \in Seq(Message)
  BY FeedbackType
<1> HIDE DEF alert
<1>5. Append(x.messages, ToolMessage(r)) \o alert \in Seq(Message)
  <2> HIDE DEF alert
  <2>1. ToolMessage(r) \in Message
    BY ToolMessageType
  <2>2. Append(x.messages, ToolMessage(r)) \in Seq(Message)
    BY <1>2, <2>1
  <2>3. QED
    BY <1>4, <2>2
<1>6. [x.failures EXCEPT ![tool] = count] \in [Tools -> Nat]
  BY <1>1, <1>2, <1>3
<1>7. CollectStep(x, r) = [messages |-> Append(x.messages, ToolMessage(r)) \o alert,
                           failures |-> [x.failures EXCEPT ![tool] = count]]
  BY Zenon DEF CollectStep, alert, count
<1>8. QED
  BY <1>5, <1>6, <1>7 DEF Gathered

\* p is the function that Collected defines.
CollectedRun(p) ==
  /\ p \in [0 .. Len(results) -> Gathered]
  /\ Collected = p[Len(results)]
  /\ p[0] = [messages |-> messages, failures |-> failures]
  /\ \A n \in 1 .. Len(results) : p[n] = CollectStep(p[n - 1], results[n])

\* Collected is computed by its steps.
LEMMA CollectedUnfold ==
  ASSUME messages \in Seq(Message), failures \in [Tools -> Nat], results \in Seq(ResultT)
  PROVE  \E p : CollectedRun(p)
<1> DEFINE N == Len(results)
           D == Gathered
           d == [messages |-> messages, failures |-> failures]
           F == [n \in 1 .. N |-> [x \in D |-> CollectStep(x, results[n])]]
           Is(p) == p = [n \in 0 .. N |-> IF n = 0 THEN d ELSE CollectStep(p[n - 1], results[n])]
           q == CHOOSE p : Is(p)
<1>1. N \in Nat /\ d \in D
  BY DEF Gathered
<1>2. \A n \in 1 .. N : \A x \in D : CollectStep(x, results[n]) \in D
  BY CollectStepType
<1>3. Collected = q[N]
  BY Zenon DEF Collected, CollectStep
<1> HIDE DEF N, D, d
<1>4. F \in [1 .. N -> [D -> D]] /\ \A n \in 1 .. N : \A x \in D : F[n][x] = CollectStep(x, results[n])
  BY <1>2
<1> HIDE DEF F
<1>5. PICK p \in [0 .. N -> D] : p[0] = d /\ \A n \in 1 .. N : p[n] = F[n][p[n - 1]]
  <2>1. Iterable(N, D, d, F)
    BY <1>1, <1>4 DEF Iterable
  <2>2. QED
    BY <2>1, Iteration
<1>6. Is(p)
  <2>1. \A n \in 1 .. N : p[n] = CollectStep(p[n - 1], results[n])
    BY <1>1, <1>4, <1>5
  <2>2. \A n \in 0 .. N : p[n] = IF n = 0 THEN d ELSE CollectStep(p[n - 1], results[n])
    BY <1>1, <1>5, <2>1
  <2>3. QED
    BY <2>2, <1>5
<1> HIDE DEF q
<1>7. Is(q)
  <2> HIDE DEF Is
  <2>1. QED
    BY <1>6 DEF q
<1>8. q[0] = d /\ \A n \in 1 .. N : q[n] = CollectStep(q[n - 1], results[n])
  BY <1>1, <1>7
<1>9. q \in [0 .. N -> D]
  <2> DEFINE E == {n \in Nat : q[n] \in D}
  <2>1. 0 \in E /\ \A n \in 1 .. N : n - 1 \in E => n \in E
    BY <1>1, <1>2, <1>8
  <2> HIDE DEF E
  <2>2. \A n \in 0 .. N : n \in E
    BY <1>1, <2>1, UpTo
  <2>3. QED
    BY <1>7, <2>2 DEF E
<1>10. QED
  BY <1>3, <1>8, <1>9 DEF N, D, d, CollectedRun

\* The messages of a request.
RequestMessage == [role : {"user", "assistant"}, blocks : Seq(Block)]

\* What the pass of ensureToolResultPairing carries along.
Paired == [out : Seq(RequestMessage), seen : SUBSET Ids, skip : BOOLEAN]

\* One step of EnsureToolResultPairing.
PairStep(ms, n, x) ==
  LET m == ms[n] IN
  IF x.skip THEN [x EXCEPT !.skip = FALSE]
  ELSE IF m.role # "assistant"
  THEN [x EXCEPT !.out = RepairUser(x.out, m)]
  ELSE LET next == SubSeq(ms, n + 1, IF n < Len(ms) THEN n + 1 ELSE n)
           r == RepairAssistant(m, next, x.seen)
       IN  [out  |-> x.out \o r.adds,
            seen |-> x.seen \cup r.uses,
            skip |-> r.consumes]

-----------------------------------------------------------------------------
(* Sequences, and what Sift and Once keep of them.                         *)

\* The elements of a sequence with one more.
LEMMA AppendElements ==
  ASSUME NEW A, NEW s \in Seq(A), NEW x
  PROVE  ToSet(Append(s, x)) = ToSet(s) \cup {x}
<1>1. DOMAIN Append(s, x) = 1 .. Len(s) + 1 /\ DOMAIN s = 1 .. Len(s) /\ Len(s) \in Nat
  OBVIOUS
<1>2. Append(s, x)[Len(s) + 1] = x /\ \A k \in 1 .. Len(s) : Append(s, x)[k] = s[k]
  OBVIOUS
<1>3. \A k \in 1 .. Len(s) + 1 : k \in 1 .. Len(s) \/ k = Len(s) + 1
  BY <1>1
<1>4. Len(s) + 1 \in 1 .. Len(s) + 1 /\ \A k \in 1 .. Len(s) : k \in 1 .. Len(s) + 1
  BY <1>1
<1>5. QED
  BY <1>1, <1>2, <1>3, <1>4 DEF ToSet

\* The elements of two sequences.
LEMMA ConcatElements ==
  ASSUME NEW A, NEW s \in Seq(A), NEW t \in Seq(A)
  PROVE  ToSet(s \o t) = ToSet(s) \cup ToSet(t)
<1>1. DOMAIN (s \o t) = 1 .. Len(s) + Len(t)
  OBVIOUS
<1>2. \A k \in 1 .. Len(s) : (s \o t)[k] = s[k]
  OBVIOUS
<1>3. \A k \in 1 .. Len(t) : (s \o t)[k + Len(s)] = t[k]
  OBVIOUS
<1>4. \A k \in 1 .. Len(s) + Len(t) : k \in 1 .. Len(s) \/ k - Len(s) \in 1 .. Len(t)
  OBVIOUS
<1>5. ToSet(s \o t) \subseteq ToSet(s) \cup ToSet(t)
  <2>1. \A k \in 1 .. Len(s) + Len(t) : (s \o t)[k] \in ToSet(s) \cup ToSet(t)
    <3>1. SUFFICES ASSUME NEW k \in 1 .. Len(s) + Len(t) PROVE (s \o t)[k] \in ToSet(s) \cup ToSet(t)
      OBVIOUS
    <3>2. CASE k \in 1 .. Len(s)
      BY <1>2, <3>2 DEF ToSet
    <3>3. CASE k - Len(s) \in 1 .. Len(t)
      <4>1. (s \o t)[k] = t[k - Len(s)]
        BY <3>3
      <4>2. QED
        BY <4>1, <3>3 DEF ToSet
    <3>4. QED
      BY <1>4, <3>2, <3>3
  <2>2. QED
    BY <2>1, <1>1 DEF ToSet
<1>6. ToSet(s) \subseteq ToSet(s \o t)
  <2>1. \A k \in 1 .. Len(s) : k \in 1 .. Len(s) + Len(t)
    OBVIOUS
  <2>2. QED
    BY <1>1, <1>2, <2>1 DEF ToSet
<1>7. ToSet(t) \subseteq ToSet(s \o t)
  <2>1. SUFFICES ASSUME NEW k \in 1 .. Len(t) PROVE t[k] \in ToSet(s \o t)
    BY DEF ToSet
  <2>2. k + Len(s) \in 1 .. Len(s) + Len(t) /\ t[k] = (s \o t)[k + Len(s)]
    OBVIOUS
  <2>3. QED
    BY <1>1, <2>2 DEF ToSet
<1>8. QED
  BY <1>5, <1>6, <1>7

\* The elements of s that are in S have different ids.
Apart(s, S) == \A i, k \in DOMAIN s : i # k /\ s[i] \in S /\ s[k] \in S => s[i].id # s[k].id

\* What Sift keeps: the elements in S, each as often as it was there.
LEMMA SiftProperties ==
  ASSUME NEW A, NEW s \in Seq(A), NEW S
  PROVE  /\ Sift(s, S) \in Seq(A)
         /\ ToSet(Sift(s, S)) = ToSet(s) \cap S
         /\ Apart(Sift(s, S), S) <=> Apart(s, S)
<1>0. PICK p : SiftRun(A, s, S, p)
  BY SiftUnfold, Zenon
<1>1. /\ p \in [0 .. Len(s) -> Seq(A)]
      /\ Sift(s, S) = p[Len(s)]
      /\ p[0] = <<>>
      /\ \A n \in 1 .. Len(s) : p[n] = SiftStep(s, S, n, p[n - 1])
  BY <1>0 DEF SiftRun
<1> DEFINE Same(n) == ToSet(p[n]) = {s[k] : k \in 1 .. n} \cap S
           ApartTo(n) == \A i, k \in 1 .. n : i # k /\ s[i] \in S /\ s[k] \in S => s[i].id # s[k].id
           E == {n \in Nat : Same(n) /\ (Apart(p[n], S) <=> ApartTo(n))}
<1>2. 0 \in E
  BY <1>1 DEF ToSet, Apart
<1>3. ASSUME NEW n \in 1 .. Len(s), n - 1 \in E
      PROVE  n \in E
  <2> DEFINE t == p[n - 1]
  <2>1. t \in Seq(A) /\ n - 1 \in Nat /\ s[n] \in A
    BY <1>1
  <2>2. {s[k] : k \in 1 .. n} = {s[k] : k \in 1 .. n - 1} \cup {s[n]}
    <3>1. \A k \in 1 .. n : k \in 1 .. n - 1 \/ k = n
      OBVIOUS
    <3>2. \A k \in 1 .. n - 1 : k \in 1 .. n
      OBVIOUS
    <3>3. n \in 1 .. n
      OBVIOUS
    <3>4. QED
      BY <3>1, <3>2, <3>3
  <2>3. CASE s[n] \notin S
    <3>1. p[n] = t
      BY <1>1, <2>3 DEF SiftStep
    <3>2. Same(n)
      BY <1>3, <2>2, <2>3, <3>1
    <3>3. ApartTo(n) <=> ApartTo(n - 1)
      BY <2>3
    <3>4. QED
      BY <1>3, <3>1, <3>2, <3>3
  <2>4. CASE s[n] \in S
    <3>1. p[n] = Append(t, s[n])
      BY <1>1, <2>4 DEF SiftStep
    <3>2. Same(n)
      BY <1>3, <2>1, <2>2, <2>4, <3>1, AppendElements
    <3> DEFINE New == \A k \in 1 .. n - 1 : s[k] \in S => s[k].id # s[n].id
    <3>3. ApartTo(n) <=> ApartTo(n - 1) /\ New
      BY <2>4
    <3>4. Apart(p[n], S) <=> Apart(t, S) /\ \A x \in ToSet(t) : x \in S => x.id # s[n].id
      <4>1. DOMAIN p[n] = 1 .. Len(t) + 1 /\ p[n][Len(t) + 1] = s[n] /\ Len(t) \in Nat
        BY <2>1, <3>1
      <4>2. \A k \in 1 .. Len(t) : p[n][k] = t[k]
        BY <2>1, <3>1
      <4>3. DOMAIN t = 1 .. Len(t)
        BY <2>1
      <4> HIDE DEF t
      <4>4. ASSUME Apart(p[n], S), NEW k \in 1 .. Len(t), t[k] \in S
            PROVE  t[k].id # s[n].id
        BY <2>4, <4>1, <4>2, <4>4 DEF Apart
      <4>5. ASSUME Apart(p[n], S)
            PROVE  Apart(t, S)
        BY <4>1, <4>2, <4>3, <4>5 DEF Apart
      <4>6. ASSUME Apart(t, S), \A k \in 1 .. Len(t) : t[k] \in S => t[k].id # s[n].id
            PROVE  Apart(p[n], S)
        <5>1. \A k \in 1 .. Len(t) + 1 : k \in 1 .. Len(t) \/ k = Len(t) + 1
          BY <4>1
        <5>2. QED
          BY <4>1, <4>2, <4>3, <4>6, <5>1 DEF Apart
      <4>7. (\A x \in ToSet(t) : x \in S => x.id # s[n].id)
              <=> \A k \in 1 .. Len(t) : t[k] \in S => t[k].id # s[n].id
        BY <4>3 DEF ToSet
      <4>8. QED
        BY <4>4, <4>5, <4>6, <4>7
    <3>5. (\A x \in ToSet(t) : x \in S => x.id # s[n].id) <=> New
      BY <1>3
    <3>6. QED
      BY <1>3, <3>2, <3>3, <3>4, <3>5
  <2>5. QED
    BY <2>3, <2>4
<1> HIDE DEF E
<1>4. \A n \in 0 .. Len(s) : n \in E
  <2>1. Len(s) \in Nat
    OBVIOUS
  <2>2. QED
    BY <1>2, <1>3, <2>1, UpTo
<1>5. Len(s) \in E /\ Len(s) \in 0 .. Len(s)
  BY <1>4
<1>6. {s[k] : k \in 1 .. Len(s)} = ToSet(s) /\ DOMAIN s = 1 .. Len(s)
  BY DEF ToSet
<1>7. QED
  BY <1>1, <1>5, <1>6 DEF E, Apart

\* The elements of s have different ids.
Distinct(s) == \A i, k \in DOMAIN s : i # k => s[i].id # s[k].id

\* There are as many ids as elements if and only if the ids are different;
\* this is how ensureToolResultPairing sees that a result is repeated.
LEMMA CountIds ==
  ASSUME NEW A, NEW s \in Seq(A)
  PROVE  Distinct(s) <=> Len(s) = Cardinality(IdsOf(s))
<1> DEFINE f == [k \in 1 .. Len(s) |-> s[k].id]
<1>1. DOMAIN s = 1 .. Len(s) /\ Len(s) \in Nat
  OBVIOUS
<1>2. IsFiniteSet(1 .. Len(s)) /\ Cardinality(1 .. Len(s)) = Len(s)
  BY <1>1, FS_Interval
<1>3. f \in Surjection(1 .. Len(s), IdsOf(s))
  BY <1>1 DEF Surjection, IdsOf, ToSet
<1>4. Cardinality(IdsOf(s)) = Len(s) <=> f \in Injection(1 .. Len(s), IdsOf(s))
  <2> HIDE DEF f
  <2>1. QED
    BY <1>2, <1>3, FS_Surjection
<1>5. f \in Injection(1 .. Len(s), IdsOf(s)) <=> Distinct(s)
  <2>1. f \in [1 .. Len(s) -> IdsOf(s)]
    BY <1>1 DEF IdsOf, ToSet
  <2>2. QED
    BY <1>1, <2>1 DEF Injection, IsInjective, Distinct
<1>6. QED
  BY <1>4, <1>5

\* The results among blocks are those of ids, each once.
Answers(blocks, ids) ==
  /\ \A b \in ToSet(blocks) : IsResult(b) => b.id \in ids
  /\ \A i \in ids : \E b \in ToSet(blocks) : IsResult(b) /\ b.id = i
  /\ \A i, k \in DOMAIN blocks : i # k /\ IsResult(blocks[i]) /\ IsResult(blocks[k])
                                 => blocks[i].id # blocks[k].id

\* The results among blocks.
LEMMA SelectedResults ==
  ASSUME NEW blocks \in Seq(Block)
  PROVE  /\ Select(blocks, IsResult) \in Seq(Block)
         /\ \A b : b \in ToSet(Select(blocks, IsResult)) <=> b \in ToSet(blocks) /\ IsResult(b)
         /\ Distinct(Select(blocks, IsResult))
              <=> \A i, k \in DOMAIN blocks : i # k /\ IsResult(blocks[i]) /\ IsResult(blocks[k])
                                              => blocks[i].id # blocks[k].id
<1> DEFINE S == {x \in ToSet(blocks) : IsResult(x)}
           t == Select(blocks, IsResult)
<1>1. t = Sift(blocks, S)
  BY Zenon DEF Select
<1> HIDE DEF t, S
<1>2. t \in Seq(Block) /\ ToSet(t) = ToSet(blocks) \cap S /\ (Apart(t, S) <=> Apart(blocks, S))
  BY <1>1, SiftProperties
<1>3. \A b : b \in ToSet(t) <=> b \in ToSet(blocks) /\ IsResult(b)
  BY <1>2 DEF S
<1>4. \A k \in DOMAIN t : t[k] \in S
  BY <1>2 DEF ToSet
<1>5. Distinct(t) <=> Apart(t, S)
  BY <1>4 DEF Distinct, Apart
<1>6. \A k \in DOMAIN blocks : blocks[k] \in S <=> IsResult(blocks[k])
  BY DEF S, ToSet
<1>7. Apart(blocks, S)
        <=> \A i, k \in DOMAIN blocks : i # k /\ IsResult(blocks[i]) /\ IsResult(blocks[k])
                                        => blocks[i].id # blocks[k].id
  BY <1>6 DEF Apart
<1>8. QED
  BY <1>2, <1>3, <1>5, <1>7 DEF t

\* Answers, in the words of WellPaired.
LEMMA AnswersCounted ==
  ASSUME NEW blocks \in Seq(Block), NEW ids
  PROVE  Answers(blocks, ids)
           <=> /\ IdsOf(Select(blocks, IsResult)) = ids
               /\ Len(Select(blocks, IsResult)) = Cardinality(ids)
<1> DEFINE t == Select(blocks, IsResult)
<1>1. /\ t \in Seq(Block)
      /\ \A b : b \in ToSet(t) <=> b \in ToSet(blocks) /\ IsResult(b)
      /\ Distinct(t) <=> \A i, k \in DOMAIN blocks : i # k /\ IsResult(blocks[i]) /\ IsResult(blocks[k])
                                                     => blocks[i].id # blocks[k].id
  BY SelectedResults
<1> HIDE DEF t
<1>2. Distinct(t) <=> Len(t) = Cardinality(IdsOf(t))
  BY <1>1, CountIds
<1>3. IdsOf(t) = ids <=> /\ \A b \in ToSet(blocks) : IsResult(b) => b.id \in ids
                         /\ \A i \in ids : \E b \in ToSet(blocks) : IsResult(b) /\ b.id = i
  <2>1. IdsOf(t) \subseteq ids <=> \A b \in ToSet(blocks) : IsResult(b) => b.id \in ids
    BY <1>1 DEF IdsOf
  <2>2. ids \subseteq IdsOf(t) <=> \A i \in ids : \E b \in ToSet(blocks) : IsResult(b) /\ b.id = i
    BY <1>1 DEF IdsOf
  <2>3. QED
    BY <2>1, <2>2
<1>4. QED
  BY <1>1, <1>2, <1>3 DEF Answers, t

\* The blocks of these kinds are different.
OnceProperties(blocks, kinds, known, t) ==
  /\ t \in Seq(Block)
  /\ ToSet(t) \subseteq ToSet(blocks)
  /\ \A b \in ToSet(blocks) : b.kind \notin kinds \/ b.id \notin known => b \in ToSet(t)
  /\ \A b \in ToSet(t) : b.kind \in kinds => b.id \notin known
  /\ \A i, k \in DOMAIN t : i # k /\ t[i].kind \in kinds => t[i] # t[k]

\* What Once keeps.
LEMMA OnceKept ==
  ASSUME NEW blocks \in Seq(Block), NEW kinds, NEW known
  PROVE  OnceProperties(blocks, kinds, known, Once(blocks, kinds, known))
<1>0. PICK p : OnceRun(blocks, kinds, known, p)
  BY OnceUnfold, Zenon
<1>1. /\ p \in [0 .. Len(blocks) -> Seq(Block)]
      /\ Once(blocks, kinds, known) = p[Len(blocks)]
      /\ p[0] = <<>>
      /\ \A n \in 1 .. Len(blocks) : p[n] = OnceStep(blocks, kinds, known, n, p[n - 1])
  BY <1>0 DEF OnceRun
<1> DEFINE Before(n) == {blocks[k] : k \in 1 .. n}
           Good(n) == /\ ToSet(p[n]) \subseteq Before(n)
                      /\ \A b \in Before(n) : b.kind \notin kinds \/ b.id \notin known => b \in ToSet(p[n])
                      /\ \A b \in ToSet(p[n]) : b.kind \in kinds => b.id \notin known
                      /\ \A i, k \in DOMAIN p[n] : i # k /\ p[n][i].kind \in kinds => p[n][i] # p[n][k]
           E == {n \in Nat : Good(n)}
<1>2. 0 \in E
  BY <1>1 DEF ToSet
<1>3. ASSUME NEW n \in 1 .. Len(blocks), n - 1 \in E
      PROVE  n \in E
  <2> DEFINE t == p[n - 1]
             b == blocks[n]
             drops == b.kind \in kinds /\ (b.id \in known \/ Contains(t, b))
  <2>1. t \in Seq(Block) /\ n - 1 \in Nat
    BY <1>1
  <2>2. Before(n) = Before(n - 1) \cup {b}
    <3>1. \A k \in 1 .. n : k \in 1 .. n - 1 \/ k = n
      OBVIOUS
    <3>2. (\A k \in 1 .. n - 1 : k \in 1 .. n) /\ n \in 1 .. n
      OBVIOUS
    <3>3. QED
      BY <3>1, <3>2
  <2>3. Contains(t, b) <=> b \in ToSet(t)
    BY <2>1 DEF Contains, ToSet
  <2>4. Good(n - 1)
    BY <1>3
  <2>5. CASE drops
    <3>1. p[n] = t
      BY <1>1, <2>5 DEF OnceStep
    <3>2. Good(n)
      BY <2>2, <2>3, <2>4, <2>5, <3>1
    <3>3. QED
      BY <3>2
  <2>6. CASE ~ drops
    <3>1. p[n] = Append(t, b)
      BY <1>1, <2>6 DEF OnceStep
    <3>2. ToSet(p[n]) = ToSet(t) \cup {b}
      BY <2>1, <3>1, AppendElements
    <3>3. DOMAIN p[n] = 1 .. Len(t) + 1 /\ p[n][Len(t) + 1] = b /\ Len(t) \in Nat
      BY <2>1, <3>1
    <3>4. \A k \in 1 .. Len(t) : p[n][k] = t[k]
      BY <2>1, <3>1
    <3>5. \A k \in 1 .. Len(t) + 1 : k \in 1 .. Len(t) \/ k = Len(t) + 1
      BY <3>3
    <3>6. DOMAIN t = 1 .. Len(t) /\ \A k \in 1 .. Len(t) : t[k] \in ToSet(t)
      BY <2>1 DEF ToSet
    <3>7. \A i, k \in DOMAIN p[n] : i # k /\ p[n][i].kind \in kinds => p[n][i] # p[n][k]
      <4> HIDE DEF t, b
      <4>1. \A i, k \in 1 .. Len(t) : i # k /\ t[i].kind \in kinds => t[i] # t[k]
        BY <2>4, <3>6 DEF t
      <4>2. b.kind \in kinds => \A k \in 1 .. Len(t) : t[k] # b
        BY <2>3, <2>6, <3>6
      <4>3. QED
        BY <3>3, <3>4, <3>5, <4>1, <4>2
    <3>8. Good(n)
      <4> HIDE DEF Before
      <4>1. QED
        BY <2>2, <2>3, <2>4, <2>6, <3>2, <3>7
    <3>9. QED
      BY <3>8
  <2>7. QED
    BY <2>5, <2>6
<1> HIDE DEF E
<1>4. \A n \in 0 .. Len(blocks) : n \in E
  <2>1. Len(blocks) \in Nat
    OBVIOUS
  <2>2. QED
    BY <1>2, <1>3, <2>1, UpTo
<1>5. Len(blocks) \in E /\ Len(blocks) \in 0 .. Len(blocks)
  BY <1>4
<1>6. Before(Len(blocks)) = ToSet(blocks)
  BY DEF ToSet
<1>7. Good(Len(blocks))
  BY <1>5 DEF E
<1> HIDE DEF Before
<1>8. QED
  BY <1>1, <1>6, <1>7 DEF OnceProperties

-----------------------------------------------------------------------------
(* The repair of a request: the calls of a message, the placeholders for the *)
(* results they lack, and the message behind it without the others.        *)

\* The messages of a request before the repair.
Raw(m) ==
  \A b \in ToSet(m.blocks) :
    /\ m.role = "user" => ~ IsUse(b) /\ (IsResult(b) => b.kind = "result")
    /\ m.role = "assistant" => ~ IsResult(b)

\* The ids of the calls of a message.
UsesOf(m) == {b.id : b \in {x \in ToSet(m.blocks) : IsUse(x)}}

\* The calls among blocks.
LEMMA SelectedUses ==
  ASSUME NEW blocks \in Seq(Block)
  PROVE  /\ Select(blocks, IsUse) \in Seq(Block)
         /\ \A b : b \in ToSet(Select(blocks, IsUse)) <=> b \in ToSet(blocks) /\ IsUse(b)
         /\ (\A i, k \in DOMAIN blocks : i # k /\ IsUse(blocks[i]) /\ IsUse(blocks[k])
                                        => blocks[i].id # blocks[k].id)
            => Distinct(Select(blocks, IsUse))
<1> DEFINE S == {x \in ToSet(blocks) : IsUse(x)}
           t == Select(blocks, IsUse)
<1>1. t = Sift(blocks, S)
  BY Zenon DEF Select
<1> HIDE DEF t, S
<1>2. t \in Seq(Block) /\ ToSet(t) = ToSet(blocks) \cap S /\ (Apart(t, S) <=> Apart(blocks, S))
  BY <1>1, SiftProperties
<1>3. \A b : b \in ToSet(t) <=> b \in ToSet(blocks) /\ IsUse(b)
  BY <1>2 DEF S
<1>4. \A k \in DOMAIN t : t[k] \in S
  BY <1>2 DEF ToSet
<1>5. Distinct(t) <=> Apart(t, S)
  BY <1>4 DEF Distinct, Apart
<1>6. \A k \in DOMAIN blocks : blocks[k] \in S <=> IsUse(blocks[k])
  BY DEF S, ToSet
<1>7. (\A i, k \in DOMAIN blocks : i # k /\ IsUse(blocks[i]) /\ IsUse(blocks[k])
                                  => blocks[i].id # blocks[k].id) => Apart(blocks, S)
  BY <1>6 DEF Apart
<1>8. QED
  BY <1>2, <1>3, <1>5, <1>7 DEF t

\* The call blocks that the repair keeps.
LEMMA KeptCalls ==
  ASSUME NEW m \in RequestMessage, Raw(m), m.role = "assistant", NEW seen, NEW kept, NEW uses,
         kept = Once(m.blocks, UseKind, seen), uses = Select(kept, IsUse)
  PROVE  /\ kept \in Seq(Block) /\ uses \in Seq(Block)
         /\ ToSet(kept) \subseteq ToSet(m.blocks)
         /\ \A b : b \in ToSet(uses) <=> b \in ToSet(kept) /\ IsUse(b)
         /\ \A b \in ToSet(m.blocks) : b.id \notin seen => b \in ToSet(kept)
         /\ Distinct(uses)
<1>1. m.blocks \in Seq(Block)
  BY DEF RequestMessage
<1>2. OnceProperties(m.blocks, UseKind, seen, kept)
  BY <1>1, OnceKept
<1>3. kept \in Seq(Block)
  BY <1>2 DEF OnceProperties
<1>4. ASSUME NEW i \in DOMAIN kept, NEW k \in DOMAIN kept, i # k, IsUse(kept[i]), IsUse(kept[k])
      PROVE  kept[i].id # kept[k].id
  <2>1. kept[i] # kept[k]
    BY <1>2, <1>4 DEF OnceProperties, IsUse
  <2>2. kept[i].kind = kept[k].kind
    BY <1>4 DEF IsUse, UseKind
  <2>3. kept[i] \in Block /\ kept[k] \in Block
    BY <1>3
  <2>4. QED
    BY <2>1, <2>2, <2>3 DEF Block
<1>5. /\ uses \in Seq(Block)
      /\ \A b : b \in ToSet(uses) <=> b \in ToSet(kept) /\ IsUse(b)
      /\ Distinct(uses)
  BY <1>3, <1>4, SelectedUses
<1>6. QED
  BY <1>2, <1>5 DEF OnceProperties

\* The calls that no result answers, and a placeholder for each.
LEMMA UnansweredCalls ==
  ASSUME NEW uses \in Seq(Block), Distinct(uses), NEW answers
  PROVE  /\ Unanswered(uses, answers) \in Seq(Block)
         /\ Unanswered(uses, answers) = <<>> <=> IdsOf(uses) \subseteq IdsOf(answers)
         /\ IdsOf(Unanswered(uses, answers)) = IdsOf(uses) \ IdsOf(answers)
         /\ Distinct(Unanswered(uses, answers))
<1> DEFINE S == {x \in ToSet(uses) : x.id \notin IdsOf(answers)}
           missing == Unanswered(uses, answers)
<1>1. missing = Sift(uses, S)
  BY Zenon DEF Select, Unanswered
<1> HIDE DEF S, missing
<1>2. missing \in Seq(Block) /\ ToSet(missing) = ToSet(uses) \cap S
      /\ (Apart(missing, S) <=> Apart(uses, S))
  BY <1>1, SiftProperties
<1>3. \A b : b \in ToSet(missing) <=> b \in ToSet(uses) /\ b.id \notin IdsOf(answers)
  BY <1>2 DEF S
<1>4. Distinct(missing)
  <2>1. \A k \in DOMAIN missing : missing[k] \in S
    BY <1>2 DEF ToSet
  <2>2. Apart(uses, S)
    BY DEF Apart, Distinct
  <2>3. QED
    BY <1>2, <2>1, <2>2 DEF Apart, Distinct
<1>5. missing = <<>> <=> ToSet(missing) = {}
  BY <1>2 DEF ToSet
<1>6. IdsOf(missing) = IdsOf(uses) \ IdsOf(answers)
  <2>1. \A i : i \in IdsOf(missing) <=> \E b \in ToSet(uses) : b.id \notin IdsOf(answers) /\ i = b.id
    BY <1>3 DEF IdsOf
  <2>2. \A i : i \in IdsOf(uses) <=> \E b \in ToSet(uses) : i = b.id
    BY DEF IdsOf
  <2>3. QED
    BY <2>1, <2>2
<1>7. missing = <<>> <=> IdsOf(missing) = {}
  BY <1>5 DEF IdsOf
<1>8. QED
  BY <1>2, <1>4, <1>6, <1>7 DEF missing

\* The placeholders for missing results.
LEMMA PlaceholderBlocks ==
  ASSUME NEW missing \in Seq(Block), Distinct(missing)
  PROVE  /\ Placeholders(missing) \in Seq(Block)
         /\ \A b \in ToSet(Placeholders(missing)) : b.kind = "missing"
         /\ IdsOf(Placeholders(missing)) = IdsOf(missing)
         /\ Distinct(Placeholders(missing))
<1> DEFINE t == Placeholders(missing)
<1>1. /\ DOMAIN missing = 1 .. Len(missing) /\ Len(missing) \in Nat
      /\ \A k \in DOMAIN missing : missing[k] \in Block
  OBVIOUS
<1>2. t = [k \in DOMAIN missing |-> MissingBlock(missing[k].id)]
  BY DEF Placeholders
<1>3. \A k \in DOMAIN missing : MissingBlock(missing[k].id) \in Block
  BY <1>1 DEF MissingBlock, Block
<1>4. t \in [1 .. Len(missing) -> Block]
  BY <1>1, <1>2, <1>3
<1>5. t \in Seq(Block)
  BY <1>1, <1>4
<1>6. \A k \in DOMAIN missing : t[k].kind = "missing" /\ t[k].id = missing[k].id
  BY <1>2 DEF MissingBlock
<1>7. DOMAIN t = DOMAIN missing
  BY <1>2
<1> HIDE DEF t
<1>8. \A b \in ToSet(t) : b.kind = "missing"
  BY <1>6, <1>7 DEF ToSet
<1>9. IdsOf(t) = IdsOf(missing)
  BY <1>6, <1>7 DEF ToSet, IdsOf
<1>10. Distinct(t)
  BY <1>6, <1>7 DEF Distinct
<1>11. QED
  BY <1>5, <1>8, <1>9, <1>10 DEF t

\* What is left of the blocks of a message when results that no call of U asked
\* for and repeated results are removed.
Cleaned(blocks, U, cleaned) ==
  LET answers == Select(blocks, IsResult)
      gone    == IdsOf(answers) \ U
  IN  \/ gone = {} /\ Len(answers) = Cardinality(IdsOf(answers)) /\ cleaned = blocks
      \/ cleaned = Once(Sift(blocks, {b \in ToSet(blocks) : ~ (IsResult(b) /\ b.id \in gone)}),
                        ResultKinds, {})

\* The results that are left are the ones that were asked for, each once.
LEMMA CleanedBlocks ==
  ASSUME NEW blocks \in Seq(Block),
         \A b \in ToSet(blocks) : IsResult(b) => b.kind = "result",
         NEW U, NEW cleaned, Cleaned(blocks, U, cleaned)
  PROVE  /\ cleaned \in Seq(Block)
         /\ ToSet(cleaned) \subseteq ToSet(blocks)
         /\ \A b \in ToSet(blocks) : IsResult(b) /\ b.id \in U => b \in ToSet(cleaned)
         /\ Answers(cleaned, U \cap IdsOf(Select(blocks, IsResult)))
<1> DEFINE R == IdsOf(Select(blocks, IsResult))
           gone == R \ U
<1>0. \/ gone = {} /\ Len(Select(blocks, IsResult)) = Cardinality(R) /\ cleaned = blocks
      \/ cleaned = Once(Sift(blocks, {b \in ToSet(blocks) : ~ (IsResult(b) /\ b.id \in gone)}),
                        ResultKinds, {})
  BY Zenon DEF Cleaned
<1> DEFINE t == Select(blocks, IsResult)
<1>1. /\ t \in Seq(Block)
      /\ \A b : b \in ToSet(t) <=> b \in ToSet(blocks) /\ IsResult(b)
      /\ Distinct(t) <=> \A i, k \in DOMAIN blocks : i # k /\ IsResult(blocks[i]) /\ IsResult(blocks[k])
                                                     => blocks[i].id # blocks[k].id
  BY SelectedResults
<1>2. R = {b.id : b \in ToSet(t)}
  BY DEF IdsOf
<1> HIDE DEF gone
<1> HIDE DEF t, R
<1>3. \A b \in ToSet(blocks) : IsResult(b) => b.id \in R
  BY <1>1, <1>2
<1>4. \A i \in R : \E b \in ToSet(blocks) : IsResult(b) /\ b.id = i
  BY <1>1, <1>2
<1>5. CASE gone = {} /\ Len(Select(blocks, IsResult)) = Cardinality(R) /\ cleaned = blocks
  <2>1. Distinct(t)
    BY <1>1, <1>5, CountIds DEF t, R
  <2>2. R \subseteq U
    BY <1>5 DEF gone
  <2>3. QED
    BY <1>1, <1>3, <1>4, <1>5, <2>1, <2>2 DEF Answers, R
<1>6. CASE cleaned = Once(Sift(blocks, {b \in ToSet(blocks) : ~ (IsResult(b) /\ b.id \in gone)}),
                          ResultKinds, {})
  <2> DEFINE S == {b \in ToSet(blocks) : ~ (IsResult(b) /\ b.id \in gone)}
             asked == Sift(blocks, S)
  <2>1. cleaned = Once(asked, ResultKinds, {})
    BY <1>6
  <2> HIDE DEF S
  <2>2. asked \in Seq(Block) /\ ToSet(asked) = ToSet(blocks) \cap S
    BY SiftProperties
  <2> HIDE DEF asked
  <2>3. OnceProperties(asked, ResultKinds, {}, cleaned)
    BY <2>1, <2>2, OnceKept
  <2>4. \A b : b \in ToSet(asked) <=> b \in ToSet(blocks) /\ ~ (IsResult(b) /\ b.id \in gone)
    BY <2>2 DEF S
  <2>5. cleaned \in Seq(Block) /\ ToSet(cleaned) = ToSet(asked)
    BY <2>3 DEF OnceProperties
  <2>6. ASSUME NEW i \in DOMAIN cleaned, NEW k \in DOMAIN cleaned, i # k,
               IsResult(cleaned[i]), IsResult(cleaned[k])
        PROVE  cleaned[i].id # cleaned[k].id
    <3>1. cleaned[i] # cleaned[k]
      BY <2>3, <2>6 DEF OnceProperties, IsResult
    <3>2. cleaned[i] \in ToSet(blocks) /\ cleaned[k] \in ToSet(blocks)
      BY <2>4, <2>5 DEF ToSet
    <3>3. cleaned[i].kind = cleaned[k].kind
      BY <2>6, <3>2
    <3>4. cleaned[i] \in Block /\ cleaned[k] \in Block
      BY <2>5
    <3>5. QED
      BY <3>1, <3>3, <3>4 DEF Block
  <2>7. \A b \in ToSet(cleaned) : IsResult(b) => b.id \in U \cap R
    BY <1>3, <2>4, <2>5 DEF gone
  <2>8. \A b \in ToSet(blocks) : IsResult(b) /\ b.id \in U => b \in ToSet(cleaned)
    BY <2>4, <2>5 DEF gone
  <2>9. \A i \in U \cap R : \E b \in ToSet(cleaned) : IsResult(b) /\ b.id = i
    BY <1>4, <2>8
  <2>10. ToSet(cleaned) \subseteq ToSet(blocks)
    BY <2>4, <2>5
  <2>11. QED
    BY <2>5, <2>6, <2>7, <2>8, <2>9, <2>10 DEF Answers, R
<1>7. QED
  BY <1>0, <1>5, <1>6 DEF R

\* Placeholders before cleaned blocks.
LEMMA PatchedBlocks ==
  ASSUME NEW ph \in Seq(Block), \A b \in ToSet(ph) : b.kind = "missing", Distinct(ph),
         NEW cleaned \in Seq(Block), NEW X, NEW Y, X \cap Y = {},
         IdsOf(ph) = X, Answers(cleaned, Y)
  PROVE  /\ ph \o cleaned \in Seq(Block)
         /\ ToSet(ph \o cleaned) = ToSet(ph) \cup ToSet(cleaned)
         /\ Answers(ph \o cleaned, X \cup Y)
<1> DEFINE t == ph \o cleaned
<1>1. /\ t \in Seq(Block) /\ Len(ph) \in Nat /\ Len(cleaned) \in Nat
      /\ DOMAIN t = 1 .. Len(ph) + Len(cleaned) /\ DOMAIN ph = 1 .. Len(ph)
      /\ DOMAIN cleaned = 1 .. Len(cleaned)
  OBVIOUS
<1>2. \A k \in 1 .. Len(ph) : t[k] = ph[k]
  OBVIOUS
<1>3. \A k \in DOMAIN t : k \notin 1 .. Len(ph)
        => k - Len(ph) \in 1 .. Len(cleaned) /\ t[k] = cleaned[k - Len(ph)]
  <2>1. TAKE k \in DOMAIN t
  <2>2. HAVE k \notin 1 .. Len(ph)
  <2>3. k - Len(ph) \in 1 .. Len(cleaned)
    BY <1>1, <2>2
  <2>4. QED
    BY <1>1, <2>2, <2>3
<1>4. ToSet(t) = ToSet(ph) \cup ToSet(cleaned)
  BY ConcatElements
<1> HIDE DEF t
<1>5. \A b \in ToSet(ph) : IsResult(b) /\ b.id \in X
  BY DEF IsResult, ResultKinds, IdsOf
<1>6. \A i \in X : \E b \in ToSet(ph) : b.id = i
  BY DEF IdsOf
<1>7. ASSUME NEW i \in DOMAIN t, NEW k \in DOMAIN t, i # k, IsResult(t[i]), IsResult(t[k])
      PROVE  t[i].id # t[k].id
  <2>1. \A n \in 1 .. Len(ph) : t[n].id \in X
    BY <1>1, <1>2, <1>5 DEF ToSet
  <2>2. \A n \in DOMAIN t : n \notin 1 .. Len(ph) /\ IsResult(t[n]) => t[n].id \in Y
    BY <1>1, <1>3 DEF ToSet, Answers
  <2>3. CASE i \in 1 .. Len(ph) /\ k \in 1 .. Len(ph)
    BY <1>1, <1>2, <1>7, <2>3 DEF Distinct
  <2>4. CASE i \notin 1 .. Len(ph) /\ k \notin 1 .. Len(ph)
    <3>1. i - Len(ph) \in DOMAIN cleaned /\ k - Len(ph) \in DOMAIN cleaned /\ i - Len(ph) # k - Len(ph)
      BY <1>1, <1>3, <1>7, <2>4
    <3>2. t[i] = cleaned[i - Len(ph)] /\ t[k] = cleaned[k - Len(ph)]
      BY <1>3, <2>4
    <3>3. QED
      BY <1>7, <3>1, <3>2 DEF Answers
  <2>5. QED
    BY <1>7, <2>1, <2>2, <2>3, <2>4
<1>8. \A b \in ToSet(t) : IsResult(b) => b.id \in X \cup Y
  BY <1>4, <1>5 DEF Answers
<1>9. \A i \in X \cup Y : \E b \in ToSet(t) : IsResult(b) /\ b.id = i
  BY <1>4, <1>5, <1>6 DEF Answers
<1>10. QED
  BY <1>1, <1>4, <1>7, <1>8, <1>9 DEF Answers, t

\* The message behind is the user's.
Answered(next) == next # <<>> /\ next[1].role = "user"

\* The repaired message f and, unless the message behind it answers it, the user
\* message u that does.
Repaired(m, next, seen, r, f) ==
  /\ f \in RequestMessage /\ f.role = "assistant"
  /\ \A b \in ToSet(f.blocks) : ~ IsResult(b)
  /\ UsesOf(f) = r.uses
  /\ \A b \in ToSet(m.blocks) : IsUse(b) /\ b.id \notin seen => b.id \in r.uses
  /\ UsesOf(f) \subseteq UsesOf(m)
  /\ \/ /\ r.adds = <<f>> /\ ~ r.consumes
        /\ IF Answered(next) THEN Answers(next[1].blocks, r.uses) ELSE r.uses = {}
     \/ \E u \in RequestMessage :
          /\ r.adds = <<f, u>> /\ u.role = "user"
          /\ (r.consumes <=> Answered(next))
          /\ \A b \in ToSet(u.blocks) : ~ IsUse(b)
          /\ Answers(u.blocks, r.uses)
          /\ Answered(next) => \A b \in ToSet(next[1].blocks) :
                                 b.kind = "result" /\ b.id \in r.uses => b \in ToSet(u.blocks)

\* RepairAssistant, case by case.
LEMMA RepairedMessage ==
  ASSUME NEW m \in RequestMessage, Raw(m), m.role = "assistant",
         NEW next \in Seq(RequestMessage), next # <<>> => Raw(next[1]),
         NEW seen
  PROVE  /\ RepairAssistant(m, next, seen).consumes \in BOOLEAN
         /\ RepairAssistant(m, next, seen).uses \in SUBSET Ids
         /\ \E f : Repaired(m, next, seen, RepairAssistant(m, next, seen), f)
<1> DEFINE kept     == Once(m.blocks, UseKind, seen)
           final    == [m EXCEPT !.blocks = IF kept = <<>> THEN <<TextBlock>> ELSE kept]
           uses     == Select(kept, IsUse)
           answered == next # <<>> /\ next[1].role = "user"
           answers  == IF answered THEN Select(next[1].blocks, IsResult) ELSE <<>>
           missing  == Unanswered(uses, answers)
           orphaned == IdsOf(answers) \ IdsOf(uses)
           repeated == Len(answers) # Cardinality(IdsOf(answers))
           cleaned  == IF orphaned = {} /\ ~ repeated THEN next[1].blocks
                       ELSE Once(Select(next[1].blocks, LAMBDA b : ~ (IsResult(b) /\ b.id \in orphaned)),
                                 ResultKinds, {})
           ph       == Placeholders(missing)
           patched  == ph \o cleaned
           U        == IdsOf(uses)
           u        == UserMessage(IF patched = <<>> THEN <<TextBlock>> ELSE patched)
           r        == RepairAssistant(m, next, seen)
<1>1. r = IF missing = <<>> /\ orphaned = {} /\ ~ repeated
          THEN [adds |-> <<final>>, consumes |-> FALSE, uses |-> U]
          ELSE IF answered
          THEN [adds |-> <<final, u>>, consumes |-> TRUE, uses |-> U]
          ELSE [adds |-> <<final, UserMessage(ph)>>, consumes |-> FALSE, uses |-> U]
  BY Zenon DEF RepairAssistant
<1>2. /\ kept \in Seq(Block) /\ uses \in Seq(Block)
      /\ ToSet(kept) \subseteq ToSet(m.blocks)
      /\ \A b : b \in ToSet(uses) <=> b \in ToSet(kept) /\ IsUse(b)
      /\ \A b \in ToSet(m.blocks) : b.id \notin seen => b \in ToSet(kept)
      /\ Distinct(uses)
  BY KeptCalls
<1>3. answered <=> Answered(next)
  BY DEF Answered
<1>4. answered => /\ next[1] \in RequestMessage /\ next[1].blocks \in Seq(Block)
                  /\ \A b \in ToSet(next[1].blocks) : ~ IsUse(b) /\ (IsResult(b) => b.kind = "result")
  <2>1. SUFFICES ASSUME answered
                 PROVE  /\ next[1] \in RequestMessage /\ next[1].blocks \in Seq(Block)
                        /\ \A b \in ToSet(next[1].blocks) : ~ IsUse(b) /\ (IsResult(b) => b.kind = "result")
    OBVIOUS
  <2>2. next[1] \in RequestMessage
    BY <2>1
  <2>3. Raw(next[1]) /\ next[1].role = "user"
    BY <2>1
  <2>4. QED
    BY <2>2, <2>3 DEF RequestMessage, Raw
<1>5. TextBlock \in Block /\ ~ IsUse(TextBlock) /\ ~ IsResult(TextBlock)
  BY DEF TextBlock, Block, Ids, IsUse, IsResult, UseKind, ResultKinds
<1>6. ToSet(<<TextBlock>>) = {TextBlock} /\ <<TextBlock>> \in Seq(Block)
  BY <1>5 DEF ToSet
<1> HIDE DEF kept, uses
<1>7. U \in SUBSET Ids
  <2>1. \A b \in ToSet(uses) : b \in Block
    BY <1>2 DEF ToSet
  <2>2. QED
    BY <2>1 DEF IdsOf, Block
<1>8. /\ final \in RequestMessage /\ final.role = "assistant"
      /\ \A b \in ToSet(final.blocks) : ~ IsResult(b)
      /\ UsesOf(final) = U /\ UsesOf(final) \subseteq UsesOf(m)
  <2> DEFINE blocks == IF kept = <<>> THEN <<TextBlock>> ELSE kept
  <2>1. blocks \in Seq(Block)
    BY <1>2, <1>6
  <2>2. \A b \in ToSet(blocks) : ~ IsResult(b)
    BY <1>2, <1>5, <1>6 DEF Raw
  <2>3. kept = <<>> => ToSet(kept) = {}
    BY DEF ToSet
  <2>4. \A b : b \in ToSet(blocks) /\ IsUse(b) <=> b \in ToSet(uses)
    BY <1>2, <1>5, <1>6, <2>3
  <2> HIDE DEF blocks
  <2>5. final = [m EXCEPT !.blocks = blocks]
    BY DEF blocks
  <2>6. final \in RequestMessage /\ final.role = "assistant" /\ final.blocks = blocks
    BY <2>1, <2>5 DEF RequestMessage
  <2>7. UsesOf(final) = U
    BY <2>4, <2>6 DEF UsesOf, IdsOf
  <2>8. U \subseteq UsesOf(m)
    BY <1>2 DEF UsesOf, IdsOf
  <2>9. QED
    BY <2>2, <2>6, <2>7, <2>8
<1>9. \A b \in ToSet(m.blocks) : IsUse(b) /\ b.id \notin seen => b.id \in U
  BY <1>2 DEF IdsOf
<1> HIDE DEF final
<1>10. /\ missing \in Seq(Block)
       /\ missing = <<>> <=> U \subseteq IdsOf(answers)
       /\ IdsOf(missing) = U \ IdsOf(answers)
       /\ Distinct(missing)
  <2> HIDE DEF answers
  <2>1. QED
    BY <1>2, UnansweredCalls
<1> HIDE DEF missing
<1>11. /\ ph \in Seq(Block)
       /\ \A b \in ToSet(ph) : b.kind = "missing"
       /\ IdsOf(ph) = U \ IdsOf(answers)
       /\ Distinct(ph)
  <2> HIDE DEF answers
  <2>1. QED
    BY <1>10, PlaceholderBlocks
<1> HIDE DEF ph
<1>12. ~ answered => IdsOf(answers) = {}
  BY DEF IdsOf, ToSet
<1>13. CASE missing = <<>> /\ orphaned = {} /\ ~ repeated
  <2>1. r = [adds |-> <<final>>, consumes |-> FALSE, uses |-> U]
    BY <1>1, <1>13
  <2>2. IdsOf(answers) = U
    BY <1>10, <1>13
  <2>3. ASSUME answered
        PROVE  Answers(next[1].blocks, U)
    <3>1. answers = Select(next[1].blocks, IsResult)
      BY <2>3
    <3> HIDE DEF answers
    <3>2. Len(answers) = Cardinality(U)
      BY <1>13, <2>2
    <3>3. QED
      BY <1>4, <2>2, <2>3, <3>1, <3>2, AnswersCounted
  <2>4. ~ answered => U = {}
    BY <1>12, <2>2
  <2> HIDE DEF r, U, answered, answers
  <2>5. r.adds = <<final>> /\ r.consumes = FALSE /\ r.uses = U
    BY <2>1
  <2>6. Repaired(m, next, seen, r, final)
    BY <1>3, <1>8, <1>9, <2>3, <2>4, <2>5 DEF Repaired
  <2>7. QED
    BY <1>7, <2>5, <2>6 DEF r
<1>14. CASE ~ (missing = <<>> /\ orphaned = {} /\ ~ repeated) /\ answered
  <2> DEFINE blocks == next[1].blocks
             R == IdsOf(answers)
  <2>1. answers = Select(blocks, IsResult)
    BY <1>14
  <2>2. r = [adds |-> <<final, u>>, consumes |-> TRUE, uses |-> U]
    BY <1>1, <1>14
  <2>3. \/ orphaned = {} /\ Len(answers) = Cardinality(R) /\ cleaned = blocks
        \/ cleaned = Once(Sift(blocks, {b \in ToSet(blocks) : ~ (IsResult(b) /\ b.id \in orphaned)}),
                          ResultKinds, {})
    <3> HIDE DEF answers, U
    <3>1. CASE orphaned = {} /\ ~ repeated
      BY <3>1
    <3>2. CASE ~ (orphaned = {} /\ ~ repeated)
      BY <3>2, Zenon DEF Select
    <3>3. QED
      BY <3>1, <3>2
  <2> HIDE DEF answers, cleaned, U
  <2>4. /\ cleaned \in Seq(Block)
        /\ ToSet(cleaned) \subseteq ToSet(blocks)
        /\ \A b \in ToSet(blocks) : IsResult(b) /\ b.id \in U => b \in ToSet(cleaned)
        /\ Answers(cleaned, U \cap R)
    <3>1. blocks \in Seq(Block) /\ \A b \in ToSet(blocks) : IsResult(b) => b.kind = "result"
      BY <1>4, <1>14
    <3>2. orphaned = IdsOf(Select(blocks, IsResult)) \ U
      BY <2>1 DEF U
    <3>3. Cleaned(blocks, U, cleaned)
      BY <2>1, <2>3, <3>2, Zenon DEF Cleaned
    <3> HIDE DEF blocks
    <3>4. QED
      BY <2>1, <3>1, <3>3, CleanedBlocks
  <2>5. /\ patched \in Seq(Block)
        /\ ToSet(patched) = ToSet(ph) \cup ToSet(cleaned)
        /\ Answers(patched, U)
    <3> DEFINE X == U \ R
               Y == U \cap R
    <3>1. X \cap Y = {} /\ X \cup Y = U
      OBVIOUS
    <3> HIDE DEF X, Y
    <3>2. IdsOf(ph) = X /\ Answers(cleaned, Y)
      BY <1>11, <2>4 DEF X, Y
    <3>3. /\ patched \in Seq(Block)
          /\ ToSet(patched) = ToSet(ph) \cup ToSet(cleaned)
          /\ Answers(patched, X \cup Y)
      BY <1>11, <2>4, <3>1, <3>2, PatchedBlocks
    <3>4. QED
      BY <3>1, <3>3
  <2> HIDE DEF patched, R, blocks
  <2>6. \A b \in ToSet(patched) : ~ IsUse(b)
    BY <1>4, <1>11, <1>14, <2>4, <2>5 DEF IsUse, UseKind, blocks
  <2> DEFINE all == IF patched = <<>> THEN <<TextBlock>> ELSE patched
  <2>7. /\ all \in Seq(Block) /\ Answers(all, U)
        /\ \A b \in ToSet(all) : ~ IsUse(b)
        /\ ToSet(patched) \subseteq ToSet(all)
    <3>1. CASE patched = <<>>
      <4>1. ToSet(patched) = {}
        BY <3>1 DEF ToSet
      <4>2. U = {}
        BY <2>5, <4>1 DEF Answers
      <4>3. Answers(<<TextBlock>>, U)
        BY <1>5, <1>6, <4>2 DEF Answers
      <4>4. QED
        BY <1>5, <1>6, <3>1, <4>1, <4>3
    <3>2. CASE patched # <<>>
      BY <2>5, <2>6, <3>2
    <3>3. QED
      BY <3>1, <3>2
  <2> HIDE DEF all
  <2>8. u = [role |-> "user", blocks |-> all]
    BY DEF all, UserMessage
  <2> HIDE DEF u, r, answered
  <2>9. u \in RequestMessage /\ u.role = "user" /\ u.blocks = all
    BY <2>7, <2>8 DEF RequestMessage
  <2>10. r.adds = <<final, u>> /\ r.consumes = TRUE /\ r.uses = U
    BY <2>2
  <2>11. \A b \in ToSet(next[1].blocks) : b.kind = "result" /\ b.id \in U => b \in ToSet(u.blocks)
    BY <2>4, <2>5, <2>7, <2>9 DEF IsResult, ResultKinds, blocks
  <2>12. Repaired(m, next, seen, r, final)
    <3>1. (r.consumes <=> Answered(next))
      BY <1>3, <1>14, <2>10
    <3>2. QED
      BY <1>8, <1>9, <2>7, <2>9, <2>10, <2>11, <3>1 DEF Repaired
  <2>13. QED
    BY <1>7, <2>10, <2>12 DEF r
<1>15. CASE ~ (missing = <<>> /\ orphaned = {} /\ ~ repeated) /\ ~ answered
  <2> DEFINE v == UserMessage(ph)
  <2>1. r = [adds |-> <<final, v>>, consumes |-> FALSE, uses |-> U]
    BY <1>1, <1>15
  <2> HIDE DEF U, answers
  <2>2. IdsOf(ph) = U
    BY <1>11, <1>12, <1>15
  <2>3. Answers(ph, U)
    <3>1. \A b \in ToSet(ph) : IsResult(b) /\ b.id \in U
      BY <1>11, <2>2 DEF IsResult, ResultKinds, IdsOf
    <3>2. \A i \in U : \E b \in ToSet(ph) : b.id = i
      BY <2>2 DEF IdsOf
    <3>3. QED
      BY <1>11, <3>1, <3>2 DEF Answers, Distinct
  <2>4. v \in RequestMessage /\ v.role = "user" /\ v.blocks = ph
    BY <1>11 DEF UserMessage, RequestMessage
  <2>5. \A b \in ToSet(v.blocks) : ~ IsUse(b)
    BY <1>11, <2>4 DEF IsUse, UseKind
  <2> HIDE DEF r, v, answered
  <2>6. r.adds = <<final, v>> /\ r.consumes = FALSE /\ r.uses = U
    BY <2>1
  <2>7. (r.consumes <=> Answered(next)) /\ ~ Answered(next)
    BY <1>3, <1>15, <2>6
  <2>8. Repaired(m, next, seen, r, final)
    BY <1>8, <1>9, <2>3, <2>4, <2>5, <2>6, <2>7 DEF Repaired
  <2>9. QED
    BY <1>7, <2>6, <2>8 DEF r
<1>16. QED
  BY <1>13, <1>14, <1>15

\* RepairUser, case by case.
LEMMA RepairedUser ==
  ASSUME NEW out \in Seq(RequestMessage), NEW m \in RequestMessage, Raw(m), m.role = "user"
  PROVE  \/ /\ out # <<>> /\ Last(out).role = "assistant"
            /\ RepairUser(out, m) = Append(out, m)
         \/ /\ ~ (out # <<>> /\ Last(out).role = "assistant")
            /\ \/ out # <<>> /\ RepairUser(out, m) = out
               \/ \E u \in RequestMessage :
                    /\ RepairUser(out, m) = Append(out, u)
                    /\ u.role = "user"
                    /\ \A b \in ToSet(u.blocks) : ~ IsUse(b) /\ ~ IsResult(b)
<1> DEFINE S == {b \in ToSet(m.blocks) : ~ IsResult(b)}
           stripped == Select(m.blocks, LAMBDA b : ~ IsResult(b))
           o == RepairUser(out, m)
<1>1. o = IF (out # <<>> /\ Last(out).role = "assistant") \/ stripped = m.blocks
          THEN Append(out, m)
          ELSE IF stripped # <<>> THEN Append(out, UserMessage(stripped))
          ELSE IF out = <<>> THEN <<UserMessage(<<TextBlock>>)>>
          ELSE out
  BY Zenon DEF RepairUser
<1>2. stripped = Sift(m.blocks, S)
  BY Zenon DEF Select
<1> HIDE DEF stripped, S, o
<1>3. m.blocks \in Seq(Block)
  BY DEF RequestMessage
<1>4. stripped \in Seq(Block) /\ ToSet(stripped) = ToSet(m.blocks) \cap S
  BY <1>2, <1>3, SiftProperties
<1>5. \A b \in ToSet(stripped) : ~ IsUse(b) /\ ~ IsResult(b)
  BY <1>4 DEF S, Raw
<1>6. /\ UserMessage(stripped) \in RequestMessage /\ UserMessage(stripped).role = "user"
      /\ UserMessage(stripped).blocks = stripped
  BY <1>4 DEF UserMessage, RequestMessage
<1>7. TextBlock \in Block /\ ~ IsUse(TextBlock) /\ ~ IsResult(TextBlock)
  BY DEF TextBlock, Block, Ids, IsUse, IsResult, UseKind, ResultKinds
<1>8. ToSet(<<TextBlock>>) = {TextBlock} /\ <<TextBlock>> \in Seq(Block)
  BY <1>7 DEF ToSet
<1>9. /\ UserMessage(<<TextBlock>>) \in RequestMessage /\ UserMessage(<<TextBlock>>).role = "user"
      /\ UserMessage(<<TextBlock>>).blocks = <<TextBlock>>
  BY <1>8 DEF UserMessage, RequestMessage
<1>10. CASE out # <<>> /\ Last(out).role = "assistant"
  BY <1>1, <1>10 DEF o
<1>11. CASE ~ (out # <<>> /\ Last(out).role = "assistant")
  <2>1. CASE stripped = m.blocks
    <3>1. o = Append(out, m)
      BY <1>1, <2>1
    <3>2. \A b \in ToSet(m.blocks) : ~ IsUse(b) /\ ~ IsResult(b)
      BY <1>5, <2>1
    <3>3. QED
      BY <1>11, <3>1, <3>2 DEF o
  <2>2. CASE stripped # m.blocks /\ stripped # <<>>
    <3>1. o = Append(out, UserMessage(stripped))
      BY <1>1, <1>11, <2>2
    <3>2. QED
      BY <1>5, <1>6, <1>11, <3>1 DEF o
  <2>3. CASE stripped # m.blocks /\ stripped = <<>> /\ out = <<>>
    <3>1. o = Append(out, UserMessage(<<TextBlock>>))
      BY <1>1, <1>9, <1>11, <2>3
    <3>2. \A b \in ToSet(UserMessage(<<TextBlock>>).blocks) : ~ IsUse(b) /\ ~ IsResult(b)
      BY <1>7, <1>8, <1>9
    <3>3. QED
      BY <1>9, <1>11, <3>1, <3>2 DEF o
  <2>4. CASE stripped # m.blocks /\ stripped = <<>> /\ out # <<>>
    <3>1. o = out
      BY <1>1, <1>11, <2>4
    <3>2. QED
      BY <1>11, <2>4, <3>1 DEF o
  <2>5. QED
    BY <2>1, <2>2, <2>3, <2>4
<1>12. QED
  BY <1>10, <1>11

\* The messages of a request before the repair.
RawRequest == {m \in RequestMessage : Raw(m)}

\* The message behind the n-th.
NextOf(ms, n) == SubSeq(ms, n + 1, IF n < Len(ms) THEN n + 1 ELSE n)

\* The message behind the n-th, if there is one.
LEMMA NextMessage ==
  ASSUME NEW ms \in Seq(RawRequest), NEW n \in 1 .. Len(ms)
  PROVE  /\ NextOf(ms, n) \in Seq(RequestMessage)
         /\ NextOf(ms, n) # <<>> => Raw(NextOf(ms, n)[1])
         /\ NextOf(ms, n) # <<>> <=> n < Len(ms)
         /\ n < Len(ms) => NextOf(ms, n)[1] = ms[n + 1] /\ ms[n + 1] \in RawRequest
         /\ Answered(NextOf(ms, n)) <=> n < Len(ms) /\ ms[n + 1].role = "user"
<1>1. Len(ms) \in Nat /\ \A k \in 1 .. Len(ms) : ms[k] \in RequestMessage /\ Raw(ms[k]) /\ ms[k] \in RawRequest
  BY DEF RawRequest
<1>2. CASE n < Len(ms)
  <2>1. n + 1 \in 1 .. Len(ms) /\ NextOf(ms, n) = SubSeq(ms, n + 1, n + 1)
    BY <1>1, <1>2 DEF NextOf
  <2>2. SubSeq(ms, n + 1, n + 1) \in Seq(RawRequest)
    BY <2>1
  <2>3. Len(SubSeq(ms, n + 1, n + 1)) = 1 /\ SubSeq(ms, n + 1, n + 1)[1] = ms[n + 1]
    BY <1>1, <2>1
  <2>4. NextOf(ms, n) # <<>> /\ NextOf(ms, n)[1] = ms[n + 1]
    BY <2>1, <2>2, <2>3
  <2>5. NextOf(ms, n) \in Seq(RequestMessage)
    BY <2>1, <2>2 DEF RawRequest
  <2>6. QED
    BY <1>1, <1>2, <2>1, <2>4, <2>5 DEF Answered
<1>3. CASE ~ (n < Len(ms))
  <2>1. NextOf(ms, n) = <<>>
    BY <1>1, <1>3 DEF NextOf
  <2>2. QED
    BY <1>3, <2>1 DEF Answered
<1>4. QED
  BY <1>2, <1>3

\* A step of the repair keeps the types.
LEMMA PairStepType ==
  ASSUME NEW ms \in Seq(RawRequest), NEW n \in 1 .. Len(ms), NEW x \in Paired
  PROVE  PairStep(ms, n, x) \in Paired
<1>1. x.out \in Seq(RequestMessage) /\ x.seen \in SUBSET Ids /\ x.skip \in BOOLEAN
  BY DEF Paired
<1>2. ms[n] \in RequestMessage /\ Raw(ms[n])
  BY DEF RawRequest
<1>3. CASE x.skip
  BY <1>3 DEF PairStep, Paired
<1>4. CASE ~ x.skip /\ ms[n].role # "assistant"
  <2>1. ms[n].role = "user"
    BY <1>2, <1>4 DEF RequestMessage
  <2>2. RepairUser(x.out, ms[n]) \in Seq(RequestMessage)
    <3>1. \/ RepairUser(x.out, ms[n]) = Append(x.out, ms[n])
          \/ RepairUser(x.out, ms[n]) = x.out
          \/ \E u \in RequestMessage : RepairUser(x.out, ms[n]) = Append(x.out, u)
      BY <1>1, <1>2, <2>1, RepairedUser
    <3>2. QED
      BY <1>1, <1>2, <3>1
  <2>3. PairStep(ms, n, x) = [x EXCEPT !.out = RepairUser(x.out, ms[n])]
    BY <1>4 DEF PairStep
  <2>4. QED
    BY <2>2, <2>3 DEF Paired
<1>5. CASE ~ x.skip /\ ms[n].role = "assistant"
  <2> DEFINE next == NextOf(ms, n)
             r == RepairAssistant(ms[n], next, x.seen)
  <2>1. next \in Seq(RequestMessage) /\ (next # <<>> => Raw(next[1]))
    BY NextMessage
  <2>2. PairStep(ms, n, x) = [out |-> x.out \o r.adds, seen |-> x.seen \cup r.uses, skip |-> r.consumes]
    BY <1>5, Zenon DEF PairStep, NextOf
  <2> HIDE DEF next
  <2>3. r.consumes \in BOOLEAN /\ r.uses \in SUBSET Ids /\ \E f : Repaired(ms[n], next, x.seen, r, f)
    BY <1>2, <1>5, <2>1, RepairedMessage
  <2> HIDE DEF r
  <2>4. r.adds \in Seq(RequestMessage)
    <3>1. PICK f : Repaired(ms[n], next, x.seen, r, f)
      BY <2>3
    <3>2. f \in RequestMessage /\ (r.adds = <<f>> \/ \E u \in RequestMessage : r.adds = <<f, u>>)
      BY <3>1 DEF Repaired
    <3>3. CASE r.adds = <<f>>
      BY <3>2, <3>3
    <3>4. CASE \E u \in RequestMessage : r.adds = <<f, u>>
      BY <3>2, <3>4
    <3>5. QED
      BY <3>2, <3>3, <3>4
  <2>5. x.out \o r.adds \in Seq(RequestMessage)
    BY <1>1, <2>4
  <2>6. QED
    BY <1>1, <2>2, <2>3, <2>5 DEF Paired
<1>6. QED
  BY <1>1, <1>3, <1>4, <1>5

\* p is the function that EnsureToolResultPairing defines.
PairRun(ms, p) ==
  /\ p \in [0 .. Len(ms) -> Paired]
  /\ EnsureToolResultPairing(ms) = p[Len(ms)].out
  /\ p[0] = [out |-> <<>>, seen |-> {}, skip |-> FALSE]
  /\ \A n \in 1 .. Len(ms) : p[n] = PairStep(ms, n, p[n - 1])

\* EnsureToolResultPairing is computed by its steps.
LEMMA PairUnfold ==
  ASSUME NEW ms \in Seq(RawRequest)
  PROVE  \E p : PairRun(ms, p)
<1> DEFINE N == Len(ms)
           D == Paired
           d == [out |-> <<>>, seen |-> {}, skip |-> FALSE]
           F == [n \in 1 .. N |-> [x \in D |-> PairStep(ms, n, x)]]
           Is(p) == p = [n \in 0 .. N |-> IF n = 0 THEN d ELSE PairStep(ms, n, p[n - 1])]
           q == CHOOSE p : Is(p)
<1>1. N \in Nat /\ d \in D
  BY DEF Paired
<1>2. \A n \in 1 .. N : \A x \in D : PairStep(ms, n, x) \in D
  BY PairStepType
<1>3. EnsureToolResultPairing(ms) = q[N].out
  BY Zenon DEF EnsureToolResultPairing, PairStep
<1> HIDE DEF N, D, d
<1>4. F \in [1 .. N -> [D -> D]] /\ \A n \in 1 .. N : \A x \in D : F[n][x] = PairStep(ms, n, x)
  BY <1>2
<1> HIDE DEF F
<1>5. PICK p \in [0 .. N -> D] : p[0] = d /\ \A n \in 1 .. N : p[n] = F[n][p[n - 1]]
  <2>1. Iterable(N, D, d, F)
    BY <1>1, <1>4 DEF Iterable
  <2>2. QED
    BY <2>1, Iteration
<1>6. Is(p)
  <2>1. \A n \in 1 .. N : p[n] = PairStep(ms, n, p[n - 1])
    BY <1>1, <1>4, <1>5
  <2>2. \A n \in 0 .. N : p[n] = IF n = 0 THEN d ELSE PairStep(ms, n, p[n - 1])
    BY <1>1, <1>5, <2>1
  <2>3. QED
    BY <2>2, <1>5
<1> HIDE DEF q
<1>7. Is(q)
  <2> HIDE DEF Is
  <2>1. QED
    BY <1>6 DEF q
<1>8. q[0] = d /\ \A n \in 1 .. N : q[n] = PairStep(ms, n, q[n - 1])
  BY <1>1, <1>7
<1>9. q \in [0 .. N -> D]
  <2> DEFINE E == {n \in Nat : q[n] \in D}
  <2>1. 0 \in E /\ \A n \in 1 .. N : n - 1 \in E => n \in E
    BY <1>1, <1>2, <1>8
  <2> HIDE DEF E
  <2>2. \A n \in 0 .. N : n \in E
    BY <1>1, <2>1, UpTo
  <2>3. QED
    BY <1>7, <2>2 DEF E
<1>10. QED
  BY <1>3, <1>8, <1>9 DEF N, D, d, PairRun

-----------------------------------------------------------------------------
(* What the repair as a whole guarantees.                                  *)

\* The calls of the last message.
Open(request) == IF request = <<>> THEN {} ELSE UsesOf(Last(request))

\* The messages of a request answer the calls of the message before them.
AllAnswered(request) ==
  \A n \in DOMAIN request : Answers(request[n].blocks, IF n > 1 THEN UsesOf(request[n - 1]) ELSE {})

\* The ids of the results in a request.
ShownIn(request) ==
  {i \in Ids : \E n \in DOMAIN request : \E b \in ToSet(request[n].blocks) : b.kind = "result" /\ b.id = i}

\* A message that answers the calls of the last one can be added.
LEMMA Extended ==
  ASSUME NEW request \in Seq(RequestMessage), AllAnswered(request),
         NEW u \in RequestMessage, Answers(u.blocks, Open(request))
  PROVE  /\ Append(request, u) \in Seq(RequestMessage)
         /\ AllAnswered(Append(request, u))
         /\ Append(request, u) # <<>> /\ Last(Append(request, u)) = u
         /\ Open(Append(request, u)) = UsesOf(u)
         /\ ShownIn(request) \subseteq ShownIn(Append(request, u))
         /\ \A b \in ToSet(u.blocks) : b.kind = "result" /\ b.id \in Ids =>
                                        b.id \in ShownIn(Append(request, u))
<1> DEFINE t == Append(request, u)
<1>1. /\ t \in Seq(RequestMessage) /\ Len(request) \in Nat /\ DOMAIN request = 1 .. Len(request)
      /\ DOMAIN t = 1 .. Len(request) + 1 /\ Len(t) = Len(request) + 1
      /\ t[Len(request) + 1] = u /\ \A n \in 1 .. Len(request) : t[n] = request[n]
  OBVIOUS
<1>2. t # <<>> /\ Last(t) = u
  BY <1>1 DEF Last
<1>3. request = <<>> <=> Len(request) = 0
  OBVIOUS
<1>4. Open(request) = IF Len(request) + 1 > 1 THEN UsesOf(request[Len(request)]) ELSE {}
  BY <1>1, <1>3 DEF Open, Last
<1> HIDE DEF t
<1>5. AllAnswered(t)
  <2>1. SUFFICES ASSUME NEW n \in DOMAIN t
                 PROVE  Answers(t[n].blocks, IF n > 1 THEN UsesOf(t[n - 1]) ELSE {})
    BY DEF AllAnswered
  <2>2. CASE n = Len(request) + 1
    <3>1. t[n] = u /\ (IF n > 1 THEN UsesOf(t[n - 1]) ELSE {}) = Open(request)
      BY <1>1, <1>4, <2>2
    <3>2. QED
      BY <3>1
  <2>3. CASE n \in 1 .. Len(request)
    <3>1. t[n] = request[n] /\ (n > 1 => t[n - 1] = request[n - 1])
      BY <1>1, <2>3
    <3>2. QED
      BY <1>1, <2>3, <3>1 DEF AllAnswered
  <2>4. QED
    BY <1>1, <2>2, <2>3
<1>6. Open(t) = UsesOf(u)
  BY <1>2 DEF Open
<1>7. ShownIn(request) \subseteq ShownIn(t)
  BY <1>1 DEF ShownIn
<1>8. \A b \in ToSet(u.blocks) : b.kind = "result" /\ b.id \in Ids => b.id \in ShownIn(t)
  <2>1. Len(request) + 1 \in DOMAIN t
    BY <1>1
  <2>2. QED
    BY <1>1, <2>1 DEF ShownIn
<1>9. QED
  BY <1>1, <1>2, <1>5, <1>6, <1>7, <1>8 DEF t

\* A call of the j-th message whose result is in the message behind it.
ResultFollows(ms, j, i) ==
  /\ ms[j].role = "assistant" /\ j < Len(ms) /\ ms[j + 1].role = "user"
  /\ i \in Ids /\ i \in UsesOf(ms[j])
  /\ \E b \in ToSet(ms[j + 1].blocks) : b.kind = "result" /\ b.id = i
  /\ \A k \in 1 .. j - 1 : i \notin UsesOf(ms[k])

\* The message behind the n-th is the user's.
UsersTurn(ms, n) == n < Len(ms) /\ ms[n + 1].role = "user"

\* The last message of a request is the assistant's.
EndsWithCalls(request) == request # <<>> /\ Last(request).role = "assistant"

\* What holds after n messages were repaired.
PairInv(ms, n, x) ==
  /\ AllAnswered(x.out)
  /\ x.skip => ~ EndsWithCalls(x.out) /\ UsersTurn(ms, n)
  /\ ~ x.skip /\ EndsWithCalls(x.out)
       => IF UsersTurn(ms, n) THEN Answers(ms[n + 1].blocks, Open(x.out)) ELSE Open(x.out) = {}
  /\ ~ EndsWithCalls(x.out) => Open(x.out) = {}
  /\ \A i \in x.seen : \E k \in 1 .. n : i \in UsesOf(ms[k])
  /\ \A j \in 1 .. n : \A i : ResultFollows(ms, j, i)
       => i \in ShownIn(x.out) \/ (j = n /\ ~ x.skip /\ EndsWithCalls(x.out))

\* The repair of a request, message by message.
LEMMA PairStepInv ==
  ASSUME NEW ms \in Seq(RawRequest), NEW n \in 1 .. Len(ms), NEW x \in Paired, PairInv(ms, n - 1, x)
  PROVE  PairInv(ms, n, PairStep(ms, n, x))
<1> DEFINE m == ms[n]
           y == PairStep(ms, n, x)
<1>1. x.out \in Seq(RequestMessage) /\ x.seen \in SUBSET Ids /\ x.skip \in BOOLEAN
  BY DEF Paired
<1>2. m \in RequestMessage /\ Raw(m) /\ m \in RawRequest
  BY DEF RawRequest
<1>3. n - 1 \in Nat /\ n \in Nat /\ Len(ms) \in Nat /\ n - 1 < Len(ms) /\ (n - 1) + 1 = n
  OBVIOUS
<1>4. UsersTurn(ms, n - 1) <=> m.role = "user"
  BY <1>3 DEF UsersTurn
<1>5. n \in 1 .. n /\ \A k \in 1 .. n - 1 : k \in 1 .. n
  BY <1>3
<1>6. /\ AllAnswered(x.out)
      /\ x.skip => ~ EndsWithCalls(x.out) /\ m.role = "user"
      /\ ~ x.skip /\ EndsWithCalls(x.out)
           => IF m.role = "user" THEN Answers(m.blocks, Open(x.out)) ELSE Open(x.out) = {}
      /\ ~ EndsWithCalls(x.out) => Open(x.out) = {}
      /\ \A i \in x.seen : \E k \in 1 .. n - 1 : i \in UsesOf(ms[k])
      /\ \A j \in 1 .. n - 1 : \A i : ResultFollows(ms, j, i)
           => i \in ShownIn(x.out) \/ (j = n - 1 /\ ~ x.skip /\ EndsWithCalls(x.out))
  BY <1>3, <1>4 DEF PairInv
<1>7. \A j \in 1 .. n : j \in 1 .. n - 1 \/ j = n
  BY <1>3
<1>8. CASE x.skip
  <2>1. y = [x EXCEPT !.skip = FALSE]
    BY <1>8 DEF PairStep
  <2>2. y.out = x.out /\ y.seen = x.seen /\ y.skip = FALSE
    BY <2>1 DEF Paired
  <2>3. m.role = "user" /\ ~ EndsWithCalls(x.out)
    BY <1>6, <1>8
  <2>4. \A i : ~ ResultFollows(ms, n, i)
    BY <2>3 DEF ResultFollows
  <2> HIDE DEF m, y
  <2>5. \A j \in 1 .. n : \A i : ResultFollows(ms, j, i) => i \in ShownIn(y.out)
    BY <1>6, <1>7, <1>8, <2>2, <2>4
  <2>6. QED
    BY <1>5, <1>6, <2>2, <2>3, <2>5 DEF PairInv, y
<1>9. CASE ~ x.skip /\ m.role # "assistant"
  <2>1. m.role = "user"
    BY <1>2, <1>9 DEF RequestMessage
  <2>2. y = [x EXCEPT !.out = RepairUser(x.out, m)]
    BY <1>9 DEF PairStep
  <2>3. y.out = RepairUser(x.out, m) /\ y.seen = x.seen /\ y.skip = FALSE
    BY <1>9, <2>2 DEF Paired
  <2>4. \A i : ~ ResultFollows(ms, n, i)
    BY <2>1 DEF ResultFollows
  <2>5. UsesOf(m) = {}
    BY <1>2, <2>1 DEF UsesOf, Raw
  <2> HIDE DEF m, y
  <2>6. CASE EndsWithCalls(x.out)
    <3>1. y.out = Append(x.out, m)
      BY <1>1, <1>2, <2>1, <2>3, <2>6, RepairedUser DEF EndsWithCalls
    <3>2. Answers(m.blocks, Open(x.out))
      BY <1>6, <1>9, <2>1, <2>6
    <3>3. /\ AllAnswered(y.out) /\ y.out # <<>> /\ Last(y.out) = m /\ Open(y.out) = {}
          /\ ShownIn(x.out) \subseteq ShownIn(y.out)
          /\ \A b \in ToSet(m.blocks) : b.kind = "result" /\ b.id \in Ids => b.id \in ShownIn(y.out)
      BY <1>1, <1>2, <1>6, <2>5, <3>1, <3>2, Extended
    <3>4. ~ EndsWithCalls(y.out)
      BY <2>1, <3>3 DEF EndsWithCalls
    <3>5. \A j \in 1 .. n : \A i : ResultFollows(ms, j, i) => i \in ShownIn(y.out)
      <4>1. SUFFICES ASSUME NEW j \in 1 .. n - 1, NEW i, ResultFollows(ms, j, i)
                     PROVE  i \in ShownIn(y.out)
        BY <1>7, <2>4
      <4>2. CASE j = n - 1
        <5>1. i \in Ids /\ \E b \in ToSet(m.blocks) : b.kind = "result" /\ b.id = i
          BY <1>3, <4>1, <4>2 DEF ResultFollows, m
        <5>2. QED
          BY <3>3, <5>1
      <4>3. QED
        BY <1>6, <3>3, <4>1, <4>2
    <3>6. QED
      BY <1>5, <1>6, <2>3, <3>3, <3>4, <3>5 DEF PairInv, y
  <2>7. CASE ~ EndsWithCalls(x.out)
    <3>1. \A j \in 1 .. n : \A i : ResultFollows(ms, j, i) => i \in ShownIn(x.out)
      BY <1>6, <1>7, <2>4, <2>7
    <3>2. \/ x.out # <<>> /\ y.out = x.out
          \/ \E u \in RequestMessage :
               y.out = Append(x.out, u) /\ u.role = "user" /\ \A b \in ToSet(u.blocks) : ~ IsUse(b) /\ ~ IsResult(b)
      BY <1>1, <1>2, <2>1, <2>3, <2>7, RepairedUser DEF EndsWithCalls
    <3>3. CASE y.out = x.out
      BY <1>5, <1>6, <2>3, <2>7, <3>1, <3>3 DEF PairInv, y
    <3>4. CASE \E u \in RequestMessage :
                 y.out = Append(x.out, u) /\ u.role = "user" /\ \A b \in ToSet(u.blocks) : ~ IsUse(b) /\ ~ IsResult(b)
      <4>1. PICK u \in RequestMessage :
              y.out = Append(x.out, u) /\ u.role = "user" /\ \A b \in ToSet(u.blocks) : ~ IsUse(b) /\ ~ IsResult(b)
        BY <3>4
      <4>2. Answers(u.blocks, Open(x.out)) /\ UsesOf(u) = {}
        <5>1. u.blocks \in Seq(Block)
          BY DEF RequestMessage
        <5>2. \A k \in DOMAIN u.blocks : ~ IsResult(u.blocks[k])
          BY <4>1, <5>1 DEF ToSet
        <5>3. QED
          BY <1>6, <2>7, <4>1, <5>2 DEF Answers, UsesOf
      <4>3. /\ AllAnswered(y.out) /\ y.out # <<>> /\ Last(y.out) = u /\ Open(y.out) = {}
            /\ ShownIn(x.out) \subseteq ShownIn(y.out)
        BY <1>1, <1>6, <4>1, <4>2, Extended
      <4>4. ~ EndsWithCalls(y.out)
        BY <4>1, <4>3 DEF EndsWithCalls
      <4>5. \A j \in 1 .. n : \A i : ResultFollows(ms, j, i) => i \in ShownIn(y.out)
        BY <3>1, <4>3
      <4>6. QED
        BY <1>5, <1>6, <2>3, <4>3, <4>4, <4>5 DEF PairInv, y
    <3>5. QED
      BY <3>2, <3>3, <3>4
  <2>8. QED
    BY <2>6, <2>7
<1>10. CASE ~ x.skip /\ m.role = "assistant"
  <2> DEFINE next == NextOf(ms, n)
             r == RepairAssistant(m, next, x.seen)
  <2>1. /\ next \in Seq(RequestMessage) /\ (next # <<>> => Raw(next[1]))
        /\ Answered(next) <=> UsersTurn(ms, n)
        /\ UsersTurn(ms, n) => next[1] = ms[n + 1]
    BY NextMessage DEF UsersTurn
  <2>2. y = [out |-> x.out \o r.adds, seen |-> x.seen \cup r.uses, skip |-> r.consumes]
    BY <1>10, Zenon DEF PairStep, NextOf
  <2> HIDE DEF next
  <2>3. r.consumes \in BOOLEAN /\ r.uses \in SUBSET Ids /\ \E f : Repaired(m, next, x.seen, r, f)
    BY <1>2, <1>10, <2>1, RepairedMessage
  <2> HIDE DEF r, m, y
  <2>4. PICK f : Repaired(m, next, x.seen, r, f)
    BY <2>3
  <2>5. Open(x.out) = {}
    BY <1>6, <1>10
  <2>6. /\ f \in RequestMessage /\ f.role = "assistant" /\ UsesOf(f) = r.uses
        /\ \A b \in ToSet(m.blocks) : IsUse(b) /\ b.id \notin x.seen => b.id \in r.uses
        /\ UsesOf(f) \subseteq UsesOf(m)
    BY <2>4 DEF Repaired
  <2>7. Answers(f.blocks, Open(x.out))
    <3>1. f.blocks \in Seq(Block)
      BY <2>6 DEF RequestMessage
    <3>2. (\A b \in ToSet(f.blocks) : ~ IsResult(b)) /\ \A k \in DOMAIN f.blocks : ~ IsResult(f.blocks[k])
      BY <2>4, <3>1 DEF ToSet, Repaired
    <3>3. QED
      BY <2>5, <3>2 DEF Answers
  <2> DEFINE z == Append(x.out, f)
  <2>8. /\ z \in Seq(RequestMessage) /\ AllAnswered(z) /\ z # <<>> /\ Last(z) = f /\ Open(z) = r.uses
        /\ ShownIn(x.out) \subseteq ShownIn(z)
    BY <1>1, <1>6, <2>6, <2>7, Extended
  <2>9. EndsWithCalls(z)
    BY <2>6, <2>8 DEF EndsWithCalls
  <2>10. \A i \in y.seen : \E k \in 1 .. n : i \in UsesOf(ms[k])
    <3>1. \A i \in y.seen : i \in x.seen \/ i \in UsesOf(ms[n])
      BY <2>2, <2>6 DEF m
    <3>2. QED
      BY <1>5, <1>6, <3>1
  <2>11. \A j \in 1 .. n - 1 : \A i : ResultFollows(ms, j, i) => i \in ShownIn(x.out)
    <3>1. SUFFICES ASSUME NEW j \in 1 .. n - 1, NEW i, ResultFollows(ms, j, i), j = n - 1
                   PROVE  FALSE
      BY <1>6
    <3>2. m.role = "user"
      BY <1>3, <3>1 DEF ResultFollows, m
    <3>3. QED
      BY <1>10, <3>2
  <2>12. ASSUME NEW i, ResultFollows(ms, n, i)
         PROVE  /\ i \in r.uses /\ i \in Ids /\ UsersTurn(ms, n)
                /\ \E b \in ToSet(next[1].blocks) : b.kind = "result" /\ b.id = i
    <3>1. /\ i \in Ids /\ i \in UsesOf(m) /\ UsersTurn(ms, n)
          /\ \E b \in ToSet(ms[n + 1].blocks) : b.kind = "result" /\ b.id = i
          /\ \A k \in 1 .. n - 1 : i \notin UsesOf(ms[k])
      BY <2>12 DEF ResultFollows, UsersTurn, m
    <3>2. i \notin x.seen
      BY <1>6, <3>1
    <3>3. i \in r.uses
      BY <2>6, <3>1, <3>2 DEF UsesOf
    <3>4. QED
      BY <2>1, <3>1, <3>3
  <2>13. CASE r.adds = <<f>> /\ ~ r.consumes
    <3>1. y.out = z /\ y.skip = FALSE
      BY <1>1, <2>2, <2>3, <2>13
    <3>2. IF UsersTurn(ms, n) THEN Answers(ms[n + 1].blocks, r.uses) ELSE r.uses = {}
      <4>1. \/ IF Answered(next) THEN Answers(next[1].blocks, r.uses) ELSE r.uses = {}
            \/ \E u \in RequestMessage : r.adds = <<f, u>>
        BY <2>4 DEF Repaired
      <4>2. \A u : r.adds # <<f, u>>
        BY <2>13
      <4>3. QED
        BY <2>1, <4>1, <4>2
    <3> HIDE DEF z
    <3>3. \A j \in 1 .. n : \A i : ResultFollows(ms, j, i) => i \in ShownIn(y.out) \/ j = n
      BY <1>7, <2>8, <2>11, <3>1
    <3>4. QED
      BY <2>8, <2>9, <2>10, <3>1, <3>2, <3>3 DEF PairInv, y
  <2>14. CASE ~ (r.adds = <<f>> /\ ~ r.consumes)
    <3>1. PICK u \in RequestMessage :
            /\ r.adds = <<f, u>> /\ u.role = "user"
            /\ (r.consumes <=> Answered(next))
            /\ \A b \in ToSet(u.blocks) : ~ IsUse(b)
            /\ Answers(u.blocks, r.uses)
            /\ Answered(next) => \A b \in ToSet(next[1].blocks) :
                                   b.kind = "result" /\ b.id \in r.uses => b \in ToSet(u.blocks)
      BY <2>4, <2>14 DEF Repaired
    <3>2. y.out = Append(z, u) /\ y.skip = r.consumes
      BY <1>1, <2>2, <2>6, <3>1
    <3> HIDE DEF z
    <3>3. UsesOf(u) = {}
      BY <3>1 DEF UsesOf
    <3>4. /\ AllAnswered(y.out) /\ y.out # <<>> /\ Last(y.out) = u /\ Open(y.out) = {}
          /\ ShownIn(z) \subseteq ShownIn(y.out)
          /\ \A b \in ToSet(u.blocks) : b.kind = "result" /\ b.id \in Ids => b.id \in ShownIn(y.out)
      BY <2>8, <3>1, <3>2, <3>3, Extended
    <3>5. ~ EndsWithCalls(y.out)
      BY <3>1, <3>4 DEF EndsWithCalls
    <3>6. \A i : ResultFollows(ms, n, i) => i \in ShownIn(y.out)
      BY <2>1, <2>12, <3>1, <3>4
    <3>7. \A j \in 1 .. n : \A i : ResultFollows(ms, j, i) => i \in ShownIn(y.out)
      BY <1>7, <2>8, <2>11, <3>4, <3>6
    <3>8. y.skip => UsersTurn(ms, n)
      BY <2>1, <3>1, <3>2
    <3>9. QED
      BY <2>10, <3>4, <3>5, <3>7, <3>8 DEF PairInv, y
  <2>15. QED
    BY <2>13, <2>14
<1>11. QED
  BY <1>1, <1>8, <1>9, <1>10

-----------------------------------------------------------------------------
(* The conversation that requests are built from.                          *)

\* The ids of the calls of a message of the loop.
CallIds(m) == {m.calls[k].id : k \in DOMAIN m.calls}

\* What a message of the loop becomes in a request.
LEMMA ConvertedMessage ==
  ASSUME NEW m \in Message, m.calls # <<>> => m.role = "assistant"
  PROVE  /\ Converted(m) \in RawRequest
         /\ Converted(m).role = IF m.role = "assistant" THEN "assistant" ELSE "user"
         /\ m.role = "tool" => Converted(m).blocks = <<ResultBlock(m.id)>>
         /\ m.calls # <<>> => UsesOf(Converted(m)) = CallIds(m)
         /\ m.calls = <<>> => UsesOf(Converted(m)) = {}
<1>1. m.role \in {"user", "assistant", "tool"} /\ m.calls \in Seq(CallT) /\ m.id \in Ids
  BY DEF Message
<1>2. \A b \in Block : <<b>> \in Seq(Block) /\ ToSet(<<b>>) = {b}
  BY DEF ToSet
<1>3. TextBlock \in Block /\ ~ IsUse(TextBlock) /\ ~ IsResult(TextBlock)
  BY DEF TextBlock, Block, Ids, IsUse, IsResult, UseKind, ResultKinds
<1>4. CASE m.role = "tool"
  <2>1. /\ ResultBlock(m.id) \in Block /\ ~ IsUse(ResultBlock(m.id))
        /\ ResultBlock(m.id).kind = "result"
    BY <1>1 DEF ResultBlock, Block, IsUse, UseKind
  <2>2. Converted(m) = [role |-> "user", blocks |-> <<ResultBlock(m.id)>>]
    BY <1>4 DEF Converted, UserMessage
  <2>3. Converted(m).role = "user" /\ Converted(m).blocks = <<ResultBlock(m.id)>>
    BY <2>2
  <2>4. \A b \in ToSet(Converted(m).blocks) : b = ResultBlock(m.id)
    BY <1>2, <2>1, <2>3
  <2>5. Converted(m) \in RequestMessage
    BY <1>2, <2>1, <2>2 DEF RequestMessage
  <2>6. QED
    BY <1>4, <2>1, <2>3, <2>4, <2>5 DEF RawRequest, Raw, UsesOf
<1>5. CASE m.calls = <<>> /\ m.role # "tool"
  <2> DEFINE role == IF m.role = "assistant" THEN "assistant" ELSE "user"
  <2>1. Converted(m) = [role |-> role, blocks |-> <<TextBlock>>]
    BY <1>1, <1>5 DEF Converted, UserMessage
  <2>2. Converted(m).role = role /\ Converted(m).blocks = <<TextBlock>>
    BY <2>1
  <2>3. \A b \in ToSet(Converted(m).blocks) : b = TextBlock
    BY <1>2, <1>3, <2>2
  <2>4. Converted(m) \in RequestMessage
    BY <1>2, <1>3, <2>1 DEF RequestMessage
  <2>5. QED
    BY <1>3, <1>5, <2>2, <2>3, <2>4 DEF RawRequest, Raw, UsesOf
<1>6. CASE m.calls # <<>>
  <2> DEFINE blocks == [k \in DOMAIN m.calls |-> UseBlock(m.calls[k].id)]
  <2>1. m.role = "assistant"
    BY <1>6
  <2>2. DOMAIN m.calls = 1 .. Len(m.calls) /\ Len(m.calls) \in Nat
    BY <1>1
  <2>3. \A k \in DOMAIN m.calls : /\ UseBlock(m.calls[k].id) \in Block
                                  /\ UseBlock(m.calls[k].id).kind = "use"
                                  /\ UseBlock(m.calls[k].id).id = m.calls[k].id
    <3>1. \A k \in DOMAIN m.calls : m.calls[k].id \in Ids
      <4>1. \A k \in DOMAIN m.calls : m.calls[k] \in CallT
        BY <1>1
      <4>2. QED
        BY <4>1 DEF CallT, Ids
    <3>2. QED
      BY <3>1 DEF UseBlock, Block
  <2>4. Converted(m) = [role |-> "assistant", blocks |-> blocks]
    BY <1>6, <2>1 DEF Converted
  <2>5. blocks \in Seq(Block)
    <3>1. blocks \in [1 .. Len(m.calls) -> Block]
      BY <2>2, <2>3
    <3>2. QED
      BY <2>2, <3>1
  <2>6. /\ DOMAIN blocks = DOMAIN m.calls
        /\ \A k \in DOMAIN m.calls : blocks[k].kind = "use" /\ blocks[k].id = m.calls[k].id
    BY <2>3
  <2> HIDE DEF blocks
  <2>7. Converted(m) \in RequestMessage /\ Converted(m).role = "assistant" /\ Converted(m).blocks = blocks
    BY <2>4, <2>5 DEF RequestMessage
  <2>8. \A b \in ToSet(blocks) : IsUse(b) /\ ~ IsResult(b)
    BY <2>6 DEF ToSet, IsUse, IsResult, UseKind, ResultKinds
  <2>9. UsesOf(Converted(m)) = CallIds(m)
    BY <2>6, <2>7, <2>8 DEF UsesOf, CallIds, ToSet
  <2>10. QED
    BY <1>6, <2>1, <2>7, <2>8, <2>9 DEF RawRequest, Raw
<1>7. QED
  BY <1>4, <1>5, <1>6

\* No call waits for its result: the last message has no calls.
Closed(s) == s = <<>> \/ Last(s).calls = <<>>

\* The message behind a call message s[k] is the result of its first call.
Followed(s, k) ==
  s[k].calls # <<>> => /\ s[k + 1].role = "tool"
                       /\ Len(s[k].calls) = 1 => s[k + 1].id = s[k].calls[1].id

\* Only the assistant calls; each reply but the last is followed by results; no
\* id is used twice.
Shaped(s) ==
  /\ \A k \in DOMAIN s : s[k].calls # <<>> => s[k].role = "assistant"
  /\ \A k \in DOMAIN s : k < Len(s) => Followed(s, k)
  /\ \A j, k \in DOMAIN s : j < k => CallIds(s[j]) \cap CallIds(s[k]) = {}

\* A message without calls has no ids.
LEMMA NoCalls ==
  ASSUME NEW m \in Message, m.calls = <<>>
  PROVE  CallIds(m) = {}
  BY DEF CallIds

\* A message can be added behind a closed conversation, and a result behind
\* calls.
LEMMA ShapedAppend ==
  ASSUME NEW s \in Seq(Message), Shaped(s), NEW m \in Message,
         m.calls # <<>> => m.role = "assistant",
         \/ Closed(s)
         \/ m.role = "tool" /\ (Len(Last(s).calls) = 1 => m.id = Last(s).calls[1].id),
         \A j \in DOMAIN s : CallIds(s[j]) \cap CallIds(m) = {}
  PROVE  Shaped(Append(s, m))
<1> DEFINE t == Append(s, m)
<1>1. /\ t \in Seq(Message) /\ Len(s) \in Nat /\ DOMAIN s = 1 .. Len(s)
      /\ DOMAIN t = 1 .. Len(s) + 1 /\ Len(t) = Len(s) + 1
      /\ t[Len(s) + 1] = m /\ \A k \in 1 .. Len(s) : t[k] = s[k]
  OBVIOUS
<1>2. \A k \in DOMAIN t : k \in DOMAIN s \/ k = Len(s) + 1
  BY <1>1
<1> HIDE DEF t
<1>3. \A k \in DOMAIN t : t[k].calls # <<>> => t[k].role = "assistant"
  BY <1>1, <1>2 DEF Shaped
<1>4. ASSUME NEW k \in DOMAIN t, k < Len(t)
      PROVE  Followed(t, k)
  <2>1. k \in DOMAIN s /\ t[k] = s[k]
    BY <1>1, <1>2, <1>4
  <2>2. CASE k < Len(s)
    <3>1. k + 1 \in DOMAIN s /\ t[k + 1] = s[k + 1]
      BY <1>1, <2>1, <2>2
    <3>2. Followed(s, k)
      BY <2>1, <2>2 DEF Shaped
    <3>3. QED
      BY <2>1, <3>1, <3>2 DEF Followed
  <2>3. CASE ~ (k < Len(s))
    <3>1. k = Len(s) /\ t[k + 1] = m /\ s[k] = Last(s) /\ s # <<>>
      BY <1>1, <2>1, <2>3 DEF Last
    <3>2. QED
      BY <2>1, <3>1 DEF Followed, Closed
  <2>4. QED
    BY <2>2, <2>3
<1>5. ASSUME NEW j \in DOMAIN t, NEW k \in DOMAIN t, j < k
      PROVE  CallIds(t[j]) \cap CallIds(t[k]) = {}
  <2>1. j \in DOMAIN s /\ t[j] = s[j]
    BY <1>1, <1>2, <1>5
  <2>2. CASE k \in DOMAIN s
    BY <1>1, <1>5, <2>1, <2>2 DEF Shaped
  <2>3. CASE k = Len(s) + 1
    BY <1>1, <2>1, <2>3
  <2>4. QED
    BY <1>2, <2>2, <2>3
<1>6. QED
  BY <1>3, <1>4, <1>5 DEF Shaped, t

\* Putting messages without calls before the others.
LEMMA ShapedBehind ==
  ASSUME NEW h \in Seq(Message), \A k \in DOMAIN h : h[k].calls = <<>>,
         NEW s \in Seq(Message), Shaped(s), Closed(s)
  PROVE  Shaped(h \o s) /\ Closed(h \o s)
<1> DEFINE t == h \o s
           L == Len(h)
<1>1. /\ t \in Seq(Message) /\ L \in Nat /\ Len(s) \in Nat /\ Len(t) = L + Len(s)
      /\ DOMAIN t = 1 .. L + Len(s) /\ DOMAIN s = 1 .. Len(s) /\ DOMAIN h = 1 .. L
  OBVIOUS
<1>2. \A k \in 1 .. L : t[k] = h[k]
  OBVIOUS
<1>3. ASSUME NEW k \in DOMAIN t, k \notin 1 .. L
      PROVE  k - L \in DOMAIN s /\ t[k] = s[k - L]
  <2>1. k - L \in 1 .. Len(s)
    BY <1>1, <1>3
  <2>2. QED
    BY <1>1, <1>3, <2>1
<1> HIDE DEF t, L
<1>4. \A k \in 1 .. L : t[k].calls = <<>> /\ CallIds(t[k]) = {}
  BY <1>1, <1>2, NoCalls
<1>5. \A k \in DOMAIN t : t[k].calls # <<>> => t[k].role = "assistant"
  BY <1>1, <1>3, <1>4 DEF Shaped
<1>6. ASSUME NEW k \in DOMAIN t, k < Len(t)
      PROVE  Followed(t, k)
  <2>1. CASE k \in 1 .. L
    BY <1>4, <2>1 DEF Followed
  <2>2. CASE k \notin 1 .. L
    <3>1. k - L \in DOMAIN s /\ t[k] = s[k - L] /\ k - L < Len(s)
      BY <1>1, <1>3, <1>6, <2>2
    <3>2. k + 1 \in DOMAIN t /\ k + 1 \notin 1 .. L
      BY <1>1, <1>6, <2>2
    <3>3. t[k + 1] = s[(k - L) + 1]
      BY <1>1, <1>3, <3>2
    <3>4. Followed(s, k - L)
      BY <3>1 DEF Shaped
    <3>5. QED
      BY <3>1, <3>3, <3>4 DEF Followed
  <2>3. QED
    BY <2>1, <2>2
<1>7. ASSUME NEW j \in DOMAIN t, NEW k \in DOMAIN t, j < k
      PROVE  CallIds(t[j]) \cap CallIds(t[k]) = {}
  <2>1. CASE j \in 1 .. L
    BY <1>4, <2>1
  <2>2. CASE j \notin 1 .. L
    <3>1. k \notin 1 .. L
      BY <1>1, <1>7, <2>2
    <3>2. j - L \in DOMAIN s /\ k - L \in DOMAIN s /\ t[j] = s[j - L] /\ t[k] = s[k - L] /\ j - L < k - L
      BY <1>1, <1>3, <1>7, <2>2, <3>1
    <3>3. QED
      BY <3>2 DEF Shaped
  <2>3. QED
    BY <2>1, <2>2
<1>8. Closed(t)
  <2>1. CASE s = <<>>
    <3>1. t = <<>> \/ (L \in 1 .. L /\ Last(t) = t[L])
      BY <1>1, <2>1 DEF Last
    <3>2. QED
      BY <1>4, <3>1 DEF Closed
  <2>2. CASE s # <<>>
    <3>1. Len(t) \in DOMAIN t /\ Len(t) \notin 1 .. L /\ Len(t) - L = Len(s)
      BY <1>1, <2>2
    <3>2. Last(t) = Last(s)
      BY <1>3, <3>1 DEF Last
    <3>3. QED
      BY <2>2, <3>2 DEF Closed
  <2>3. QED
    BY <2>1, <2>2
<1>9. QED
  BY <1>5, <1>6, <1>7, <1>8 DEF Shaped, t

\* Without the user messages the conversation keeps its shape.
LEMMA SiftShaped ==
  ASSUME NEW ms \in Seq(Message), Shaped(ms), Closed(ms), NEW S,
         \A k \in DOMAIN ms : ms[k] \notin S => ms[k].role = "user"
  PROVE  Shaped(Sift(ms, S)) /\ Closed(Sift(ms, S))
<1>1. PICK p : SiftRun(Message, ms, S, p)
  BY SiftUnfold, Zenon
<1>2. /\ p \in [0 .. Len(ms) -> Seq(Message)]
      /\ Sift(ms, S) = p[Len(ms)]
      /\ p[0] = <<>>
      /\ \A n \in 1 .. Len(ms) : p[n] = SiftStep(ms, S, n, p[n - 1])
  BY <1>1 DEF SiftRun
<1> DEFINE Known(n) == \A j \in DOMAIN p[n] : \E k \in 1 .. n : p[n][j] = ms[k]
           E == {n \in Nat : /\ Shaped(p[n])
                             /\ Known(n)
                             /\ ~ Closed(p[n]) => n \in DOMAIN ms /\ Last(p[n]) = ms[n]}
<1>3. 0 \in E
  BY <1>2 DEF Shaped, Closed
<1>4. ASSUME NEW n \in 1 .. Len(ms), n - 1 \in E
      PROVE  n \in E
  <2> DEFINE r == p[n - 1]
             m == ms[n]
  <2>1. /\ r \in Seq(Message) /\ m \in Message /\ n - 1 \in Nat /\ n \in DOMAIN ms
        /\ (n - 1) + 1 = n /\ n - 1 < Len(ms)
    BY <1>2
  <2>2. Shaped(r) /\ Known(n - 1) /\ (~ Closed(r) => n - 1 \in DOMAIN ms /\ Last(r) = ms[n - 1])
    BY <1>4
  <2>3. ~ Closed(r) => m.role = "tool" /\ (Len(Last(r).calls) = 1 => m.id = Last(r).calls[1].id)
    <3>1. SUFFICES ASSUME ~ Closed(r)
                 PROVE m.role = "tool" /\ (Len(Last(r).calls) = 1 => m.id = Last(r).calls[1].id)
      OBVIOUS
    <3>2. Last(r) = ms[n - 1] /\ n - 1 \in DOMAIN ms /\ ms[n - 1].calls # <<>>
      BY <2>2, <3>1 DEF Closed
    <3>3. Followed(ms, n - 1)
      BY <2>1, <3>2 DEF Shaped
    <3>4. QED
      BY <2>1, <3>2, <3>3 DEF Followed
  <2>4. CASE m \notin S
    <3>1. p[n] = r
      BY <1>2, <2>4 DEF SiftStep
    <3>2. m.role = "user"
      BY <2>1, <2>4
    <3>3. Closed(r)
      BY <2>3, <3>2
    <3>4. Known(n)
      <4>1. \A k \in 1 .. n - 1 : k \in 1 .. n
        OBVIOUS
      <4>2. QED
        BY <2>2, <3>1, <4>1
    <3> HIDE DEF r, Known
    <3>5. QED
      BY <2>2, <3>1, <3>3, <3>4
  <2>5. CASE m \in S
    <3>1. p[n] = Append(r, m)
      BY <1>2, <2>5 DEF SiftStep
    <3>2. \A j \in DOMAIN r : CallIds(r[j]) \cap CallIds(m) = {}
      <4>1. TAKE j \in DOMAIN r
      <4>2. PICK k \in 1 .. n - 1 : r[j] = ms[k]
        BY <2>2
      <4>3. k \in DOMAIN ms /\ k < n
        BY <2>1, <4>2
      <4>4. QED
        BY <2>1, <4>2, <4>3 DEF Shaped
    <3>3. m.calls # <<>> => m.role = "assistant"
      BY <2>1 DEF Shaped
    <3> HIDE DEF r, m
    <3>4. Shaped(p[n])
      BY <2>1, <2>2, <2>3, <3>1, <3>2, <3>3, ShapedAppend
    <3>5. Last(p[n]) = m
      BY <2>1, <3>1 DEF Last
    <3>6. Known(n)
      <4>1. \A j \in DOMAIN p[n] : (j \in DOMAIN r /\ p[n][j] = r[j]) \/ p[n][j] = m
        BY <2>1, <3>1
      <4>2. n \in 1 .. n /\ \A k \in 1 .. n - 1 : k \in 1 .. n
        OBVIOUS
      <4>3. QED
        BY <2>2, <4>1, <4>2 DEF m, r
    <3> HIDE DEF Known
    <3>7. QED
      BY <2>1, <3>4, <3>5, <3>6 DEF m
  <2>6. QED
    BY <2>4, <2>5
<1> HIDE DEF E
<1>5. \A n \in 0 .. Len(ms) : n \in E
  <2>1. Len(ms) \in Nat
    OBVIOUS
  <2>2. QED
    BY <1>3, <1>4, <2>1, UpTo
<1>6. Len(ms) \in E
  BY <1>5
<1>7. Shaped(p[Len(ms)]) /\ (~ Closed(p[Len(ms)]) => Len(ms) \in DOMAIN ms /\ Last(p[Len(ms)]) = ms[Len(ms)])
  BY <1>6 DEF E
<1>8. Closed(p[Len(ms)])
  BY <1>7 DEF Closed, Last
<1>9. QED
  BY <1>2, <1>7, <1>8

\* What merging makes of a conversation of this shape.
LEMMA MergedShape ==
  ASSUME NEW ms \in Seq(Message), Shaped(ms), Closed(ms)
  PROVE  /\ MergeConsecutiveMessages(ms) \in Seq(Message)
         /\ Shaped(MergeConsecutiveMessages(ms))
         /\ Closed(MergeConsecutiveMessages(ms))
         /\ \A k \in DOMAIN ms : ms[k].calls # <<>> =>
              \E j \in DOMAIN MergeConsecutiveMessages(ms) :
                MergeConsecutiveMessages(ms)[j].calls = ms[k].calls
         /\ \A j \in DOMAIN MergeConsecutiveMessages(ms) :
              \/ MergeConsecutiveMessages(ms)[j].calls = <<>>
              \/ \E k \in DOMAIN ms : MergeConsecutiveMessages(ms)[j].calls = ms[k].calls
<1>1. PICK p : MergeRun(ms, p)
  BY MergeUnfold, Zenon
<1>2. /\ p \in [0 .. Len(ms) -> Seq(Message)]
      /\ MergeConsecutiveMessages(ms) = p[Len(ms)]
      /\ p[0] = <<>>
      /\ \A n \in 1 .. Len(ms) : p[n] = MergeStep(p[n - 1], ms[n])
  BY <1>1 DEF MergeRun
<1> DEFINE Known(n) == \A j \in DOMAIN p[n] : \/ p[n][j].calls = <<>>
                                         \/ \E k \in 1 .. n : p[n][j].calls = ms[k].calls
           Kept(n)  == \A k \in 1 .. n : ms[k].calls # <<>> =>
                          \E j \in DOMAIN p[n] : p[n][j].calls = ms[k].calls
           Tops(n)  == n # 0 => p[n] # <<>> /\ Last(p[n]).role = ms[n].role /\ Last(p[n]).calls = ms[n].calls
           E == {n \in Nat : Shaped(p[n]) /\ Known(n) /\ Kept(n) /\ Tops(n)}
<1>3. 0 \in E
  BY <1>2 DEF Shaped
<1>4. ASSUME NEW n \in 1 .. Len(ms), n - 1 \in E
      PROVE  n \in E
  <2> DEFINE r == p[n - 1]
             m == ms[n]
  <2>1. /\ r \in Seq(Message) /\ m \in Message /\ n - 1 \in Nat /\ n \in DOMAIN ms
        /\ (n - 1) + 1 = n /\ n - 1 < Len(ms) /\ n # 0
    BY <1>2
  <2>2. Shaped(r) /\ Known(n - 1) /\ Kept(n - 1) /\ Tops(n - 1)
    BY <1>4
  <2>3. n \in 1 .. n /\ (\A k \in 1 .. n - 1 : k \in 1 .. n) /\ \A k \in 1 .. n : k \in 1 .. n - 1 \/ k = n
    OBVIOUS
  <2>4. m.calls # <<>> => m.role = "assistant"
    BY <2>1 DEF Shaped
  <2>5. ~ Closed(r) => m.role = "tool" /\ (Len(Last(r).calls) = 1 => m.id = Last(r).calls[1].id)
    <3>1. SUFFICES ASSUME ~ Closed(r)
                 PROVE m.role = "tool" /\ (Len(Last(r).calls) = 1 => m.id = Last(r).calls[1].id)
      OBVIOUS
    <3>2. n - 1 # 0
      BY <1>2, <3>1 DEF Closed
    <3>3. Last(r).calls = ms[n - 1].calls /\ n - 1 \in DOMAIN ms /\ ms[n - 1].calls # <<>>
      BY <2>1, <2>2, <3>1, <3>2 DEF Closed
    <3>4. Followed(ms, n - 1)
      BY <2>1, <3>3 DEF Shaped
    <3>5. QED
      BY <2>1, <3>3, <3>4 DEF Followed
  <2>6. \A j \in DOMAIN r : CallIds(r[j]) \cap CallIds(m) = {}
    <3>1. TAKE j \in DOMAIN r
    <3>2. CASE r[j].calls = <<>>
      BY <3>2 DEF CallIds
    <3>3. CASE \E k \in 1 .. n - 1 : r[j].calls = ms[k].calls
      <4>1. PICK k \in 1 .. n - 1 : r[j].calls = ms[k].calls
        BY <3>3
      <4>2. k \in DOMAIN ms /\ k < n
        BY <2>1, <4>1
      <4>3. CallIds(ms[k]) \cap CallIds(m) = {}
        BY <2>1, <4>2 DEF Shaped
      <4>4. CallIds(r[j]) = CallIds(ms[k])
        BY <4>1 DEF CallIds
      <4>5. QED
        BY <4>3, <4>4
    <3>4. QED
      BY <2>2, <3>2, <3>3
  <2> DEFINE merges == r # <<>> /\ Last(r).role = m.role /\ m.role # "tool"
  <2>7. CASE ~ merges
    <3>1. p[n] = Append(r, m)
      BY <1>2, <2>7 DEF MergeStep
    <3> DEFINE t == p[n]
    <3>2. /\ Len(r) \in Nat /\ DOMAIN t = 1 .. Len(r) + 1 /\ DOMAIN r = 1 .. Len(r) /\ t # <<>>
          /\ t[Len(r) + 1] = m /\ Last(t) = m /\ \A j \in DOMAIN r : t[j] = r[j]
      BY <2>1, <3>1 DEF Last
    <3>3. Shaped(t)
      <4> HIDE DEF r, m
      <4>1. QED
        BY <2>1, <2>2, <2>4, <2>5, <2>6, <3>1, ShapedAppend
    <3>4. Tops(n)
      BY <3>2
    <3>5. \A j \in DOMAIN t : j \in DOMAIN r \/ j = Len(r) + 1
      BY <3>2
    <3>6. Len(r) + 1 \in DOMAIN t /\ \A j \in DOMAIN r : j \in DOMAIN t
      BY <3>2
    <3> HIDE DEF t, r, m
    <3>7. Known(n)
      BY <2>2, <2>3, <3>2, <3>5 DEF r, m, t
    <3>8. Kept(n)
      BY <2>2, <2>3, <3>2, <3>6 DEF r, m, t
    <3> HIDE DEF Known, Kept, Tops
    <3>9. QED
      BY <2>1, <3>3, <3>4, <3>7, <3>8 DEF t
  <2>8. CASE merges
    <3>1. p[n] = [r EXCEPT ![Len(r)].calls = @ \o m.calls]
      BY <1>2, <2>8 DEF MergeStep
    <3>2. Closed(r)
      BY <2>5, <2>8
    <3> DEFINE L == Len(r)
               t == p[n]
    <3>3. L \in Nat /\ L \in DOMAIN r /\ DOMAIN r = 1 .. L /\ r[L] = Last(r) /\ r[L] \in Message
      BY <2>1, <2>8 DEF Last
    <3>4. r[L].calls = <<>> /\ m.calls \in Seq(CallT)
      BY <2>1, <2>8, <3>2, <3>3 DEF Closed, Message
    <3>5. <<>> \o m.calls = m.calls
      BY <3>4
    <3>6. /\ DOMAIN t = 1 .. L /\ Len(t) = L /\ t # <<>> /\ Last(t) = t[L]
          /\ t[L].calls = m.calls /\ t[L].role = m.role /\ t[L].id = r[L].id
          /\ \A j \in 1 .. L : j # L => t[j] = r[j]
      <4>1. t = [r EXCEPT ![L] = [r[L] EXCEPT !.calls = m.calls]]
        BY <3>1, <3>4, <3>5
      <4>2. [r[L] EXCEPT !.calls = m.calls].calls = m.calls
            /\ [r[L] EXCEPT !.calls = m.calls].role = m.role
            /\ [r[L] EXCEPT !.calls = m.calls].id = r[L].id
        BY <2>8, <3>3 DEF Message
      <4>3. t \in Seq(Message)
        BY <1>2
      <4>4. DOMAIN t = DOMAIN r /\ Len(t) = L
        BY <2>1, <3>3, <4>1, <4>3
      <4>5. t[L] = [r[L] EXCEPT !.calls = m.calls] /\ \A j \in 1 .. L : j # L => t[j] = r[j]
        BY <3>3, <4>1
      <4> HIDE DEF t, L
      <4>6. QED
        BY <3>3, <4>2, <4>3, <4>4, <4>5 DEF Last
    <3> HIDE DEF t
    <3>7. Shaped(t)
      <4>1. \A k \in DOMAIN t : t[k].calls # <<>> => t[k].role = "assistant"
        BY <2>2, <2>4, <3>3, <3>6 DEF Shaped
      <4>2. ASSUME NEW k \in DOMAIN t, k < Len(t)
            PROVE  Followed(t, k)
        <5>1. k \in DOMAIN r /\ k < Len(r) /\ t[k] = r[k] /\ k + 1 \in 1 .. L
          BY <3>3, <3>6, <4>2
        <5>2. Followed(r, k)
          BY <2>2, <5>1 DEF Shaped
        <5>3. t[k + 1].role = r[k + 1].role /\ t[k + 1].id = r[k + 1].id
          BY <2>8, <3>3, <3>6, <5>1
        <5>4. QED
          BY <5>1, <5>2, <5>3 DEF Followed
      <4>3. ASSUME NEW j \in DOMAIN t, NEW k \in DOMAIN t, j < k
            PROVE  CallIds(t[j]) \cap CallIds(t[k]) = {}
        <5>1. j \in DOMAIN r /\ k \in DOMAIN r /\ t[j] = r[j]
          BY <3>3, <3>6, <4>3
        <5>2. CASE k = L
          <6>1. CallIds(t[k]) = CallIds(m)
            BY <3>6, <5>2 DEF CallIds
          <6>2. QED
            BY <2>6, <5>1, <6>1
        <5>3. CASE k # L
          BY <2>2, <3>3, <3>6, <4>3, <5>1, <5>3 DEF Shaped
        <5>4. QED
          BY <5>2, <5>3
      <4>4. QED
        BY <4>1, <4>2, <4>3 DEF Shaped
    <3>8. Tops(n)
      BY <3>6 DEF t
    <3>9. \A j \in DOMAIN r : r[j].calls # <<>> => t[j] = r[j]
      BY <3>3, <3>4, <3>6
    <3>10. Known(n)
      <4> HIDE DEF r, m
      <4>1. QED
        BY <2>2, <2>3, <3>3, <3>6 DEF r, m, t
    <3>11. Kept(n)
      <4> HIDE DEF r, m
      <4>1. QED
        BY <2>2, <2>3, <3>3, <3>6, <3>9 DEF r, m, t
    <3> HIDE DEF Known, Kept, Tops
    <3>12. QED
      BY <2>1, <3>7, <3>8, <3>10, <3>11 DEF t
  <2>9. QED
    BY <2>7, <2>8
<1> HIDE DEF E
<1>5. \A n \in 0 .. Len(ms) : n \in E
  <2>1. Len(ms) \in Nat
    OBVIOUS
  <2>2. QED
    BY <1>3, <1>4, <2>1, UpTo
<1>6. Len(ms) \in E /\ Len(ms) \in 0 .. Len(ms) /\ DOMAIN ms = 1 .. Len(ms)
  BY <1>5
<1>7. Shaped(p[Len(ms)]) /\ Known(Len(ms)) /\ Kept(Len(ms)) /\ Tops(Len(ms))
  BY <1>6 DEF E
<1>8. Closed(p[Len(ms)])
  BY <1>2, <1>6, <1>7 DEF Closed, Last
<1>9. QED
  BY <1>2, <1>6, <1>7, <1>8

\* The repaired request is well paired and shows every result that follows its call.
LEMMA RequestRepaired ==
  ASSUME NEW ms \in Seq(RawRequest)
  PROVE  /\ WellPaired(EnsureToolResultPairing(ms))
         /\ \A j \in DOMAIN ms : \A i : ResultFollows(ms, j, i) => i \in Shown(EnsureToolResultPairing(ms))
<1>1. PICK p : PairRun(ms, p)
  BY PairUnfold, Zenon
<1>2. /\ p \in [0 .. Len(ms) -> Paired]
      /\ EnsureToolResultPairing(ms) = p[Len(ms)].out
      /\ p[0] = [out |-> <<>>, seen |-> {}, skip |-> FALSE]
      /\ \A n \in 1 .. Len(ms) : p[n] = PairStep(ms, n, p[n - 1])
  BY <1>1 DEF PairRun
<1> DEFINE E == {n \in Nat : PairInv(ms, n, p[n])}
<1>3. 0 \in E
  <2>1. AllAnswered(<<>>) /\ Open(<<>>) = {} /\ ~ EndsWithCalls(<<>>)
    BY DEF AllAnswered, Open, EndsWithCalls
  <2>2. p[0].out = <<>> /\ p[0].seen = {} /\ p[0].skip = FALSE
    BY <1>2
  <2>3. QED
    BY <2>1, <2>2 DEF PairInv
<1>4. ASSUME NEW n \in 1 .. Len(ms), n - 1 \in E
      PROVE  n \in E
  <2>1. p[n - 1] \in Paired /\ PairInv(ms, n - 1, p[n - 1])
    BY <1>2, <1>4
  <2>2. PairInv(ms, n, PairStep(ms, n, p[n - 1]))
    BY <2>1, PairStepInv
  <2>3. QED
    BY <1>2, <2>2
<1> HIDE DEF E
<1>5. \A n \in 0 .. Len(ms) : n \in E
  <2>1. Len(ms) \in Nat
    OBVIOUS
  <2>2. QED
    BY <1>3, <1>4, <2>1, UpTo
<1>6. Len(ms) \in E /\ Len(ms) \in 0 .. Len(ms) /\ DOMAIN ms = 1 .. Len(ms)
  BY <1>5
<1> DEFINE x == p[Len(ms)]
           r == EnsureToolResultPairing(ms)
<1>7. PairInv(ms, Len(ms), x) /\ x \in Paired /\ r = x.out
  BY <1>2, <1>6 DEF E
<1>8. r \in Seq(RequestMessage)
  BY <1>7 DEF Paired
<1>9. ~ UsersTurn(ms, Len(ms))
  BY DEF UsersTurn
<1> HIDE DEF x, r
<1>10. ~ x.skip
  BY <1>7, <1>9 DEF PairInv
<1>11. AllAnswered(r) /\ Open(r) = {}
  BY <1>7, <1>9, <1>10 DEF PairInv
<1>12. WellPaired(r)
  <2>1. SUFFICES ASSUME NEW n \in DOMAIN r
                 PROVE  LET m == r[n]
                            answers == Select(m.blocks, IsResult)
                            asked == IF n > 1 THEN IdsOf(Select(r[n - 1].blocks, IsUse)) ELSE {}
                        IN  /\ IdsOf(answers) = asked
                            /\ Len(answers) = Cardinality(asked)
                            /\ m.role = "assistant" /\ n = Len(r) => IdsOf(Select(m.blocks, IsUse)) = {}
    BY Zenon DEF WellPaired, ResultIds
  <2>2. \A k \in DOMAIN r : r[k].blocks \in Seq(Block) /\ IdsOf(Select(r[k].blocks, IsUse)) = UsesOf(r[k])
    <3>1. SUFFICES ASSUME NEW k \in DOMAIN r
                   PROVE  r[k].blocks \in Seq(Block) /\ IdsOf(Select(r[k].blocks, IsUse)) = UsesOf(r[k])
      OBVIOUS
    <3>2. r[k].blocks \in Seq(Block)
      <4>1. r[k] \in RequestMessage
        BY <1>8
      <4>2. QED
        BY <4>1 DEF RequestMessage
    <3> DEFINE sel == Select(r[k].blocks, IsUse)
    <3>3. \A b : b \in ToSet(sel) <=> b \in ToSet(r[k].blocks) /\ IsUse(b)
      BY <3>2, SelectedUses
    <3> HIDE DEF sel
    <3>4. IdsOf(sel) = UsesOf(r[k])
      BY <3>3 DEF IdsOf, UsesOf
    <3>5. QED
      BY <3>2, <3>4 DEF sel
  <2> DEFINE asked == IF n > 1 THEN UsesOf(r[n - 1]) ELSE {}
  <2>3. asked = IF n > 1 THEN IdsOf(Select(r[n - 1].blocks, IsUse)) ELSE {}
    <3>1. n > 1 => n - 1 \in DOMAIN r
      BY <1>8
    <3>2. CASE n > 1
      <4>1. UsesOf(r[n - 1]) = IdsOf(Select(r[n - 1].blocks, IsUse))
        BY <2>2, <3>1, <3>2, Zenon
      <4>2. QED
        BY <3>2, <4>1, Zenon
    <3>3. CASE ~ (n > 1)
      BY <3>3
    <3>4. QED
      BY <3>2, <3>3, Zenon
  <2>4. Answers(r[n].blocks, asked)
    BY <1>11 DEF AllAnswered
  <2> HIDE DEF asked
  <2>5. IdsOf(Select(r[n].blocks, IsResult)) = asked
        /\ Len(Select(r[n].blocks, IsResult)) = Cardinality(asked)
    BY <2>2, <2>4, AnswersCounted
  <2>6. n = Len(r) => IdsOf(Select(r[n].blocks, IsUse)) = {}
    <3>1. n = Len(r) => r[n] = Last(r) /\ r # <<>>
      BY <1>8 DEF Last
    <3>2. QED
      BY <1>11, <2>2, <3>1 DEF Open
  <2>7. QED
    BY <2>3, <2>5, <2>6, Zenon
<1>13. ASSUME NEW j \in DOMAIN ms, NEW i, ResultFollows(ms, j, i)
       PROVE  i \in Shown(r)
  <2>1. j # Len(ms)
    BY <1>13 DEF ResultFollows
  <2>2. i \in ShownIn(r)
    BY <1>6, <1>7, <1>13, <2>1 DEF PairInv
  <2>3. PICK n \in DOMAIN r : \E b \in ToSet(r[n].blocks) : b.kind = "result" /\ b.id = i
    BY <2>2 DEF ShownIn
  <2>4. PICK b \in ToSet(r[n].blocks) : b.kind = "result" /\ b.id = i
    BY <2>3
  <2>5. r[n].blocks \in Seq(Block)
    <3>1. r[n] \in RequestMessage
      BY <1>8
    <3>2. QED
      BY <3>1 DEF RequestMessage
  <2> DEFINE S == {y \in ToSet(r[n].blocks) : y.kind = "result"}
  <2>6. b \in ToSet(Sift(r[n].blocks, S))
    <3>1. b \in S
      BY <2>4
    <3> HIDE DEF S
    <3>2. ToSet(Sift(r[n].blocks, S)) = ToSet(r[n].blocks) \cap S
      BY <2>5, SiftProperties
    <3>3. QED
      BY <3>1, <3>2
  <2>7. i \in IdsOf(Sift(r[n].blocks, S))
    <3> HIDE DEF S
    <3>1. QED
      BY <2>4, <2>6 DEF IdsOf
  <2>8. Shown(r) = UNION {IdsOf(Sift(r[k].blocks, {y \in ToSet(r[k].blocks) : y.kind = "result"}))
                    : k \in DOMAIN r}
    BY DEF Shown, Select
  <2>9. QED
    BY <2>7, <2>8
<1>14. QED
  BY <1>12, <1>13 DEF r

\* The request that a conversation of this shape becomes, before the repair.
LEMMA RequestBuilt ==
  ASSUME NEW ms \in Seq(Message), Shaped(ms), Closed(ms)
  PROVE  /\ BuildAnthropicMessages(ms) \in Seq(RawRequest)
         /\ \A k \in DOMAIN ms : Len(ms[k].calls) = 1 =>
              \E j \in DOMAIN BuildAnthropicMessages(ms) :
                ResultFollows(BuildAnthropicMessages(ms), j, ms[k].calls[1].id)
<1> DEFINE M == MergeConsecutiveMessages(ms)
           R == [k \in DOMAIN M |-> Converted(M[k])]
           B == BuildAnthropicMessages(ms)
<1>1. /\ M \in Seq(Message) /\ Shaped(M) /\ Closed(M)
      /\ \A k \in DOMAIN ms : ms[k].calls # <<>> => \E j \in DOMAIN M : M[j].calls = ms[k].calls
  BY MergedShape
<1>2. B = IF R # <<>> /\ Last(R).role = "assistant" THEN Append(R, UserMessage(<<TextBlock>>)) ELSE R
  BY Zenon DEF BuildAnthropicMessages
<1> HIDE DEF M, B
<1>3. Len(M) \in Nat /\ DOMAIN M = 1 .. Len(M) /\ \A k \in DOMAIN M : M[k] \in Message
  BY <1>1
<1>4. ASSUME NEW k \in DOMAIN M
      PROVE  /\ Converted(M[k]) \in RawRequest
             /\ Converted(M[k]).role = IF M[k].role = "assistant" THEN "assistant" ELSE "user"
             /\ M[k].role = "tool" => Converted(M[k]).blocks = <<ResultBlock(M[k].id)>>
             /\ M[k].calls # <<>> => UsesOf(Converted(M[k])) = CallIds(M[k])
             /\ M[k].calls = <<>> => UsesOf(Converted(M[k])) = {}
  <2>1. M[k] \in Message /\ (M[k].calls # <<>> => M[k].role = "assistant")
    BY <1>1, <1>3 DEF Shaped
  <2>2. QED
    BY <2>1, ConvertedMessage
<1>5. R \in Seq(RawRequest) /\ Len(R) = Len(M) /\ \A k \in DOMAIN M : R[k] = Converted(M[k])
  BY <1>3, <1>4
<1> HIDE DEF R
<1>6. UserMessage(<<TextBlock>>) \in RawRequest
  <2>1. TextBlock \in Block
    BY DEF TextBlock, Block, Ids
  <2>2. UserMessage(<<TextBlock>>) \in RequestMessage
    BY <2>1 DEF UserMessage, RequestMessage
  <2>3. ToSet(<<TextBlock>>) = {TextBlock}
    BY DEF ToSet
  <2>4. Raw(UserMessage(<<TextBlock>>))
    BY <2>3 DEF Raw, UserMessage, IsUse, IsResult, UseKind, ResultKinds, TextBlock
  <2>5. QED
    BY <2>2, <2>4 DEF RawRequest
<1>7. /\ B \in Seq(RawRequest) /\ Len(M) <= Len(B) /\ \A k \in DOMAIN M : k \in DOMAIN B /\ B[k] = Converted(M[k])
  <2>1. CASE B = R
    BY <1>3, <1>5, <2>1
  <2>2. CASE B = Append(R, UserMessage(<<TextBlock>>))
    BY <1>3, <1>5, <1>6, <2>2
  <2>3. QED
    BY <1>2, <2>1, <2>2
<1>8. ASSUME NEW k \in DOMAIN ms, Len(ms[k].calls) = 1
      PROVE  \E j \in DOMAIN B : ResultFollows(B, j, ms[k].calls[1].id)
  <2>1. ms[k] \in Message /\ ms[k].calls \in Seq(CallT) /\ ms[k].calls # <<>>
    <3>1. ms[k] \in Message
      OBVIOUS
    <3>2. ms[k].calls \in Seq(CallT)
      BY <3>1 DEF Message
    <3>3. \A s \in Seq(CallT) : Len(s) = 1 => s # <<>>
      OBVIOUS
    <3>4. ms[k].calls # <<>>
      BY <1>8, <3>2, <3>3, Zenon
    <3>5. QED
      BY <3>1, <3>2, <3>4
  <2>2. PICK j \in DOMAIN M : M[j].calls = ms[k].calls
    BY <1>1, <2>1
  <2> DEFINE i == ms[k].calls[1].id
  <2>3. i \in Ids /\ i \in CallIds(M[j])
    <3>1. 1 \in DOMAIN ms[k].calls /\ ms[k].calls[1] \in CallT
      BY <1>8, <2>1
    <3>2. QED
      BY <2>2, <3>1 DEF CallIds, CallT, Ids
  <2>4. j < Len(M) /\ j + 1 \in DOMAIN M /\ j \in 1 .. Len(M)
    <3>1. M # <<>> /\ Last(M).calls = <<>>
      BY <1>1, <1>3, <2>2 DEF Closed
    <3>2. j # Len(M)
      BY <2>1, <2>2, <3>1 DEF Last
    <3>3. QED
      BY <1>3, <3>2
  <2>5. M[j + 1].role = "tool" /\ M[j + 1].id = i /\ M[j].role = "assistant"
    <3>1. Followed(M, j)
      BY <1>1, <2>4 DEF Shaped
    <3>2. Len(M[j].calls) = 1 /\ M[j].calls # <<>> /\ M[j].calls[1].id = i
      BY <1>8, <2>1, <2>2
    <3>3. QED
      BY <1>1, <3>1, <3>2 DEF Followed, Shaped
  <2> HIDE DEF i
  <2>6. B[j].role = "assistant" /\ i \in UsesOf(B[j])
    BY <1>4, <1>7, <2>1, <2>2, <2>3, <2>5
  <2>7. B[j + 1].role = "user" /\ B[j + 1].blocks = <<ResultBlock(i)>>
    BY <1>4, <1>7, <2>4, <2>5
  <2>8. j < Len(B) /\ j \in DOMAIN B
    BY <1>7, <2>4
  <2>9. \E b \in ToSet(B[j + 1].blocks) : b.kind = "result" /\ b.id = i
    <3>1. ResultBlock(i) \in ToSet(<<ResultBlock(i)>>)
      BY DEF ToSet
    <3>2. QED
      BY <2>7, <3>1 DEF ResultBlock
  <2>10. \A l \in 1 .. j - 1 : i \notin UsesOf(B[l])
    <3>1. TAKE l \in 1 .. j - 1
    <3>2. l \in DOMAIN M /\ l < j
      BY <1>3, <2>4
    <3>3. CallIds(M[l]) \cap CallIds(M[j]) = {}
      BY <1>1, <3>2 DEF Shaped
    <3>4. UsesOf(B[l]) = CallIds(M[l]) \/ UsesOf(B[l]) = {}
      BY <1>4, <1>7, <3>2
    <3>5. QED
      BY <2>3, <3>3, <3>4
  <2>11. ResultFollows(B, j, i)
    BY <2>3, <2>6, <2>7, <2>8, <2>9, <2>10 DEF ResultFollows
  <2>12. QED
    BY <2>8, <2>11 DEF i
<1>9. QED
  BY <1>7, <1>8 DEF B

\* The request that a conversation of this shape becomes.
LEMMA RequestSound ==
  ASSUME NEW ms \in Seq(Message), Shaped(ms), Closed(ms)
  PROVE  /\ WellPaired(Request(ms))
         /\ \A k \in DOMAIN ms : Len(ms[k].calls) = 1 => ms[k].calls[1].id \in Shown(Request(ms))
<1> DEFINE B == BuildAnthropicMessages(ms)
<1>1. /\ B \in Seq(RawRequest)
      /\ \A k \in DOMAIN ms : Len(ms[k].calls) = 1 =>
           \E j \in DOMAIN B : ResultFollows(B, j, ms[k].calls[1].id)
  BY RequestBuilt
<1>2. Request(ms) = EnsureToolResultPairing(B)
  BY DEF Request
<1> HIDE DEF B
<1>3. /\ WellPaired(Request(ms))
      /\ \A j \in DOMAIN B : \A i : ResultFollows(B, j, i) => i \in Shown(Request(ms))
  BY <1>1, <1>2, RequestRepaired
<1>4. QED
  BY <1>1, <1>3

-----------------------------------------------------------------------------
(* The stored conversation, compactions, and the calls since the last user *)
(* message.                                                                *)

\* The stored conversation has no calls.
LEMMA StoredConversation ==
  ASSUME NEW h \in Histories
  PROVE  /\ SessionToMessages(h) \in Seq(Message)
         /\ \A k \in DOMAIN SessionToMessages(h) : SessionToMessages(h)[k].calls = <<>>
<1> DEFINE T == [k \in DOMAIN h |-> TextMessage(h[k])]
<1>1. h \in Seq({"user", "assistant"})
  BY HistoriesAssumption
<1>2. \A role \in {"user", "assistant"} : TextMessage(role) \in Message /\ TextMessage(role).calls = <<>>
  <2>1. TAKE role \in {"user", "assistant"}
  <2>2. <<>> \in Seq(CallT)
    OBVIOUS
  <2> HIDE DEF CallT
  <2>3. QED
    BY <2>2 DEF TextMessage, Message, Ids, NoId
<1>3. T \in Seq(Message) /\ \A k \in DOMAIN T : T[k].calls = <<>>
  BY <1>1, <1>2
<1> HIDE DEF T
<1>4. Closed(T)
  BY <1>3 DEF Closed, Last
<1>5. Shaped(T)
  <2>1. \A k \in DOMAIN T : CallIds(T[k]) = {}
    BY <1>3, NoCalls
  <2>2. QED
    BY <1>3, <2>1 DEF Shaped, Followed
<1>6. SessionToMessages(h) = MergeConsecutiveMessages(T)
  BY DEF SessionToMessages, T
<1>7. QED
  BY <1>3, <1>4, <1>5, <1>6, MergedShape

\* What a compaction leaves of the messages.
LEMMA RebuiltConversation ==
  ASSUME messages \in Seq(Message), NEW h \in Histories
  PROVE  \E s, t \in Seq(Message) :
           /\ Rebuilt(h) = s \o t
           /\ \A k \in DOMAIN s : s[k].calls = <<>>
           /\ ToSet(t) = {m \in ToSet(messages) : m.role # "user"}
           /\ Shaped(messages) /\ Closed(messages) => Shaped(t) /\ Closed(t)
<1> DEFINE S == {m \in ToSet(messages) : m.role # "user"}
           s == SessionToMessages(h)
           t == Sift(messages, S)
<1>1. Rebuilt(h) = s \o t
  BY Zenon DEF Rebuilt, Select
<1>2. s \in Seq(Message) /\ \A k \in DOMAIN s : s[k].calls = <<>>
  BY StoredConversation
<1>3. S \subseteq ToSet(messages)
  OBVIOUS
<1>4. \A k \in DOMAIN messages : messages[k] \notin S => messages[k].role = "user"
  BY DEF ToSet
<1> HIDE DEF S, s
<1>5. t \in Seq(Message) /\ ToSet(t) = S
  <2>1. t \in Seq(Message) /\ ToSet(t) = ToSet(messages) \cap S
    BY SiftProperties
  <2>2. QED
    BY <1>3, <2>1
<1>6. Shaped(messages) /\ Closed(messages) => Shaped(t) /\ Closed(t)
  BY <1>4, SiftShaped
<1> HIDE DEF t
<1>7. QED
  BY <1>1, <1>2, <1>5, <1>6, Zenon DEF S

\* The call c was asked for behind the last user message of s.
Since(s, c) ==
  \E k \in DOMAIN s : /\ c \in ToSet(s[k].calls)
                      /\ \A j \in DOMAIN s : j >= k => s[j].role # "user"

\* The calls of a message with an act are no more than TimesAsked counts.
LEMMA AskedCalls ==
  ASSUME NEW m \in Message, NEW act
  PROVE  /\ IsFiniteSet({c \in ToSet(m.calls) : c.act = act})
         /\ Cardinality({c \in ToSet(m.calls) : c.act = act}) <= TimesAsked(m, act)
<1>1. m.calls \in Seq(CallT)
  BY DEF Message
<1> DEFINE K == {k \in DOMAIN m.calls : m.calls[k].act = act}
           C == {c \in ToSet(m.calls) : c.act = act}
           f == [k \in K |-> m.calls[k]]
<1>2. IsFiniteSet(1 .. Len(m.calls)) /\ DOMAIN m.calls = 1 .. Len(m.calls)
  BY <1>1, FS_Interval
<1>3. IsFiniteSet(K)
  BY <1>2, FS_Subset
<1>4. f \in Surjection(K, C)
  BY DEF Surjection, ToSet
<1>5. IsFiniteSet(C) /\ Cardinality(C) <= Cardinality(K)
  <2> HIDE DEF f, K, C
  <2>1. QED
    BY <1>3, <1>4, FS_Surjection
<1>6. QED
  BY <1>5, Zenon DEF TimesAsked

\* The identical calls since the last user message are no more than
\* IdenticalCalls counts.
LEMMA IdenticalCounted ==
  ASSUME messages \in Seq(Message), Shaped(messages), NEW act
  PROVE  LET C == {c \in CallT : Since(messages, c) /\ c.act = act} IN
         IsFiniteSet(C) /\ Cardinality(C) <= IdenticalCalls(act)
<1>1. PICK p : IdenticalRun(act, p)
  BY IdenticalUnfold, Zenon
<1>2. /\ p \in [0 .. Len(messages) -> Nat]
      /\ IdenticalCalls(act) = p[Len(messages)]
      /\ p[0] = 0
      /\ \A n \in 1 .. Len(messages) : p[n] = IdenticalStep(act, n, p[n - 1])
  BY <1>1 DEF IdenticalRun
<1> DEFINE Behind(n) == {c \in CallT : c.act = act /\ \E k \in 1 .. n : /\ c \in ToSet(messages[k].calls)
                                                          /\ \A j \in k .. n : messages[j].role # "user"}
           E == {n \in Nat : IsFiniteSet(Behind(n)) /\ Cardinality(Behind(n)) <= p[n]}
<1>3. 0 \in E
  <2>1. Behind(0) = {}
    OBVIOUS
  <2> HIDE DEF Behind
  <2>2. IsFiniteSet(Behind(0)) /\ Cardinality(Behind(0)) = 0
    BY <2>1, FS_EmptySet
  <2>3. QED
    BY <1>2, <2>2
<1>4. ASSUME NEW n \in 1 .. Len(messages), n - 1 \in E
      PROVE  n \in E
  <2>1. /\ p[n - 1] \in Nat /\ p[n] = IdenticalStep(act, n, p[n - 1]) /\ n \in Nat
        /\ messages[n] \in Message /\ n \in n .. n
    BY <1>2
  <2>2. IsFiniteSet(Behind(n - 1)) /\ Cardinality(Behind(n - 1)) <= p[n - 1]
    BY <1>4
  <2>3. CASE messages[n].role = "user"
    <3>1. \A k \in 1 .. n : n \in k .. n
      BY <2>1
    <3>2. Behind(n) = {}
      <4>1. SUFFICES ASSUME NEW c \in Behind(n) PROVE FALSE
        OBVIOUS
      <4>2. PICK k \in 1 .. n : \A j \in k .. n : messages[j].role # "user"
        BY <4>1
      <4>3. QED
        BY <2>3, <3>1, <4>2, Zenon
    <3>3. p[n] = 0
      BY <2>1, <2>3 DEF IdenticalStep
    <3> HIDE DEF Behind
    <3>4. IsFiniteSet(Behind(n)) /\ Cardinality(Behind(n)) = 0
      BY <3>2, FS_EmptySet
    <3>5. QED
      BY <2>1, <3>3, <3>4
  <2>4. CASE messages[n].role # "user"
    <3> DEFINE A == {c \in ToSet(messages[n].calls) : c.act = act}
    <3>1. IsFiniteSet(A) /\ Cardinality(A) <= TimesAsked(messages[n], act) /\ TimesAsked(messages[n], act) \in Nat
      BY <2>1, AskedCalls, TimesAskedType
    <3>2. Behind(n) \subseteq Behind(n - 1) \cup A
      <4>1. SUFFICES ASSUME NEW c \in Behind(n), c \notin A PROVE c \in Behind(n - 1)
        OBVIOUS
      <4>2. PICK k \in 1 .. n : c \in ToSet(messages[k].calls) /\ \A j \in k .. n : messages[j].role # "user"
        BY <4>1
      <4>3. c \in CallT /\ c.act = act /\ k # n
        BY <4>1, <4>2
      <4>4. k \in 1 .. n - 1 /\ \A j \in k .. n - 1 : j \in k .. n
        BY <4>3
      <4>5. QED
        BY <4>2, <4>3, <4>4, Zenon
    <3>3. p[n] = p[n - 1] + TimesAsked(messages[n], act)
      BY <2>1, <2>4 DEF IdenticalStep
    <3> DEFINE B == Behind(n - 1)
               D == Behind(n)
    <3> HIDE DEF A, Behind
    <3>4. /\ IsFiniteSet(B \cup A)
          /\ Cardinality(B \cup A) = Cardinality(B) + Cardinality(A) - Cardinality(B \cap A)
      BY <2>2, <3>1, FS_Union
    <3>5. IsFiniteSet(B \cap A)
      BY <3>1, FS_Subset
    <3>6. Cardinality(B) \in Nat /\ Cardinality(A) \in Nat /\ Cardinality(B \cap A) \in Nat
      BY <2>2, <3>1, <3>5, FS_CardinalityType
    <3>7. IsFiniteSet(D) /\ Cardinality(D) <= Cardinality(B \cup A) /\ Cardinality(D) \in Nat
      BY <3>2, <3>4, FS_Subset, FS_CardinalityType
    <3>8. Cardinality(D) <= p[n]
      <4>1. Cardinality(B) <= p[n - 1]
        BY <2>2
      <4> HIDE DEF B, D
      <4>2. QED
        BY <2>1, <3>1, <3>3, <3>4, <3>6, <3>7, <4>1
    <3>9. QED
      BY <2>1, <3>7, <3>8
  <2>5. QED
    BY <2>3, <2>4
<1> HIDE DEF E
<1>5. \A n \in 0 .. Len(messages) : n \in E
  <2>1. Len(messages) \in Nat
    OBVIOUS
  <2>2. QED
    BY <1>3, <1>4, <2>1, UpTo
<1>6. Len(messages) \in E /\ DOMAIN messages = 1 .. Len(messages) /\ Len(messages) \in Nat
  BY <1>5
<1>7. Behind(Len(messages)) = {c \in CallT : Since(messages, c) /\ c.act = act}
  <2>1. ASSUME NEW k \in 1 .. Len(messages)
        PROVE  (\A j \in k .. Len(messages) : messages[j].role # "user")
                 <=> \A j \in DOMAIN messages : j >= k => messages[j].role # "user"
    <3>1. \A j : j \in k .. Len(messages) <=> j \in DOMAIN messages /\ j >= k
      BY <1>6
    <3>2. QED
      BY <3>1
  <2>2. QED
    BY <1>6, <2>1 DEF Since
<1> HIDE DEF Behind
<1>8. QED
  BY <1>2, <1>6, <1>7 DEF E

\* Appending to the second of two sequences.
LEMMA AppendBehind ==
  \A s, t \in Seq(Message), x \in Message : Append(s \o t, x) = s \o Append(t, x)
<1> TAKE s, t \in Seq(Message), x \in Message
<1>1. <<x>> \in Seq(Message) /\ s \o t \in Seq(Message)
  OBVIOUS
<1>2. Append(s \o t, x) = (s \o t) \o <<x>>
  BY <1>1, AppendIsConcat
<1>3. (s \o t) \o <<x>> = s \o (t \o <<x>>)
  BY <1>1, ConcatAssociative
<1>4. Append(t, x) = t \o <<x>>
  BY AppendIsConcat
<1>5. QED
  BY <1>2, <1>3, <1>4

\* What a call was asked for behind stays behind it while no user message follows.
LEMMA SinceConcat ==
  ASSUME NEW s \in Seq(Message), NEW t \in Seq(Message), \A k \in DOMAIN t : t[k].role # "user",
         NEW c, Since(s, c)
  PROVE  Since(s \o t, c)
<1>1. PICK k \in DOMAIN s : c \in ToSet(s[k].calls) /\ \A j \in DOMAIN s : j >= k => s[j].role # "user"
  BY DEF Since
<1> DEFINE u == s \o t
<1>2. k \in DOMAIN u /\ u[k] = s[k] /\ k \in Nat
  OBVIOUS
<1>3. \A j \in DOMAIN u : \/ j \in DOMAIN s /\ u[j] = s[j]
                          \/ j - Len(s) \in DOMAIN t /\ u[j] = t[j - Len(s)]
  OBVIOUS
<1> HIDE DEF u
<1>4. \A j \in DOMAIN u : j >= k => u[j].role # "user"
  BY <1>1, <1>3
<1>5. QED
  BY <1>1, <1>2, <1>4 DEF Since, u

\* The calls of the last message.
LEMMA SinceLast ==
  ASSUME NEW s \in Seq(Message), NEW m \in Message, m.role # "user", NEW c \in ToSet(m.calls)
  PROVE  Since(Append(s, m), c)
<1>1. /\ Len(s) + 1 \in DOMAIN Append(s, m) /\ Append(s, m)[Len(s) + 1] = m
      /\ \A j \in DOMAIN Append(s, m) : j >= Len(s) + 1 => Append(s, m)[j] = m
  OBVIOUS
<1>2. QED
  BY <1>1 DEF Since

\* A compaction removes user messages only, so that no call gets older.
LEMMA SinceRebuilt ==
  ASSUME messages \in Seq(Message), Shaped(messages), NEW h \in Histories, NEW c, Since(messages, c)
  PROVE  Since(Rebuilt(h), c)
<1>1. PICK s \in Seq(Message), t \in Seq(Message) :
        Rebuilt(h) = s \o t /\ ToSet(t) = {m \in ToSet(messages) : m.role # "user"}
  BY RebuiltConversation
<1>2. PICK k \in DOMAIN messages : c \in ToSet(messages[k].calls) /\ messages[k].role # "user"
  <2>1. PICK k \in DOMAIN messages : /\ c \in ToSet(messages[k].calls)
                                     /\ \A j \in DOMAIN messages : j >= k => messages[j].role # "user"
    BY DEF Since
  <2>2. k >= k
    OBVIOUS
  <2>3. QED
    BY <2>1, <2>2
<1>3. messages[k] \in ToSet(t)
  BY <1>1, <1>2 DEF ToSet
<1>4. PICK i \in DOMAIN t : t[i] = messages[k]
  BY <1>3 DEF ToSet
<1>5. \A j \in DOMAIN t : t[j].role # "user"
  BY <1>1 DEF ToSet
<1> DEFINE u == s \o t
<1>6. /\ Len(s) + i \in DOMAIN u /\ u[Len(s) + i] = t[i]
      /\ \A j \in DOMAIN u : j >= Len(s) + i => j - Len(s) \in DOMAIN t /\ u[j] = t[j - Len(s)]
  OBVIOUS
<1> HIDE DEF u
<1>7. \A j \in DOMAIN u : j >= Len(s) + i => u[j].role # "user"
  BY <1>5, <1>6
<1>8. Since(u, c)
  BY <1>2, <1>4, <1>6, <1>7 DEF Since
<1>9. QED
  BY <1>1, <1>8 DEF u

\* An alert or a correction keeps the shape.
LEMMA ShapedFeedback ==
  ASSUME NEW s \in Seq(Message), Shaped(s), Closed(s)
  PROVE  /\ Append(s, Feedback) \in Seq(Message)
         /\ Shaped(Append(s, Feedback)) /\ Closed(Append(s, Feedback))
<1>1. Feedback \in Message /\ Feedback.calls = <<>>
  BY FeedbackType DEF Feedback, TextMessage
<1>2. \A j \in DOMAIN s : CallIds(s[j]) \cap CallIds(Feedback) = {}
  BY <1>1, NoCalls
<1> HIDE DEF Feedback
<1>3. Shaped(Append(s, Feedback))
  BY <1>1, <1>2, ShapedAppend
<1>4. Append(s, Feedback) # <<>> /\ Last(Append(s, Feedback)) = Feedback
  BY <1>1 DEF Last
<1>5. QED
  BY <1>1, <1>3, <1>4 DEF Closed

\* The results of the waves, with their alerts, put behind the calls.
LEMMA CollectedConversation ==
  ASSUME messages \in Seq(Message), failures \in [Tools -> Nat], results \in Seq(ResultT), results # <<>>,
         Shaped(messages),
         \A k \in DOMAIN results :
           Len(Last(messages).calls) = 1 => results[k].call.id = Last(messages).calls[1].id
  PROVE  /\ Collected \in Gathered
         /\ Shaped(Collected.messages) /\ Closed(Collected.messages)
         /\ \E t \in Seq(Message) : Collected.messages = messages \o t /\ \A k \in DOMAIN t : t[k].calls = <<>>
<1>1. PICK p : CollectedRun(p)
  BY CollectedUnfold, Zenon
<1>2. /\ p \in [0 .. Len(results) -> Gathered]
      /\ Collected = p[Len(results)]
      /\ p[0] = [messages |-> messages, failures |-> failures]
      /\ \A n \in 1 .. Len(results) : p[n] = CollectStep(p[n - 1], results[n])
  BY <1>1 DEF CollectedRun
<1> DEFINE Added(s) == \E t \in Seq(Message) : s = messages \o t /\ \A k \in DOMAIN t : t[k].calls = <<>>
           E == {n \in Nat : /\ Shaped(p[n].messages) /\ Added(p[n].messages)
                             /\ IF n = 0 THEN p[n].messages = messages ELSE Closed(p[n].messages)}
<1>3. 0 \in E
  <2>1. messages = messages \o <<>> /\ <<>> \in Seq(Message) /\ \A k \in DOMAIN <<>> : <<>>[k].calls = <<>>
    OBVIOUS
  <2>2. Added(messages)
    BY <2>1
  <2> HIDE DEF Added
  <2>3. QED
    BY <1>2, <2>2
<1>8. \A u \in Seq(Message), m \in Message : Append(messages \o u, m) = messages \o Append(u, m)
  BY AppendBehind, Zenon
<1>4. ASSUME NEW n \in 1 .. Len(results), n - 1 \in E
      PROVE  n \in E
  <2> DEFINE s == p[n - 1].messages
             r == results[n]
             m == ToolMessage(r)
             a == Append(s, m)
             b == p[n].messages
  <2>1. n - 1 \in Nat /\ n \in Nat /\ n # 0 /\ n \in DOMAIN results /\ r \in ResultT
    OBVIOUS
  <2>2. s \in Seq(Message) /\ p[n - 1] \in Gathered
    <3>1. p[n - 1] \in Gathered
      <4>1. n - 1 \in 0 .. Len(results)
        OBVIOUS
      <4>2. QED
        BY <1>2, <4>1
    <3>2. QED
      BY <3>1 DEF Gathered
  <2>3. Shaped(s) /\ Added(s) /\ IF n - 1 = 0 THEN s = messages ELSE Closed(s)
    BY <1>4
  <2>4. m \in Message /\ m.role = "tool" /\ m.calls = <<>> /\ m.id = r.call.id
    <3> HIDE DEF r
    <3>1. ToolMessage(r) \in Message
      BY <2>1, ToolMessageType
    <3>2. QED
      BY <3>1 DEF ToolMessage
  <2>5. b = a \/ b = Append(a, Feedback)
    <3>1. a \in Seq(Message)
      BY <2>2, <2>4
    <3>2. b = a \o <<>> \/ b = a \o <<Feedback>>
      <4>1. p[n] = CollectStep(p[n - 1], r)
        BY <1>2
      <4> DEFINE tool  == r.call.act.tool
                 count == IF tool \in TechnicalTools THEN 0
                          ELSE IF r.outcome = "ok" THEN 0 ELSE p[n - 1].failures[tool] + 1
      <4>2. CollectStep(p[n - 1], r) = [messages |-> a \o IF count >= 2 THEN <<Feedback>> ELSE <<>>,
                                        failures |-> [p[n - 1].failures EXCEPT ![tool] = count]]
        BY Zenon DEF CollectStep
      <4> HIDE DEF tool, count, r, a
      <4>3. p[n].messages = a \o IF count >= 2 THEN <<Feedback>> ELSE <<>>
        BY <4>1, <4>2
      <4>4. QED
        BY <4>3
    <3> HIDE DEF a, b
    <3>3. a \o <<>> = a /\ a \o <<Feedback>> = Append(a, Feedback)
      BY <3>1, FeedbackType
    <3>4. QED
      BY <3>2, <3>3
  <2> HIDE DEF s, m, b, r
  <2>6. Closed(s) \/ (Len(Last(s).calls) = 1 => m.id = Last(s).calls[1].id)
    BY <2>1, <2>3, <2>4 DEF r
  <2>7. \A j \in DOMAIN s : CallIds(s[j]) \cap CallIds(m) = {}
    BY <2>4, NoCalls
  <2>8. Shaped(a)
    BY <2>2, <2>3, <2>4, <2>6, <2>7, ShapedAppend
  <2>9. a \in Seq(Message) /\ Closed(a)
    BY <2>2, <2>4 DEF Closed, Last
  <2>10. Added(a)
    <3>1. PICK t \in Seq(Message) : s = messages \o t /\ \A k \in DOMAIN t : t[k].calls = <<>>
      BY <2>3
    <3>2. Append(t, m) \in Seq(Message) /\ \A k \in DOMAIN Append(t, m) : Append(t, m)[k].calls = <<>>
      BY <2>4, <3>1
    <3>3. a = messages \o Append(t, m)
      <4>1. Append(messages \o t, m) = messages \o Append(t, m)
        <5>1. m \in Message
          BY <2>4
        <5>2. QED
          BY <1>8, <5>1, Zenon
      <4>2. QED
        BY <3>1, <4>1
    <3> HIDE DEF a
    <3>4. QED
      BY <3>2, <3>3
  <2> HIDE DEF a, Added
  <2>11. CASE b = a
    BY <2>1, <2>8, <2>9, <2>10, <2>11 DEF b
  <2>12. CASE b = Append(a, Feedback)
    <3>1. Shaped(b) /\ Closed(b)
      BY <2>8, <2>9, <2>12, ShapedFeedback
    <3>2. Added(b)
      <4>1. PICK t \in Seq(Message) : a = messages \o t /\ \A k \in DOMAIN t : t[k].calls = <<>>
        BY <2>10 DEF Added
      <4>2. Feedback \in Message /\ Feedback.calls = <<>>
        BY FeedbackType DEF Feedback, TextMessage
      <4> HIDE DEF Feedback
      <4>3. Append(t, Feedback) \in Seq(Message)
            /\ \A k \in DOMAIN Append(t, Feedback) : Append(t, Feedback)[k].calls = <<>>
        BY <4>1, <4>2
      <4>4. b = messages \o Append(t, Feedback)
        <5>1. Append(messages \o t, Feedback) = messages \o Append(t, Feedback)
          BY <1>8, <4>2, Zenon
        <5>2. QED
          BY <2>12, <4>1, <5>1
      <4>5. QED
        BY <4>3, <4>4 DEF Added
    <3>3. QED
      BY <2>1, <3>1, <3>2 DEF b
  <2>13. QED
    BY <2>5, <2>11, <2>12
<1> HIDE DEF E
<1>5. \A n \in 0 .. Len(results) : n \in E
  <2>1. Len(results) \in Nat
    OBVIOUS
  <2>2. QED
    BY <1>3, <1>4, <2>1, UpTo
<1>6. Len(results) \in E /\ Len(results) # 0 /\ Len(results) \in 0 .. Len(results)
  BY <1>5
<1>7. QED
  BY <1>2, <1>6 DEF E

-----------------------------------------------------------------------------
(* The inductive invariant of the loop.                                    *)

\* Where the loop is when no tool runs.
Places == {"top", "compact", "ask", "asking", "recover", "done", "thrown"}

\* What the loop may have returned.
ResultTyped(r) == r = NoResult \/ r.stopReason \in {"completed", "aborted", "max_iterations", "max_duration"}

\* The types of the variables, the waves without conflicts included.
LoopTypes ==
  /\ pc \in Places \cup {"tools"} /\ aborted \in BOOLEAN /\ ResultTyped(result)
  /\ messages \in Seq(Message) /\ waves \in Seq(Wave(CallT)) /\ results \in Seq(ResultT)
  /\ \A k \in DOMAIN results : results[k].outcome \in OutcomesOf(results[k].call.act)
  /\ steps \subseteq CallT /\ ran \subseteq CallT /\ old \subseteq CallT
  /\ failures \in [Tools -> Nat]

\* The calls of the waves and of their results are those of the last message.
InFlight ==
  /\ messages # <<>> /\ (waves # <<>> \/ results # <<>>)
  /\ \A n \in DOMAIN waves : ToSet(waves[n]) \subseteq ToSet(Last(messages).calls)
  /\ \A n \in DOMAIN results : results[n].call \in ToSet(Last(messages).calls)

\* The ids of the calls of s belong to iterations before n.
Before(s, n) == \A k \in DOMAIN s : \A i \in CallIds(s[k]) : i[1] < n

\* The conversation has its shape, its ids are those of iterations that were,
\* and only while the tools run do calls wait for their results.
Conversation ==
  /\ Shaped(messages)
  /\ Before(messages, IF pc = "tools" THEN iteration + 1 ELSE iteration)
  /\ IF pc = "tools" THEN InFlight ELSE Closed(messages)

\* What the actions of the loop preserve together.
LoopInv == LoopTypes /\ Conversation

\* The waves planned for the calls of a reply.
LEMMA Planned ==
  ASSUME NEW calls \in Seq(CallT), calls # <<>>
  PROVE  /\ PlanToolExecutionWaves(calls) \in Seq(Wave(CallT))
         /\ PlanToolExecutionWaves(calls) # <<>>
         /\ \A n \in DOMAIN PlanToolExecutionWaves(calls) :
              ToSet(PlanToolExecutionWaves(calls)[n]) \subseteq ToSet(calls)
<1> DEFINE C == ToSet(calls)
           w == PlanToolExecutionWaves(calls)
<1>1. calls \in Seq(C) /\ C \subseteq CallT
  BY DEF ToSet
<1> HIDE DEF C
<1>2. PICK p : PlanRun(C, calls, p)
  BY <1>1, PlanUnfold
<1>3. /\ p \in [0 .. Len(calls) -> Seq(Wave(C))] /\ w = p[Len(calls)]
      /\ \A n \in 1 .. Len(calls) : p[n] = PlanStep(p[n - 1], calls[n])
  BY <1>2 DEF PlanRun
<1>4. Len(calls) \in 1 .. Len(calls) /\ Len(calls) \in 0 .. Len(calls) /\ Len(calls) - 1 \in 0 .. Len(calls)
  OBVIOUS
<1> HIDE DEF w
<1>5. w \in Seq(Wave(C))
  BY <1>3, <1>4
<1>6. w # <<>>
  <2> DEFINE r == p[Len(calls) - 1]
  <2>1. r \in Seq(Wave(C)) /\ w = PlanStep(r, calls[Len(calls)])
    BY <1>3, <1>4
  <2> HIDE DEF r
  <2>2. QED
    BY <2>1 DEF PlanStep
<1>7. ASSUME NEW n \in DOMAIN w
      PROVE  w[n] \in Wave(CallT) /\ ToSet(w[n]) \subseteq C
  <2>1. w[n] \in Wave(C)
    BY <1>5
  <2>2. w[n] \in Seq(C) /\ w[n] # <<>> /\ Clear(w[n])
    BY <2>1, Zenon DEF Wave
  <2>3. w[n] \in Seq(CallT) /\ ToSet(w[n]) \subseteq C
    BY <1>1, <2>2 DEF ToSet
  <2>4. QED
    BY <2>2, <2>3, Zenon DEF Wave
<1>8. w \in Seq(Wave(CallT))
  BY <1>5, <1>7
<1>9. QED
  BY <1>6, <1>7, <1>8 DEF C, w

\* The message with the calls of a reply is a message.
LEMMA CallMessageType ==
  ASSUME NEW calls \in Seq(CallT)
  PROVE  /\ CallMessage(calls) \in Message
         /\ CallMessage(calls).role = "assistant" /\ CallMessage(calls).calls = calls
<1>1. CallMessage(calls) = [role |-> "assistant", calls |-> calls, id |-> NoId, tool |-> "none", outcome |-> "none"]
  BY DEF CallMessage, TextMessage
<1>2. NoId \in Ids
  BY DEF Ids
<1> HIDE DEF CallT
<1>3. QED
  BY <1>1, <1>2 DEF Message

\* The message of a reply that calls tools.
LEMMA RepliedMessage ==
  ASSUME NEW acts \in Replies, iteration \in Nat, NEW calls,
         calls = [k \in DOMAIN acts |-> [id |-> <<iteration, k>>, act |-> acts[k]]]
  PROVE  /\ calls \in Seq(CallT) /\ calls # <<>>
         /\ CallMessage(calls) \in Message
         /\ CallMessage(calls).role = "assistant" /\ CallMessage(calls).calls = calls
         /\ \A i \in CallIds(CallMessage(calls)) : i[1] = iteration
<1>1. acts \in Seq(Acts) /\ acts # <<>>
  BY RepliesAssumption
<1>2. Len(acts) \in Nat /\ Len(acts) # 0 /\ DOMAIN acts = 1 .. Len(acts)
  BY <1>1
<1>3. ASSUME NEW k \in DOMAIN acts
      PROVE  [id |-> <<iteration, k>>, act |-> acts[k]] \in CallT
  BY <1>1, <1>2, <1>3 DEF CallT
<1>4. calls \in Seq(CallT) /\ Len(calls) = Len(acts) /\ DOMAIN calls = DOMAIN acts
  BY <1>2, <1>3
<1>5. calls # <<>>
  <2>1. 1 \in DOMAIN calls
    BY <1>2, <1>4
  <2>2. QED
    BY <2>1
<1>7. CallMessage(calls) \in Message
  BY <1>4, CallMessageType
<1>8. CallMessage(calls).role = "assistant" /\ CallMessage(calls).calls = calls
  BY <1>4, CallMessageType
<1>9. \A i \in CallIds(CallMessage(calls)) : i[1] = iteration
  <2>1. \A k \in DOMAIN calls : calls[k].id = <<iteration, k>>
    BY <1>4
  <2>2. CallIds(CallMessage(calls)) = {calls[k].id : k \in DOMAIN calls}
    BY <1>8 DEF CallIds
  <2>3. QED
    BY <2>1, <2>2
<1>10. QED
  BY <1>4, <1>5, <1>7, <1>8, <1>9

\* Ids stay those of earlier iterations.
LEMMA BeforeAppend ==
  ASSUME NEW s \in Seq(Message), NEW m \in Message, NEW n,
         Before(s, n), \A i \in CallIds(m) : i[1] < n
  PROVE  Before(Append(s, m), n)
<1>1. \A k \in DOMAIN Append(s, m) : (k \in DOMAIN s /\ Append(s, m)[k] = s[k]) \/ Append(s, m)[k] = m
  OBVIOUS
<1>2. QED
  BY <1>1 DEF Before

\* Two conversations with ids of earlier iterations.
LEMMA BeforeConcat ==
  ASSUME NEW s \in Seq(Message), NEW t \in Seq(Message), NEW n, Before(s, n), Before(t, n)
  PROVE  Before(s \o t, n)
<1>1. \A k \in DOMAIN (s \o t) : \/ k \in DOMAIN s /\ (s \o t)[k] = s[k]
                                 \/ k - Len(s) \in DOMAIN t /\ (s \o t)[k] = t[k - Len(s)]
  OBVIOUS
<1>2. QED
  BY <1>1 DEF Before

\* Messages without calls have no ids.
LEMMA BeforeNoCalls ==
  ASSUME NEW s \in Seq(Message), \A k \in DOMAIN s : s[k].calls = <<>>, NEW n
  PROVE  Before(s, n)
<1>1. \A k \in DOMAIN s : CallIds(s[k]) = {}
  BY NoCalls
<1>2. QED
  BY <1>1 DEF Before

\* A later iteration.
LEMMA BeforeLater ==
  ASSUME NEW s \in Seq(Message), NEW n \in Nat, Before(s, n)
  PROVE  Before(s, n + 1)
<1>1. SUFFICES ASSUME NEW k \in DOMAIN s, NEW i \in CallIds(s[k])
               PROVE  i[1] < n + 1
  BY DEF Before
<1>2. i[1] < n
  BY <1>1 DEF Before
<1>3. i[1] \in Nat
  <2>1. s[k] \in Message
    OBVIOUS
  <2>2. s[k].calls \in Seq(CallT)
    BY <2>1 DEF Message
  <2>3. PICK l \in DOMAIN s[k].calls : i = s[k].calls[l].id
    BY DEF CallIds
  <2>4. s[k].calls[l] \in CallT
    BY <2>2, <2>3
  <2>5. i \in Nat \X Nat
    BY <2>3, <2>4 DEF CallT
  <2>6. QED
    BY <2>5
<1>4. QED
  BY <1>2, <1>3

-----------------------------------------------------------------------------
(* The conversation, action by action.                                     *)

\* A step that neither replies nor runs tools leaves the conversation alone.
LEMMA QuietStep ==
  ASSUME LoopInv, pc # "tools", pc' \in Places, aborted' \in BOOLEAN, ResultTyped(result)',
         UNCHANGED <<iteration, messages, waves, results, steps, failures, ran, old>>
  PROVE  LoopInv'
<1>1. LoopTypes'
  BY DEF LoopInv, LoopTypes
<1>2. Conversation'
  <2>1. pc' # "tools"
    BY DEF Places
  <2>2. UNCHANGED <<iteration, messages>>
    OBVIOUS
  <2>3. Shaped(messages) /\ Before(messages, iteration) /\ Closed(messages)
    BY DEF LoopInv, Conversation
  <2>4. QED
    BY <2>1, <2>2, <2>3 DEF Conversation
<1>3. QED
  BY <1>1, <1>2 DEF LoopInv

\* A way out of the loop.
LEMMA FinishStep ==
  ASSUME LoopInv, pc # "tools", NEW error,
         NEW reason \in {"completed", "aborted", "max_iterations", "max_duration"}, Finish(reason, error)
  PROVE  LoopInv'
<1>1. /\ pc' \in Places /\ aborted' \in BOOLEAN
      /\ UNCHANGED <<iteration, messages, waves, results, steps, failures, ran, old>>
  BY DEF Finish, Places, LoopInv, LoopTypes
<1>2. ResultTyped(result)'
  BY DEF Finish, ResultTyped
<1>3. QED
  BY <1>1, <1>2, QuietStep

\* The loop throws.
LEMMA ThrowStep ==
  ASSUME LoopInv, pc # "tools", Throw
  PROVE  LoopInv'
<1>1. /\ pc' \in Places /\ aborted' \in BOOLEAN /\ ResultTyped(result)'
      /\ UNCHANGED <<iteration, messages, waves, results, steps, failures, ran, old>>
  BY DEF Throw, Places, LoopInv, LoopTypes
<1>2. QED
  BY <1>1, QuietStep

\* The catch block.
LEMMA FailStep ==
  ASSUME LoopInv, pc # "tools", Fail
  PROVE  LoopInv'
<1>1. CASE aborted
  BY <1>1, FinishStep DEF Fail
<1>2. CASE ~ aborted
  BY <1>2, FinishStep DEF Fail
<1>3. QED
  BY <1>1, <1>2

\* New messages of a closed conversation, outside the tools.
LEMMA MessagesStep ==
  ASSUME LoopInv, pc # "tools", pc' \in Places, aborted' \in BOOLEAN, ResultTyped(result)',
         UNCHANGED <<waves, results, steps, failures, ran>>, old' \subseteq CallT,
         messages' \in Seq(Message), Shaped(messages'), Closed(messages'), Before(messages', iteration')
  PROVE  LoopInv'
<1>1. LoopTypes'
  BY DEF LoopInv, LoopTypes
<1>2. Conversation'
  <2>1. pc' # "tools"
    BY DEF Places
  <2>2. QED
    BY <2>1 DEF Conversation
<1>3. QED
  BY <1>1, <1>2 DEF LoopInv

\* A user message for the model.
LEMMA CorrectStep ==
  ASSUME LoopInv, Bounded, pc # "tools", Correct
  PROVE  LoopInv'
<1>1. /\ messages \in Seq(Message) /\ Shaped(messages) /\ Closed(messages) /\ Before(messages, iteration)
      /\ iteration \in Nat
  BY DEF LoopInv, LoopTypes, Conversation, Bounded
<1>2. messages' = Append(messages, Feedback) /\ iteration' = iteration + 1
  BY DEF Correct
<1>3. messages' \in Seq(Message) /\ Shaped(messages') /\ Closed(messages')
  BY <1>1, <1>2, ShapedFeedback
<1>4. Before(messages', iteration')
  <2>1. Feedback \in Message /\ CallIds(Feedback) = {}
    BY FeedbackType, NoCalls DEF Feedback, TextMessage
  <2>2. Before(messages, iteration + 1)
    BY <1>1, BeforeLater
  <2>3. QED
    BY <1>1, <1>2, <2>1, <2>2, BeforeAppend
<1>5. /\ pc' \in Places /\ aborted' \in BOOLEAN /\ ResultTyped(result)' /\ old' \subseteq CallT
      /\ UNCHANGED <<waves, results, steps, failures, ran>>
  BY DEF Correct, Places, LoopInv, LoopTypes
<1>6. QED
  BY <1>3, <1>4, <1>5, MessagesStep

\* What a compaction leaves is a conversation.
LEMMA RebuiltShape ==
  ASSUME messages \in Seq(Message), Shaped(messages), Closed(messages), NEW n, Before(messages, n),
         NEW h \in Histories
  PROVE  /\ Rebuilt(h) \in Seq(Message)
         /\ Shaped(Rebuilt(h)) /\ Closed(Rebuilt(h)) /\ Before(Rebuilt(h), n)
<1>1. PICK s \in Seq(Message), t \in Seq(Message) :
        /\ Rebuilt(h) = s \o t
        /\ \A k \in DOMAIN s : s[k].calls = <<>>
        /\ ToSet(t) = {m \in ToSet(messages) : m.role # "user"}
        /\ Shaped(t) /\ Closed(t)
  BY RebuiltConversation
<1>2. Shaped(s \o t) /\ Closed(s \o t) /\ s \o t \in Seq(Message)
  BY <1>1, ShapedBehind
<1>3. Before(s, n)
  BY <1>1, BeforeNoCalls
<1>4. Before(t, n)
  <2>1. \A k \in DOMAIN t : t[k] \in ToSet(messages)
    BY <1>1 DEF ToSet
  <2>2. \A k \in DOMAIN t : \E j \in DOMAIN messages : t[k] = messages[j]
    BY <2>1 DEF ToSet
  <2>3. QED
    BY <2>2 DEF Before
<1>5. Before(s \o t, n)
  BY <1>3, <1>4, BeforeConcat
<1>6. QED
  BY <1>1, <1>2, <1>5

\* The messages that a compaction, before a request or after an overflow, leaves.
LEMMA CompactedStep ==
  ASSUME LoopInv, Bounded, pc # "tools", pc' \in Places,
         messages' \in {messages} \cup {Rebuilt(h) : h \in Histories},
         iteration' \in {iteration, iteration + 1},
         UNCHANGED <<waves, results, steps, failures, aborted, result, ran, old>>
  PROVE  LoopInv'
<1>1. /\ messages \in Seq(Message) /\ Shaped(messages) /\ Closed(messages) /\ Before(messages, iteration)
      /\ iteration \in Nat
  BY DEF LoopInv, LoopTypes, Conversation, Bounded
<1>2. Before(messages, iteration')
  BY <1>1, BeforeLater
<1>3. messages' \in Seq(Message) /\ Shaped(messages') /\ Closed(messages') /\ Before(messages', iteration')
  <2>1. CASE messages' = messages
    BY <1>1, <1>2, <2>1
  <2>2. CASE \E h \in Histories : messages' = Rebuilt(h)
    BY <1>1, <1>2, <2>2, RebuiltShape
  <2>3. QED
    BY <2>1, <2>2
<1>4. aborted' \in BOOLEAN /\ ResultTyped(result)' /\ old' \subseteq CallT
  BY DEF LoopInv, LoopTypes
<1>5. QED
  BY <1>3, <1>4, MessagesStep

\* A reply that calls tools.
LEMMA RepliedCallsStep ==
  ASSUME LoopInv, Bounded, NEW acts \in Replies, RepliedCalls(acts)
  PROVE  LoopInv'
<1> DEFINE calls == [k \in DOMAIN acts |-> [id |-> <<iteration, k>>, act |-> acts[k]]]
           m == CallMessage(calls)
<1>1. /\ messages' = Append(messages, m) /\ steps' = steps \cup ToSet(calls)
      /\ waves' = PlanToolExecutionWaves(calls) /\ results' = <<>> /\ pc' = "tools" /\ pc # "tools"
      /\ UNCHANGED <<iteration, failures, aborted, result, ran, old>>
  BY DEF RepliedCalls
<1>2. /\ messages \in Seq(Message) /\ Shaped(messages) /\ Closed(messages) /\ Before(messages, iteration)
      /\ iteration \in Nat
  BY <1>1 DEF LoopInv, LoopTypes, Conversation, Bounded
<1>3. /\ calls \in Seq(CallT) /\ calls # <<>> /\ m \in Message /\ m.role = "assistant" /\ m.calls = calls
      /\ \A i \in CallIds(m) : i[1] = iteration
  BY <1>2, RepliedMessage
<1> HIDE DEF calls, m
<1>4. /\ waves' \in Seq(Wave(CallT)) /\ waves' # <<>>
      /\ \A n \in DOMAIN waves' : ToSet(waves'[n]) \subseteq ToSet(calls)
  BY <1>1, <1>3, Planned
<1>5. ToSet(calls) \subseteq CallT
  BY <1>3 DEF ToSet
<1>6. messages' \in Seq(Message) /\ messages' # <<>> /\ Last(messages') = m
  BY <1>1, <1>2, <1>3 DEF Last
<1>7. Shaped(messages')
  <2>1. ASSUME NEW j \in DOMAIN messages
        PROVE  CallIds(messages[j]) \cap CallIds(m) = {}
    <3>1. \A i \in CallIds(messages[j]) : i[1] < iteration
      BY <1>2 DEF Before
    <3>2. QED
      BY <1>2, <1>3, <3>1
  <2>2. QED
    BY <1>1, <1>2, <1>3, <2>1, ShapedAppend
<1>8. Before(messages', iteration + 1)
  <2>1. Before(messages, iteration + 1)
    BY <1>2, BeforeLater
  <2>2. \A i \in CallIds(m) : i[1] < iteration + 1
    BY <1>2, <1>3
  <2>3. QED
    BY <1>1, <1>2, <1>3, <2>1, <2>2, BeforeAppend
<1>9. LoopTypes'
  <2>1. results' \in Seq(ResultT) /\ \A k \in DOMAIN results' : FALSE
    BY <1>1
  <2>2. QED
    BY <1>1, <1>4, <1>5, <1>6, <2>1 DEF LoopInv, LoopTypes
<1>10. Conversation'
  <2>1. InFlight'
    BY <1>1, <1>3, <1>4, <1>6 DEF InFlight
  <2>2. QED
    BY <1>1, <1>7, <1>8, <2>1 DEF Conversation
<1>11. QED
  BY <1>9, <1>10 DEF LoopInv

\* What a wave adds to the results.
WaveResults(wave, outcome) == [k \in DOMAIN wave |-> [call |-> wave[k], outcome |-> outcome[k]]]

\* The results of a wave answer its calls.
LEMMA WaveResultsType ==
  ASSUME NEW wave \in Wave(CallT), NEW outcome \in [DOMAIN wave -> {"ok", "error", "killed"}]
  PROVE  /\ WaveResults(wave, outcome) \in Seq(ResultT) /\ WaveResults(wave, outcome) # <<>>
         /\ DOMAIN WaveResults(wave, outcome) = DOMAIN wave
         /\ \A k \in DOMAIN wave : /\ WaveResults(wave, outcome)[k].call = wave[k]
                                   /\ WaveResults(wave, outcome)[k].outcome = outcome[k]
                                   /\ wave[k] \in CallT /\ wave[k] \in ToSet(wave)
<1>1. wave \in Seq(CallT) /\ wave # <<>>
  BY DEF Wave
<1> DEFINE w == WaveResults(wave, outcome)
<1>2. w \in Seq(ResultT) /\ DOMAIN w = DOMAIN wave /\ Len(w) = Len(wave)
  <2>1. \A k \in DOMAIN wave : [call |-> wave[k], outcome |-> outcome[k]] \in ResultT
    BY <1>1 DEF ResultT
  <2>2. QED
    BY <1>1, <2>1 DEF WaveResults
<1>3. \A k \in DOMAIN wave : w[k].call = wave[k] /\ w[k].outcome = outcome[k]
  BY DEF WaveResults
<1>4. \A k \in DOMAIN wave : wave[k] \in CallT /\ wave[k] \in ToSet(wave)
  BY <1>1 DEF ToSet
<1> HIDE DEF w
<1>5. w # <<>>
  <2>1. Len(wave) # 0
    BY <1>1
  <2>2. QED
    BY <1>2, <2>1
<1>6. QED
  BY <1>2, <1>3, <1>4, <1>5 DEF w

\* A wave runs.
LEMMA RunWaveStep ==
  ASSUME LoopInv, RunWave
  PROVE  LoopInv'
<1> DEFINE wave == Head(waves)
<1>1. PICK outcome \in [DOMAIN wave -> {"ok", "error", "killed"}] :
        /\ \A k \in DOMAIN wave :
             outcome[k] \in IF Stalled(wave[k].act) THEN {"error"} ELSE OutcomesOf(wave[k].act)
        /\ results' = results \o WaveResults(wave, outcome)
        /\ ran' = ran \cup {c \in ToSet(wave) : ~ Stalled(c.act)}
  BY Zenon DEF RunWave, WaveResults
<1>2. /\ pc = "tools" /\ waves # <<>> /\ waves' = Tail(waves)
      /\ UNCHANGED <<pc, iteration, messages, steps, failures, aborted, result, old>>
  BY DEF RunWave
<1>3. /\ waves \in Seq(Wave(CallT)) /\ results \in Seq(ResultT) /\ ran \subseteq CallT
      /\ \A k \in DOMAIN results : results[k].outcome \in OutcomesOf(results[k].call.act)
  BY DEF LoopInv, LoopTypes
<1>4. /\ wave \in Wave(CallT) /\ 1 \in DOMAIN waves /\ waves[1] = wave
      /\ Tail(waves) \in Seq(Wave(CallT))
      /\ \A n \in DOMAIN Tail(waves) : n + 1 \in DOMAIN waves /\ Tail(waves)[n] = waves[n + 1]
  BY <1>2, <1>3
<1> DEFINE w == WaveResults(wave, outcome)
<1> HIDE DEF wave
<1>5. /\ w \in Seq(ResultT) /\ w # <<>> /\ DOMAIN w = DOMAIN wave
      /\ \A k \in DOMAIN wave : /\ w[k].call = wave[k] /\ w[k].outcome = outcome[k]
                                /\ wave[k] \in CallT /\ wave[k] \in ToSet(wave)
  BY <1>4, WaveResultsType
<1> HIDE DEF w
<1>6. /\ results \o w \in Seq(ResultT) /\ results \o w # <<>>
      /\ \A k \in DOMAIN (results \o w) :
           \/ k \in DOMAIN results /\ (results \o w)[k] = results[k]
           \/ \E j \in DOMAIN w : (results \o w)[k] = w[j]
  <2>1. \A k \in DOMAIN (results \o w) :
          \/ k \in DOMAIN results /\ (results \o w)[k] = results[k]
          \/ k - Len(results) \in DOMAIN w /\ (results \o w)[k] = w[k - Len(results)]
    BY <1>3, <1>5
  <2>2. results \o w # <<>>
    BY <1>3, <1>5
  <2>3. QED
    BY <1>3, <1>5, <2>1, <2>2
<1>7. results' = results \o w
  BY <1>1 DEF w
<1>8. \A act : OutcomesOf(act) \subseteq {"ok", "error", "killed"} /\ "error" \in OutcomesOf(act)
  BY DEF OutcomesOf
<1>9. LoopTypes'
  <2>1. ran' \subseteq CallT
    <3>1. ToSet(wave) \subseteq CallT
      BY <1>5 DEF ToSet
    <3>2. QED
      BY <1>1, <1>3, <3>1
  <2>2. \A k \in DOMAIN w : w[k].outcome \in OutcomesOf(w[k].call.act)
    BY <1>1, <1>5, <1>8
  <2>3. \A k \in DOMAIN results' : results'[k].outcome \in OutcomesOf(results'[k].call.act)
    BY <1>3, <1>6, <1>7, <2>2
  <2>4. results' \in Seq(ResultT) /\ waves' \in Seq(Wave(CallT))
    BY <1>2, <1>4, <1>6, <1>7
  <2>5. QED
    BY <1>2, <2>1, <2>3, <2>4 DEF LoopInv, LoopTypes
<1>10. Conversation'
  <2>1. Shaped(messages) /\ Before(messages, iteration + 1) /\ InFlight
    BY <1>2 DEF LoopInv, Conversation
  <2>2. InFlight'
    <3>1. \A n \in DOMAIN waves' : ToSet(waves'[n]) \subseteq ToSet(Last(messages).calls)
      BY <1>2, <1>4, <2>1 DEF InFlight
    <3>2. ToSet(wave) \subseteq ToSet(Last(messages).calls)
      BY <1>4, <2>1 DEF InFlight
    <3>3. \A k \in DOMAIN w : w[k].call \in ToSet(Last(messages).calls)
      BY <1>5, <3>2
    <3>4. \A n \in DOMAIN results : results[n].call \in ToSet(Last(messages).calls)
      BY <2>1 DEF InFlight
    <3>5. \A n \in DOMAIN results' : results'[n].call \in ToSet(Last(messages).calls)
      BY <1>6, <1>7, <3>3, <3>4
    <3>6. results' # <<>> /\ messages # <<>> /\ messages' = messages
      BY <1>2, <1>6, <1>7, <2>1 DEF InFlight
    <3>7. QED
      BY <3>1, <3>5, <3>6 DEF InFlight
  <2>3. QED
    BY <1>2, <2>1, <2>2 DEF Conversation
<1>11. QED
  BY <1>9, <1>10 DEF LoopInv

\* The results of a reply become messages.
LEMMA CollectLoopStep ==
  ASSUME LoopInv, Bounded, Collect
  PROVE  LoopInv'
<1>1. /\ pc = "tools" /\ waves = <<>> /\ messages' = Collected.messages \o Correction
      /\ failures' = Collected.failures /\ old' \in {old, ran} /\ results' = <<>>
      /\ iteration' = iteration + 1 /\ pc' = "top"
      /\ UNCHANGED <<waves, steps, aborted, result, ran>>
  BY DEF Collect
<1>2. /\ messages \in Seq(Message) /\ results \in Seq(ResultT) /\ failures \in [Tools -> Nat]
      /\ iteration \in Nat /\ ran \subseteq CallT /\ old \subseteq CallT
  BY DEF LoopInv, LoopTypes, Bounded
<1>3. Shaped(messages) /\ Before(messages, iteration + 1) /\ InFlight
  BY <1>1 DEF LoopInv, Conversation
<1>4. results # <<>>
  BY <1>1, <1>3 DEF InFlight
<1>5. \A k \in DOMAIN results :
        Len(Last(messages).calls) = 1 => results[k].call.id = Last(messages).calls[1].id
  <2>1. SUFFICES ASSUME NEW k \in DOMAIN results, Len(Last(messages).calls) = 1
                 PROVE  results[k].call = Last(messages).calls[1]
    OBVIOUS
  <2>2. results[k].call \in ToSet(Last(messages).calls)
    BY <1>3 DEF InFlight
  <2>3. Last(messages) \in Message
    BY <1>2, <1>3 DEF Last, InFlight
  <2>4. Last(messages).calls \in Seq(CallT)
    BY <2>3 DEF Message
  <2> DEFINE calls == Last(messages).calls
  <2> HIDE DEF calls
  <2>5. DOMAIN calls = 1 .. 1
    BY <2>1, <2>4 DEF calls
  <2>6. ToSet(calls) = {calls[1]}
    BY <2>5 DEF ToSet
  <2>7. QED
    BY <2>2, <2>6 DEF calls
<1> DEFINE g == Collected.messages
<1>6. /\ Collected \in Gathered /\ Shaped(g) /\ Closed(g)
      /\ \E t \in Seq(Message) : g = messages \o t /\ \A k \in DOMAIN t : t[k].calls = <<>>
  BY <1>2, <1>3, <1>4, <1>5, CollectedConversation
<1>7. g \in Seq(Message) /\ Collected.failures \in [Tools -> Nat]
  BY <1>6 DEF Gathered
<1> HIDE DEF g
<1>8. Before(g, iteration + 1)
  <2>1. PICK t \in Seq(Message) : g = messages \o t /\ \A k \in DOMAIN t : t[k].calls = <<>>
    BY <1>6
  <2>2. Before(t, iteration + 1)
    BY <2>1, BeforeNoCalls
  <2>3. Before(messages \o t, iteration + 1)
    BY <1>2, <1>3, <2>2, BeforeConcat
  <2>4. QED
    BY <2>1, <2>3
<1>9. messages' = g \/ messages' = Append(g, Feedback)
  <2>1. messages' = g \o <<>> \/ messages' = g \o <<Feedback>>
    BY <1>1 DEF Correction, g
  <2>2. g \o <<>> = g /\ g \o <<Feedback>> = Append(g, Feedback)
    BY <1>7, FeedbackType
  <2>3. QED
    BY <2>1, <2>2
<1>10. messages' \in Seq(Message) /\ Shaped(messages') /\ Closed(messages') /\ Before(messages', iteration')
  <2>1. CASE messages' = g
    BY <1>1, <1>6, <1>7, <1>8, <2>1
  <2>2. CASE messages' = Append(g, Feedback)
    <3>1. Append(g, Feedback) \in Seq(Message) /\ Shaped(Append(g, Feedback)) /\ Closed(Append(g, Feedback))
      BY <1>6, <1>7, ShapedFeedback
    <3>2. Feedback \in Message /\ CallIds(Feedback) = {}
      BY FeedbackType, NoCalls DEF Feedback, TextMessage
    <3>3. Before(Append(g, Feedback), iteration + 1)
      BY <1>7, <1>8, <3>2, BeforeAppend
    <3>4. QED
      BY <1>1, <2>2, <3>1, <3>3
  <2>3. QED
    BY <1>9, <2>1, <2>2
<1>11. LoopTypes'
  <2>1. results' \in Seq(ResultT) /\ \A k \in DOMAIN results' : FALSE
    BY <1>1
  <2>2. QED
    BY <1>1, <1>2, <1>7, <1>10, <2>1 DEF LoopInv, LoopTypes, Places
<1>12. Conversation'
  BY <1>1, <1>10 DEF Conversation
<1>13. QED
  BY <1>11, <1>12 DEF LoopInv

\* The conversation a turn starts with.
LEMMA LoopInit == Init => LoopInv
<1>1. SUFFICES ASSUME Init PROVE LoopInv
  OBVIOUS
<1>2. PICK h \in Histories : messages = SessionToMessages(h)
  BY <1>1 DEF Init
<1>3. messages \in Seq(Message) /\ \A k \in DOMAIN messages : messages[k].calls = <<>>
  BY <1>2, StoredConversation
<1>4. <<>> \in Seq(Message) /\ Shaped(<<>>) /\ Closed(<<>>)
  BY DEF Shaped, Closed
<1>5. messages \o <<>> = messages
  BY <1>3
<1>6. Shaped(messages) /\ Closed(messages)
  <2>1. Shaped(messages \o <<>>) /\ Closed(messages \o <<>>)
    BY <1>3, <1>4, ShapedBehind
  <2>2. QED
    BY <1>5, <2>1
<1>7. Before(messages, iteration)
  BY <1>3, BeforeNoCalls
<1>8. /\ pc = "top" /\ waves = <<>> /\ results = <<>> /\ steps = {} /\ failures = [t \in Tools |-> 0]
      /\ aborted = FALSE /\ result = NoResult /\ ran = {} /\ old = {}
  BY <1>1 DEF Init
<1>9. LoopTypes
  <2>1. waves \in Seq(Wave(CallT)) /\ results \in Seq(ResultT) /\ \A k \in DOMAIN results : FALSE
    BY <1>8
  <2>2. failures \in [Tools -> Nat]
    BY <1>8
  <2>3. QED
    BY <1>3, <1>8, <2>1, <2>2 DEF LoopTypes, Places, ResultTyped
<1>10. Conversation
  BY <1>6, <1>7, <1>8 DEF Conversation
<1>11. QED
  BY <1>9, <1>10 DEF LoopInv

\* The conversation, step by step.
LEMMA LoopStep == LoopInv /\ Bounded /\ [Next]_vars => LoopInv'
<1>1. SUFFICES ASSUME LoopInv, Bounded, [Next]_vars
               PROVE  LoopInv'
  OBVIOUS
<1>2. CASE UNCHANGED vars
  BY <1>1, <1>2 DEF vars, LoopInv, LoopTypes, Conversation, InFlight
<1>3. CASE Abort
  <2>1. LoopTypes'
    BY <1>1, <1>3 DEF Abort, LoopInv, LoopTypes
  <2>2. Conversation'
    BY <1>1, <1>3 DEF Abort, LoopInv, Conversation, InFlight
  <2>3. QED
    BY <2>1, <2>2 DEF LoopInv
<1>4. CASE OutOfIterations \/ AbortedAtTop \/ OutOfTime
  BY <1>1, <1>4, FinishStep DEF OutOfIterations, AbortedAtTop, OutOfTime, AtTop
<1>5. CASE OverBudget \/ RecoverFails \/ ReplyOverBudget
  BY <1>1, <1>5, ThrowStep DEF OverBudget, RecoverFails, ReplyOverBudget
<1>6. CASE Prepare \/ StartCompaction
  <2>1. /\ pc # "tools" /\ pc' \in Places
        /\ UNCHANGED <<iteration, messages, waves, results, steps, failures, aborted, result, ran, old>>
    BY <1>6 DEF Prepare, StartCompaction, AtTop, Places
  <2>2. aborted' \in BOOLEAN /\ ResultTyped(result)'
    BY <1>1, <2>1 DEF LoopInv, LoopTypes
  <2>3. QED
    BY <1>1, <2>1, <2>2, QuietStep
<1>7. CASE Compact
  BY <1>1, <1>7, CompactedStep DEF Compact, Places
<1>8. CASE Recover
  BY <1>1, <1>8, CompactedStep DEF Recover, Places
<1>9. CASE (CompactFails \/ AskFails) \/ (Fail /\ (Ask \/ RateLimited \/ Overloaded \/ AuthRejected))
  <2>1. pc # "tools" /\ Fail
    BY <1>9 DEF CompactFails, AskFails, Ask, RateLimited, Overloaded, AuthRejected
  <2>2. QED
    BY <1>1, <2>1, FailStep
<1>10. CASE (Ask \/ RateLimited \/ Overloaded \/ AuthRejected) /\ ~ Fail
  <2>1. /\ pc # "tools" /\ pc' \in Places
        /\ UNCHANGED <<iteration, messages, waves, results, steps, failures, aborted, result, ran, old>>
    BY <1>10 DEF Ask, RateLimited, Overloaded, AuthRejected, Retry, Places
  <2>2. aborted' \in BOOLEAN /\ ResultTyped(result)'
    BY <1>1, <2>1 DEF LoopInv, LoopTypes
  <2>3. QED
    BY <1>1, <2>1, <2>2, QuietStep
<1>11. CASE Overflows
  <2>1. CASE Throw
    BY <1>1, <1>11, <2>1, ThrowStep DEF Overflows
  <2>2. CASE ~ Throw
    <3>1. /\ pc # "tools" /\ pc' \in Places
          /\ UNCHANGED <<iteration, messages, waves, results, steps, failures, aborted, result, ran, old>>
      BY <1>11, <2>2 DEF Overflows, Places
    <3>2. aborted' \in BOOLEAN /\ ResultTyped(result)'
      BY <1>1, <3>1 DEF LoopInv, LoopTypes
    <3>3. QED
      BY <1>1, <3>1, <3>2, QuietStep
  <2>3. QED
    BY <2>1, <2>2
<1>12. CASE RepliedMalformed
  BY <1>1, <1>12, CorrectStep DEF RepliedMalformed
<1>13. CASE RepliedText
  <2>1. pc # "tools" /\ (Correct \/ Finish("completed", FALSE))
    BY <1>13 DEF RepliedText
  <2>2. QED
    BY <1>1, <2>1, CorrectStep, FinishStep
<1>14. CASE \E acts \in Replies : RepliedCalls(acts)
  BY <1>1, <1>14, RepliedCallsStep
<1>15. CASE RunWave
  BY <1>1, <1>15, RunWaveStep
<1>16. CASE Collect
  BY <1>1, <1>16, CollectLoopStep
<1>17. QED
  BY <1>1, <1>2, <1>3, <1>4, <1>5, <1>6, <1>7, <1>8, <1>9, <1>10, <1>11, <1>12,
     <1>13, <1>14, <1>15, <1>16 DEF Next, Step

-----------------------------------------------------------------------------
(* What a result reports.                                                  *)

\* The executed calls and those of the waves are reported as steps.
Reported ==
  /\ ran \subseteq steps
  /\ pc = "tools" => \A n \in DOMAIN waves : ToSet(waves[n]) \subseteq steps
  /\ pc = "done" => ran \subseteq result.steps

\* A result that is returned reports the steps.
LEMMA FinishReports ==
  ASSUME Reported, NEW reason, NEW error, Finish(reason, error)
  PROVE  Reported'
  BY DEF Reported, Finish

\* So does one after an error or an abort.
LEMMA FailReports ==
  ASSUME Reported, Fail
  PROVE  Reported'
  BY FinishReports DEF Fail

\* Steps are added before their calls run, and no step is forgotten.
LEMMA ReportedStep == Reported /\ LoopInv /\ Bounded /\ [Next]_vars => Reported'
<1>1. SUFFICES ASSUME Reported, LoopInv, Bounded, [Next]_vars
               PROVE  Reported'
  OBVIOUS
<1>2. CASE UNCHANGED vars
  BY <1>1, <1>2 DEF vars, Reported
<1>3. CASE Abort
  BY <1>1, <1>3 DEF Abort, Reported
<1>4. CASE OutOfIterations \/ AbortedAtTop \/ OutOfTime
  BY <1>1, <1>4, FinishReports DEF OutOfIterations, AbortedAtTop, OutOfTime
<1>5. CASE OverBudget \/ RecoverFails \/ ReplyOverBudget
  BY <1>1, <1>5 DEF OverBudget, RecoverFails, ReplyOverBudget, Throw, Reported
<1>6. CASE Prepare \/ StartCompaction \/ Compact \/ Recover
  BY <1>1, <1>6 DEF Prepare, StartCompaction, Compact, Recover, Reported
<1>7. CASE Fail
  BY <1>1, <1>7, FailReports
<1>8. CASE (CompactFails \/ AskFails \/ Ask \/ RateLimited \/ Overloaded \/ AuthRejected) /\ ~ Fail
  BY <1>1, <1>8 DEF CompactFails, AskFails, Ask, RateLimited, Overloaded, AuthRejected, Retry, Reported
<1>9. CASE Overflows
  BY <1>1, <1>9 DEF Overflows, Throw, Reported
<1>10. CASE RepliedMalformed \/ RepliedText
  <2>1. Correct \/ Finish("completed", FALSE)
    BY <1>10 DEF RepliedMalformed, RepliedText
  <2>2. CASE Correct
    BY <1>1, <2>2 DEF Correct, Reported
  <2>3. QED
    BY <1>1, <2>1, <2>2, FinishReports
<1>11. CASE \E acts \in Replies : RepliedCalls(acts)
  <2>1. PICK acts \in Replies : RepliedCalls(acts)
    BY <1>11
  <2> DEFINE calls == [k \in DOMAIN acts |-> [id |-> <<iteration, k>>, act |-> acts[k]]]
  <2>2. /\ steps' = steps \cup ToSet(calls) /\ waves' = PlanToolExecutionWaves(calls) /\ pc' = "tools"
        /\ ran' = ran
    BY <2>1 DEF RepliedCalls
  <2>3. calls \in Seq(CallT) /\ calls # <<>>
    BY <1>1, RepliedMessage DEF Bounded
  <2> HIDE DEF calls
  <2>4. \A n \in DOMAIN waves' : ToSet(waves'[n]) \subseteq ToSet(calls)
    BY <2>2, <2>3, Planned
  <2>5. QED
    BY <1>1, <2>2, <2>4 DEF Reported
<1>12. CASE RunWave
  <2>1. /\ pc = "tools" /\ waves # <<>> /\ waves' = Tail(waves) /\ pc' = pc /\ steps' = steps
        /\ ran' \subseteq ran \cup ToSet(Head(waves))
    BY <1>12 DEF RunWave
  <2>2. waves \in Seq(Wave(CallT))
    BY <1>1 DEF LoopInv, LoopTypes
  <2>3. /\ 1 \in DOMAIN waves /\ Head(waves) = waves[1]
        /\ \A n \in DOMAIN Tail(waves) : n + 1 \in DOMAIN waves /\ Tail(waves)[n] = waves[n + 1]
    BY <2>1, <2>2
  <2>4. QED
    BY <1>1, <2>1, <2>3 DEF Reported
<1>13. CASE Collect
  BY <1>1, <1>13 DEF Collect, Reported
<1>14. QED
  BY <1>1, <1>2, <1>3, <1>4, <1>5, <1>6, <1>7, <1>8, <1>9, <1>10, <1>11, <1>12, <1>13 DEF Next, Step

-----------------------------------------------------------------------------
(* The stall guard.                                                        *)

\* The calls executed since the last user message.
RecentRuns(a) == {c \in ran \ old : c.act = a}

\* The calls executed since the last user message are there to be counted, and
\* at most two of them are identical.
Stall ==
  /\ \A c \in ran \ old : Since(messages, c)
  /\ \A a \in Acts : IsFiniteSet(RecentRuns(a)) /\ Cardinality(RecentRuns(a)) <= 2

\* A user message forgets them.
LEMMA ForgetStall ==
  ASSUME ran \subseteq CallT, UNCHANGED ran, old' = ran
  PROVE  Stall'
<1>1. ran' \ old' = {} /\ \A a \in Acts : RecentRuns(a)' = {}
  BY DEF RecentRuns
<1>2. IsFiniteSet({}) /\ Cardinality({}) = 0
  BY FS_EmptySet
<1>3. QED
  BY <1>1, <1>2 DEF Stall

\* Messages that leave the executed calls behind the last user message.
LEMMA KeepStall ==
  ASSUME Stall, UNCHANGED <<ran, old>>, \A c \in ran \ old : Since(messages, c) => Since(messages', c)
  PROVE  Stall'
  BY DEF Stall, RecentRuns

\* The count of identical calls is a number.
LEMMA IdenticalType ==
  ASSUME messages \in Seq(Message), NEW act
  PROVE  IdenticalCalls(act) \in Nat
<1>1. PICK p : IdenticalRun(act, p)
  BY IdenticalUnfold, Zenon
<1>2. p \in [0 .. Len(messages) -> Nat] /\ IdenticalCalls(act) = p[Len(messages)]
      /\ Len(messages) \in 0 .. Len(messages)
  BY <1>1 DEF IdenticalRun
<1>3. QED
  BY <1>2

\* A call that runs was asked for behind the last user message; if it were the
\* third of its kind, its count would be three and the guard would block it.
LEMMA RunWaveStall ==
  ASSUME Stall, LoopInv, RunWave
  PROVE  Stall'
<1> DEFINE wave == Head(waves)
<1>1. /\ pc = "tools" /\ waves # <<>> /\ ran' = ran \cup {c \in ToSet(wave) : ~ Stalled(c.act)}
      /\ old' = old /\ messages' = messages
  BY DEF RunWave
<1>2. /\ messages \in Seq(Message) /\ waves \in Seq(Wave(CallT)) /\ ran \subseteq CallT
      /\ Shaped(messages) /\ InFlight
  BY <1>1 DEF LoopInv, LoopTypes, Conversation
<1>3. wave \in Wave(CallT) /\ 1 \in DOMAIN waves /\ waves[1] = wave
  BY <1>1, <1>2
<1> HIDE DEF wave
<1>4. ASSUME NEW c \in ToSet(wave)
      PROVE  c \in CallT /\ Since(messages, c)
  <2>1. wave \in Seq(CallT)
    BY <1>3 DEF Wave
  <2>2. c \in ToSet(Last(messages).calls) /\ messages # <<>>
    BY <1>2, <1>3 DEF InFlight
  <2> DEFINE L == Len(messages)
  <2>3. L \in DOMAIN messages /\ Last(messages) = messages[L] /\ \A j \in DOMAIN messages : j >= L => j = L
    BY <1>2, <2>2 DEF Last
  <2> HIDE DEF L
  <2>4. messages[L].calls # <<>>
    BY <2>2, <2>3 DEF ToSet
  <2>5. messages[L].role # "user"
    BY <1>2, <2>3, <2>4 DEF Shaped
  <2>6. Since(messages, c)
    BY <2>2, <2>3, <2>5 DEF Since
  <2>7. QED
    BY <2>1, <2>6 DEF ToSet
<1>5. \A c \in ran' \ old' : c \in CallT /\ Since(messages, c)
  BY <1>1, <1>2, <1>4 DEF Stall
<1>6. ASSUME NEW a \in Acts
      PROVE  IsFiniteSet(RecentRuns(a)') /\ Cardinality(RecentRuns(a)') <= 2
  <2>1. CASE Stalled(a)
    <3>1. RecentRuns(a)' = RecentRuns(a)
      BY <1>1, <2>1 DEF RecentRuns
    <3>2. QED
      BY <3>1 DEF Stall
  <2>2. CASE ~ Stalled(a)
    <3> DEFINE C == {c \in CallT : Since(messages, c) /\ c.act = a}
    <3>1. IsFiniteSet(C) /\ Cardinality(C) <= IdenticalCalls(a)
      BY <1>2, IdenticalCounted
    <3>2. IdenticalCalls(a) \in Nat /\ ~ (IdenticalCalls(a) >= 3)
      BY <1>2, <2>2, IdenticalType DEF Stalled
    <3>3. RecentRuns(a)' \subseteq C
      BY <1>5 DEF RecentRuns
    <3> HIDE DEF C
    <3> DEFINE R == RecentRuns(a)'
    <3>4. IsFiniteSet(R) /\ Cardinality(R) <= Cardinality(C)
      <4> HIDE DEF R
      <4>1. R \in SUBSET C
        BY <3>3 DEF R
      <4>2. QED
        BY <3>1, <4>1, FS_Subset
    <3>5. Cardinality(C) \in Nat /\ Cardinality(R) \in Nat
      <4> HIDE DEF R
      <4>1. QED
        BY <3>1, <3>4, FS_CardinalityType
    <3> HIDE DEF R
    <3>6. Cardinality(R) <= 2
      BY <3>1, <3>2, <3>4, <3>5
    <3>7. QED
      BY <3>4, <3>6 DEF R
  <2>3. QED
    BY <2>1, <2>2
<1>7. QED
  BY <1>1, <1>5, <1>6 DEF Stall

\* Results keep the calls countable; an alert starts the count again.
LEMMA CollectStall ==
  ASSUME Stall, LoopInv, Collect
  PROVE  Stall'
<1> DEFINE t == [k \in DOMAIN results |-> ToolMessage(results[k])]
<1>1. ran' = ran /\ old' = IF messages' = messages \o t THEN old ELSE ran
  BY DEF Collect
<1>2. messages \in Seq(Message) /\ results \in Seq(ResultT) /\ ran \subseteq CallT
  BY DEF LoopInv, LoopTypes
<1>3. t \in Seq(Message) /\ \A k \in DOMAIN t : t[k].role # "user"
  <2>1. \A k \in DOMAIN results : ToolMessage(results[k]) \in Message /\ ToolMessage(results[k]).role # "user"
    BY <1>2, ToolMessageType DEF ToolMessage
  <2>2. QED
    BY <1>2, <2>1
<1> HIDE DEF t
<1>4. CASE messages' = messages \o t
  BY <1>1, <1>2, <1>3, <1>4, SinceConcat, KeepStall
<1>5. CASE messages' # messages \o t
  BY <1>1, <1>2, <1>5, ForgetStall
<1>6. QED
  BY <1>4, <1>5

\* The stall guard, step by step.
LEMMA StallStep == Stall /\ LoopInv /\ Bounded /\ [Next]_vars => Stall'
<1>1. SUFFICES ASSUME Stall, LoopInv, Bounded, [Next]_vars
               PROVE  Stall'
  OBVIOUS
<1>2. messages \in Seq(Message) /\ ran \subseteq CallT /\ iteration \in Nat /\ Shaped(messages)
  BY <1>1 DEF LoopInv, LoopTypes, Conversation, Bounded
<1>3. CASE UNCHANGED <<messages, ran, old>>
  BY <1>1, <1>3, KeepStall
<1>4. CASE Compact \/ Recover
  <2>1. UNCHANGED <<ran, old>> /\ (messages' = messages \/ \E h \in Histories : messages' = Rebuilt(h))
    BY <1>4 DEF Compact, Recover
  <2>2. \A c : Since(messages, c) => Since(messages', c)
    BY <1>2, <2>1, SinceRebuilt
  <2>3. QED
    BY <1>1, <2>1, <2>2, KeepStall
<1>5. CASE Correct
  BY <1>2, <1>5, ForgetStall DEF Correct
<1>6. CASE \E acts \in Replies : RepliedCalls(acts)
  <2>1. PICK acts \in Replies : RepliedCalls(acts)
    BY <1>6
  <2> DEFINE calls == [k \in DOMAIN acts |-> [id |-> <<iteration, k>>, act |-> acts[k]]]
             m == CallMessage(calls)
  <2>2. messages' = Append(messages, m) /\ UNCHANGED <<ran, old>>
    BY <2>1 DEF RepliedCalls
  <2>3. m \in Message /\ m.role = "assistant"
    BY <1>2, RepliedMessage
  <2> HIDE DEF m, calls
  <2>4. messages' = messages \o <<m>> /\ <<m>> \in Seq(Message)
        /\ \A k \in DOMAIN <<m>> : <<m>>[k].role # "user"
    BY <1>2, <2>2, <2>3
  <2>5. \A c : Since(messages, c) => Since(messages \o <<m>>, c)
    BY <1>2, <2>4, SinceConcat
  <2>6. QED
    BY <1>1, <2>2, <2>4, <2>5, KeepStall
<1>7. CASE RunWave
  BY <1>1, <1>7, RunWaveStall
<1>8. CASE Collect
  BY <1>1, <1>8, CollectStall
<1>9. CASE UNCHANGED vars \/ Abort \/ OutOfIterations \/ OverBudget \/ AbortedAtTop \/ OutOfTime
           \/ Prepare \/ StartCompaction
  BY <1>3, <1>9 DEF vars, Abort, OutOfIterations, OverBudget, AbortedAtTop, OutOfTime,
                    Prepare, StartCompaction, Finish, Throw
<1>10. CASE CompactFails \/ Ask \/ RateLimited \/ Overloaded \/ AuthRejected \/ AskFails
            \/ Overflows \/ RecoverFails \/ ReplyOverBudget
  BY <1>3, <1>10 DEF CompactFails, Ask, RateLimited, Overloaded, AuthRejected, AskFails,
                     Overflows, RecoverFails, ReplyOverBudget, Fail, Finish, Throw, Retry
<1>11. CASE RepliedMalformed \/ RepliedText
  BY <1>3, <1>5, <1>11 DEF RepliedMalformed, RepliedText, Finish
<1>12. QED
  BY <1>1, <1>4, <1>6, <1>7, <1>8, <1>9, <1>10, <1>11 DEF Next, Step

-----------------------------------------------------------------------------
(* The theorems.                                                           *)

\* Everything that holds of the loop.
Invariant == Bounded /\ LoopInv /\ Reported /\ Stall

\* The invariant of the loop, from which the four properties follow.
THEOREM LoopInvariant == Spec => []Invariant
<1>1. Init => Invariant
  <2>1. SUFFICES ASSUME Init PROVE Invariant
    OBVIOUS
  <2>2. ran = {} /\ old = {} /\ pc = "top"
    BY <2>1 DEF Init
  <2>3. Reported
    BY <2>2 DEF Reported
  <2>4. Stall
    BY <2>2, FS_EmptySet DEF Stall, RecentRuns
  <2>5. QED
    BY <2>1, <2>3, <2>4, BoundedInit, LoopInit DEF Invariant
<1>2. Invariant /\ [Next]_vars => Invariant'
  BY BoundedStep, LoopStep, ReportedStep, StallStep DEF Invariant
<1>3. QED
  BY <1>1, <1>2, PTL DEF Spec

\* A turn that ends with a result, an aborted or a failed one too, reports
\* every call that was executed.
THEOREM EffectsAlwaysReported == Spec => []EffectsReported
<1>1. Invariant => EffectsReported
  BY DEF Invariant, Reported, EffectsReported
<1>2. QED
  BY <1>1, LoopInvariant, PTL

\* No tool is executed a third time with the same input before the model gets
\* a user message, whatever the compactions make of the conversation.
THEOREM StallAlwaysBounded == Spec => []StallBounded
<1>1. Invariant => StallBounded
  BY DEF Invariant, Stall, RecentRuns, StallBounded
<1>2. QED
  BY <1>1, LoopInvariant, PTL

\* Calls that run at the same time do not write where another one works.
THEOREM WavesNeverOverlap == Spec => []NoOverlapInWave
<1>1. Invariant => NoOverlapInWave
  <2>1. SUFFICES ASSUME LoopTypes PROVE NoOverlapInWave
    BY DEF Invariant, LoopInv
  <2>2. \A n \in DOMAIN waves : Clear(waves[n])
    <3>1. TAKE n \in DOMAIN waves
    <3>2. waves[n] \in Wave(CallT)
      BY <2>1 DEF LoopTypes
    <3>3. QED
      BY <3>2, Zenon DEF Wave
  <2>3. QED
    BY <2>2, Zenon DEF Clear, NoOverlapInWave
<1>2. QED
  BY <1>1, LoopInvariant, PTL

\* The variables have their types.
LEMMA LoopTyped == Invariant => TypeOK
<1>1. SUFFICES ASSUME Bounded, LoopTypes PROVE TypeOK
  BY DEF Invariant, LoopInv
<1>2. \A c \in CallT : Call(c)
  <2>1. TAKE c \in CallT
  <2>2. c.id \in Nat \X Nat /\ c.act \in Acts
    BY DEF CallT
  <2>3. Len(c.id) = 2
    BY <2>2
  <2>4. QED
    BY <2>2, <2>3 DEF Call
<1>3. ASSUME NEW k \in DOMAIN messages
      PROVE  /\ messages[k].role \in {"user", "assistant", "tool"}
             /\ \A n \in DOMAIN messages[k].calls : Call(messages[k].calls[n])
  <2>1. messages[k] \in Message
    BY <1>1 DEF LoopTypes
  <2>2. messages[k].role \in {"user", "assistant", "tool"} /\ messages[k].calls \in Seq(CallT)
    BY <2>1 DEF Message
  <2>3. QED
    BY <1>2, <2>2
<1>4. ASSUME NEW w \in ToSet(waves)
      PROVE  w # <<>> /\ \A c \in ToSet(w) : Call(c)
  <2>1. w \in Wave(CallT)
    BY <1>1 DEF LoopTypes, ToSet
  <2>2. w \in Seq(CallT) /\ w # <<>>
    BY <2>1, Zenon DEF Wave
  <2>3. QED
    BY <1>2, <2>2 DEF ToSet
<1>5. ASSUME NEW r \in ToSet(results)
      PROVE  Call(r.call) /\ r.outcome \in OutcomesOf(r.call.act)
  <2>1. r \in ResultT /\ r.outcome \in OutcomesOf(r.call.act)
    BY <1>1 DEF LoopTypes, ToSet
  <2>2. r.call \in CallT
    BY <2>1 DEF ResultT
  <2>3. QED
    BY <1>2, <2>1, <2>2
<1>6. \A c \in steps \cup ran \cup old : Call(c)
  BY <1>1, <1>2 DEF LoopTypes
<1>7. QED
  BY <1>1, <1>3, <1>4, <1>5, <1>6 DEF TypeOK, LoopTypes, Bounded, Places, ResultTyped

\* Every request is well paired and shows the result of each lone call, with
\* any number of calls, waves, alerts, corrections and compactions.
THEOREM RequestsAlwaysFaithful == Spec => []RequestsFaithful
<1>1. Invariant => RequestsFaithful
  <2>1. SUFFICES ASSUME Invariant PROVE RequestsFaithful
    OBVIOUS
  <2>2. ASSUME pc = "asking"
        PROVE  /\ WellPaired(Request(messages))
               /\ \A k \in DOMAIN messages :
                    Len(messages[k].calls) = 1 => messages[k].calls[1].id \in Shown(Request(messages))
    <3>1. messages \in Seq(Message) /\ Shaped(messages) /\ Closed(messages)
      BY <2>1, <2>2 DEF Invariant, LoopInv, LoopTypes, Conversation
    <3>2. QED
      BY <3>1, RequestSound
  <2>3. QED
    BY <2>1, <2>2, LoopTyped DEF RequestsFaithful, RequestsPaired, LoneResultsShown
<1>2. QED
  BY <1>1, LoopInvariant, PTL
=============================================================================
