------------------------ MODULE TelegramPoller_proofs ------------------------
(***************************************************************************)
(* Proofs about TelegramPoller for any number of updates, pollers, reloads *)
(* and crashes: types, that no update is lost, overtaken or repeated by a  *)
(* poller, and that one poller at most is live.                            *)
(***************************************************************************)
EXTENDS TelegramPoller, TLAPS

States == {"off", "idle", "asking", "batch", "handling"}
Batching(w) == pc[w] \in {"batch", "handling"}
Settled(u) == handled[u] > 0 /\ rows[u] = "processed"

\* A poller in a batch is at one of its updates.
BatchInv == \A w \in Pollers : Batching(w) => 1 <= cur[w] /\ cur[w] <= last[w]

\* All that lies below what Telegram, or a poller, has passed is settled.
SettledInv ==
  /\ \A u \in 1 .. confirmed : Settled(u)
  /\ \A w \in Pollers : \A u \in 1 .. offset[w] - 1 : Settled(u)
  /\ \A w \in Pollers : Batching(w) => \A u \in 1 .. cur[w] - 1 : Settled(u)

\* A poller never goes back behind its own offset.
ForwardInv ==
  \A w \in Pollers :
    /\ \A u \in done[w] : u < offset[w]
    /\ pc[w] = "asking" => offset[w] <= confirmed + 1
    /\ Batching(w) => offset[w] <= cur[w]

USE BoundsAssumption, KindsAssumption, NoneAssumption DEF Updates, AllKinds

-----------------------------------------------------------------------------
(* Types.                                                                  *)

\* The initial state has its types.
LEMMA TypeInit == Init => TypeOK /\ BatchInv
<1> SUFFICES ASSUME Init PROVE TypeOK /\ BatchInv
  OBVIOUS
<1>1. /\ pc = [w \in Pollers |-> "off"] /\ offset = [w \in Pollers |-> 0]
      /\ stopped = [w \in Pollers |-> FALSE] /\ cur = [w \in Pollers |-> 0]
      /\ last = [w \in Pollers |-> 0] /\ done = [w \in Pollers |-> {}]
      /\ doing = [w \in Pollers |-> "text"]
  BY DEF Init, Each
<1>2. /\ sent \in 0 .. MaxUpdates /\ confirmed \in 0 .. sent
      /\ reloads \in 0 .. MaxReloads /\ crashes \in 0 .. MaxCrashes
  BY DEF Init
<1>3. /\ kind \in [Updates -> AllKinds] /\ handled \in [Updates -> 0 .. 2]
      /\ rows \in [Updates -> {"none", "stored", "processed"}]
  BY DEF Init
<1>4. /\ active \in Pollers \cup {None} /\ input \in BOOLEAN /\ enabled \in BOOLEAN
      /\ phase \in {"up", "restarting", "down"}
  BY DEF Init
<1>5. sent = 0
  BY DEF Init
<1> QED BY <1>1, <1>2, <1>3, <1>4, <1>5 DEF TypeOK, BatchInv, Batching

\* Stopping or starting pollers keeps the types and puts none into a batch.
LEMMA ReloadTypes ==
  ASSUME TypeOK, NEW at \in [Pollers -> States], NEW on \in BOOLEAN,
         StopChannels(at) \/ ReloadChannels(at, on)
  PROVE  /\ pc' \in [Pollers -> States]
         /\ stopped' \in [Pollers -> BOOLEAN]
         /\ active' \in Pollers \cup {None}
         /\ \A w \in Pollers : pc'[w] # "idle" => pc'[w] = at[w]
<1> USE DEF Batching, States
<1>0. stopped \in [Pollers -> BOOLEAN] /\ active \in Pollers \cup {None}
  BY DEF TypeOK
<1>1. CASE StopChannels(at)
  BY <1>0, <1>1 DEF StopChannels
<1>2. ASSUME NEW n \in Pollers, pc' = [at EXCEPT ![n] = "idle"],
             stopped' = [w \in Pollers |-> w # n /\ (stopped[w] \/ w = active)],
             active' = n
      PROVE  /\ pc' \in [Pollers -> States]
             /\ stopped' \in [Pollers -> BOOLEAN]
             /\ active' \in Pollers \cup {None}
             /\ \A w \in Pollers : pc'[w] # "idle" => pc'[w] = at[w]
  BY <1>2
<1> QED BY <1>1, <1>2 DEF ReloadChannels

\* Every step keeps the types, and the pollers at updates of their batches.
LEMMA TypeNext == TypeOK /\ BatchInv /\ [Next]_vars => TypeOK' /\ BatchInv'
<1> SUFFICES ASSUME TypeOK, BatchInv, [Next]_vars PROVE TypeOK' /\ BatchInv'
  OBVIOUS
<1>0. pc \in [Pollers -> States]
  BY DEF TypeOK, States
<1>1. ASSUME NEW k \in Kinds, Send(k) PROVE TypeOK' /\ BatchInv'
  BY <1>1 DEF Send, TypeOK, BatchInv, Batching, loops, bounds
<1>2. ASSUME NEW w \in Pollers, Loop(w) PROVE TypeOK' /\ BatchInv'
  <2>1. CASE Poll(w)
    BY <2>1 DEF Poll, TypeOK, BatchInv, Batching, bounds
  <2>2. CASE Answer(w)
    BY <2>2 DEF Answer, TypeOK, BatchInv, Batching, telegram, bounds
  <2>3. CASE NoAnswer(w)
    BY <2>3 DEF NoAnswer, TypeOK, BatchInv, Batching, telegram, bounds
  <2>4. CASE Rejected(w)
    <3> DEFINE at == [pc EXCEPT ![w] = "idle"]
    <3>1. at \in [Pollers -> States] /\ StopChannels(at)
      BY <1>0, <2>4 DEF Rejected, States, StopChannels
    <3>2. \A v \in Pollers : at[v] \in {"batch", "handling"} => at[v] = pc[v]
      BY <1>0
    <3> HIDE DEF at
    <3>3. /\ pc' \in [Pollers -> States]
          /\ stopped' \in [Pollers -> BOOLEAN]
          /\ active' \in Pollers \cup {None}
          /\ \A v \in Pollers : pc'[v] # "idle" => pc'[v] = at[v]
      BY <3>1, ReloadTypes
    <3>4. UNCHANGED <<telegram, offset, cur, last, done, doing, input, enabled, phase,
                      rows, handled, bounds>>
      BY <2>4 DEF Rejected
    <3>5. BatchInv'
      BY <3>2, <3>3, <3>4 DEF BatchInv, Batching
    <3> QED BY <3>3, <3>4, <3>5 DEF TypeOK, telegram, bounds, States
  <2>5. CASE Leave(w)
    BY <2>5 DEF Leave, TypeOK, BatchInv, Batching, telegram, bounds
  <2>6. CASE Begin(w)
    <3>1. cur[w] \in Updates
      BY <2>6 DEF Begin, TypeOK, BatchInv, Batching
    <3>2. /\ pc' = [pc EXCEPT ![w] = "handling"] /\ pc[w] = "batch"
          /\ rows' = [rows EXCEPT ![cur[w]] = IF @ = "none" THEN "stored" ELSE @]
          /\ UNCHANGED <<telegram, offset, stopped, cur, last, done, active, phase, handled, bounds>>
      BY <2>6 DEF Begin
    <3>3. input' \in BOOLEAN /\ enabled' \in BOOLEAN
      BY <2>6 DEF Begin, TypeOK
    <3>4. doing' \in [Pollers -> AllKinds \cup {"reply"}]
      BY <2>6, <3>1 DEF Begin, TypeOK
    <3>5. rows' \in [Updates -> {"none", "stored", "processed"}]
      BY <3>1, <3>2 DEF TypeOK
    <3>6. BatchInv'
      BY <3>2 DEF BatchInv, Batching, TypeOK
    <3> QED BY <1>0, <3>2, <3>3, <3>4, <3>5, <3>6 DEF TypeOK, telegram, bounds
  <2>7. CASE Finish(w)
    <3>1. cur[w] \in Updates /\ cur[w] <= last[w] /\ last[w] <= sent
      BY <2>7 DEF Finish, TypeOK, BatchInv, Batching
    <3>2. After(w) \in [Pollers -> States]
      BY <1>0 DEF After, States
    <3>3. /\ pc' \in [Pollers -> States]
          /\ stopped' \in [Pollers -> BOOLEAN]
          /\ active' \in Pollers \cup {None}
          /\ \A v \in Pollers : pc'[v] # "idle" => pc'[v] = After(w)[v]
      <4>0. enabled \in BOOLEAN
        BY DEF TypeOK
      <4>1. \/ StopChannels(After(w)) \/ ReloadChannels(After(w), enabled)
            \/ pc' = After(w) /\ UNCHANGED <<stopped, active>>
        BY <2>7 DEF Finish, ScheduleRestart
      <4>2. CASE pc' = After(w) /\ UNCHANGED <<stopped, active>>
        BY <3>2, <4>2 DEF TypeOK
      <4> QED BY <3>2, <4>0, <4>1, <4>2, ReloadTypes
    <3>4. phase' \in {"up", "restarting", "down"}
      BY <2>7 DEF Finish, ScheduleRestart, TypeOK
    <3>5. /\ rows' = [rows EXCEPT ![cur[w]] = "processed"]
          /\ handled' = [handled EXCEPT ![cur[w]] = IF @ < 2 THEN @ + 1 ELSE @]
          /\ done' = [done EXCEPT ![w] = @ \cup {cur[w]}]
          /\ offset' = [offset EXCEPT ![w] = cur[w] + 1]
          /\ cur' = [cur EXCEPT ![w] = IF cur[w] < last[w] THEN cur[w] + 1 ELSE 0]
          /\ last' = [last EXCEPT ![w] = IF cur[w] < last[w] THEN @ ELSE 0]
          /\ UNCHANGED <<telegram, doing, input, enabled, bounds>>
      BY <2>7 DEF Finish, Advance
    <3>6. /\ rows' \in [Updates -> {"none", "stored", "processed"}]
          /\ handled' \in [Updates -> 0 .. 2]
          /\ done' \in [Pollers -> SUBSET Updates]
      BY <3>1, <3>5 DEF TypeOK
    <3>7. /\ offset' \in [Pollers -> 0 .. sent + 1]
          /\ cur' \in [Pollers -> 0 .. sent + 1] /\ last' \in [Pollers -> 0 .. sent]
      BY <3>1, <3>5 DEF TypeOK
    <3>8. BatchInv'
      <4> SUFFICES ASSUME NEW v \in Pollers, Batching(v)'
                   PROVE  1 <= cur'[v] /\ cur'[v] <= last'[v]
        BY DEF BatchInv
      <4>1. pc'[v] = After(w)[v]
        BY <3>3 DEF Batching
      <4>2. CASE v = w
        BY <1>0, <3>1, <3>5, <4>1, <4>2 DEF After, Batching, TypeOK
      <4>3. CASE v # w
        BY <1>0, <3>5, <4>1, <4>3 DEF After, Batching, BatchInv, TypeOK
      <4> QED BY <4>2, <4>3
    <3> QED BY <3>3, <3>4, <3>5, <3>6, <3>7, <3>8 DEF TypeOK, telegram, bounds, States
  <2>8. CASE Throw(w)
    <3> DEFINE at == [pc EXCEPT ![w] = "idle"]
    <3>1. /\ pc' \in [Pollers -> States]
          /\ stopped' \in [Pollers -> BOOLEAN]
          /\ active' \in Pollers \cup {None}
          /\ \A v \in Pollers : pc'[v] # "idle" => pc'[v] = at[v]
      <4>1. at \in [Pollers -> States]
        BY <1>0 DEF States
      <4>2. StopChannels(at) \/ (pc' = at /\ UNCHANGED <<stopped, active>>)
        BY <2>8 DEF Throw
      <4> HIDE DEF at
      <4>3. CASE pc' = at /\ UNCHANGED <<stopped, active>>
        BY <4>1, <4>3 DEF TypeOK
      <4> QED BY <4>1, <4>2, <4>3, ReloadTypes
    <3>2. /\ cur' = [cur EXCEPT ![w] = 0] /\ last' = [last EXCEPT ![w] = 0]
          /\ UNCHANGED <<telegram, offset, done, doing, input, enabled, phase, rows, handled, bounds>>
      BY <2>8 DEF Throw
    <3>3. BatchInv'
      BY <1>0, <3>1, <3>2 DEF BatchInv, Batching, TypeOK
    <3> HIDE DEF at
    <3> QED BY <3>1, <3>2, <3>3 DEF TypeOK, telegram, bounds, States
  <2> QED BY <1>2, <2>1, <2>2, <2>3, <2>4, <2>5, <2>6, <2>7, <2>8 DEF Loop
<1>3. ASSUME NEW on \in BOOLEAN, ReloadChannels(pc, on), enabled' \in BOOLEAN,
             phase' \in {"up", "restarting", "down"}, reloads' \in 0 .. MaxReloads,
             UNCHANGED <<telegram, offset, cur, last, done, doing, input, rows, handled, crashes>>
      PROVE  TypeOK' /\ BatchInv'
  <2>1. /\ pc' \in [Pollers -> States]
        /\ stopped' \in [Pollers -> BOOLEAN]
        /\ active' \in Pollers \cup {None}
        /\ \A v \in Pollers : pc'[v] # "idle" => pc'[v] = pc[v]
    BY <1>0, <1>3, ReloadTypes
  <2>2. BatchInv'
    BY <1>3, <2>1 DEF BatchInv, Batching
  <2> QED BY <1>3, <2>1, <2>2 DEF TypeOK, telegram, States
<1>4. ASSUME NEW on \in BOOLEAN, Configure(on) PROVE TypeOK' /\ BatchInv'
  <2>1. reloads' \in 0 .. MaxReloads /\ phase' \in {"up", "restarting", "down"}
    BY <1>4 DEF Configure, TypeOK
  <2> QED BY <1>3, <1>4, <2>1 DEF Configure
<1>5. CASE Boot
  <2>1. enabled \in BOOLEAN /\ reloads \in 0 .. MaxReloads
    BY DEF TypeOK
  <2> QED BY <1>3, <1>5, <2>1 DEF Boot, bounds
<1>6. ASSUME Exits, UNCHANGED <<telegram, enabled, rows, handled, reloads>>,
             crashes' \in 0 .. MaxCrashes
      PROVE  TypeOK' /\ BatchInv'
  <2>1. /\ pc' = [w \in Pollers |-> "off"] /\ offset' = [w \in Pollers |-> 0]
        /\ stopped' = [w \in Pollers |-> FALSE] /\ cur' = [w \in Pollers |-> 0]
        /\ last' = [w \in Pollers |-> 0] /\ done' = [w \in Pollers |-> {}]
        /\ doing' = [w \in Pollers |-> "text"]
        /\ active' = None /\ input' = FALSE /\ phase' = "down"
    BY <1>6 DEF Exits, Each
  <2>2. /\ sent' \in 0 .. MaxUpdates /\ confirmed' \in 0 .. sent' /\ sent' \in Nat
        /\ kind' \in [Updates -> AllKinds] /\ enabled' \in BOOLEAN
        /\ rows' \in [Updates -> {"none", "stored", "processed"}]
        /\ handled' \in [Updates -> 0 .. 2] /\ reloads' \in 0 .. MaxReloads
    BY <1>6 DEF TypeOK, telegram
  <2>3. BatchInv'
    BY <2>1 DEF BatchInv, Batching
  <2>4. 0 \in 0 .. sent' + 1 /\ 0 \in 0 .. sent'
    <3>1. \A n \in Nat : 0 \in 0 .. n + 1 /\ 0 \in 0 .. n
      OBVIOUS
    <3> QED BY <2>2, <3>1
  <2> QED BY <1>6, <2>1, <2>2, <2>3, <2>4 DEF TypeOK
<1>7. CASE Exit
  BY <1>6, <1>7 DEF Exit, bounds, TypeOK
<1>8. CASE Crash
  <2>1. crashes' \in 0 .. MaxCrashes
    BY <1>8 DEF Crash, TypeOK
  <2> QED BY <1>6, <1>8, <2>1 DEF Crash
<1>9. CASE UNCHANGED vars
  BY <1>9 DEF vars, TypeOK, BatchInv, Batching, telegram, loops, bounds
<1> QED BY <1>1, <1>2, <1>4, <1>5, <1>7, <1>8, <1>9 DEF Next

\* The variables keep their types.
THEOREM TypeCorrect == Spec => []TypeOK
<1>1. Spec => [](TypeOK /\ BatchInv)
  BY TypeInit, TypeNext, PTL DEF Spec
<1> QED BY <1>1, PTL

-----------------------------------------------------------------------------
(* No update is lost, overtaken or repeated.                               *)

Safe == TypeOK /\ BatchInv /\ SettledInv /\ ForwardInv

\* What was handled and marked stays so.
LEMMA SettledStays ==
  ASSUME TypeOK, BatchInv, [Next]_vars, NEW u \in Updates, Settled(u)
  PROVE  Settled(u)'
<1>1. CASE UNCHANGED <<handled, rows>>
  BY <1>1 DEF Settled
<1>2. ASSUME NEW w \in Pollers, Begin(w) PROVE Settled(u)'
  <2>1. /\ rows' = [rows EXCEPT ![cur[w]] = IF @ = "none" THEN "stored" ELSE @]
        /\ handled' = handled
    BY <1>2 DEF Begin
  <2> QED BY <2>1 DEF Settled, TypeOK
<1>3. ASSUME NEW w \in Pollers, Finish(w) PROVE Settled(u)'
  <2>1. /\ rows' = [rows EXCEPT ![cur[w]] = "processed"]
        /\ handled' = [handled EXCEPT ![cur[w]] = IF @ < 2 THEN @ + 1 ELSE @]
    BY <1>3 DEF Finish, Advance
  <2>2. rows'[u] = "processed"
    BY <2>1 DEF Settled, TypeOK
  <2>3. handled'[u] > 0
    <3>1. handled[u] \in 0 .. 2 /\ handled[u] > 0
      BY DEF Settled, TypeOK
    <3>2. handled'[u] = handled[u] \/ handled'[u] = handled[u] + 1
      BY <2>1 DEF TypeOK
    <3> QED BY <3>1, <3>2
  <2> QED BY <2>2, <2>3 DEF Settled
<1>4. UNCHANGED <<handled, rows>> \/ \E w \in Pollers : Begin(w) \/ Finish(w)
  <2>1. ASSUME NEW w \in Pollers, Loop(w)
        PROVE  UNCHANGED <<handled, rows>> \/ Begin(w) \/ Finish(w)
    BY <2>1 DEF Loop, Poll, Answer, NoAnswer, Rejected, Leave, Throw
  <2>2. CASE UNCHANGED vars
    BY <2>2 DEF vars
  <2> QED BY <2>1, <2>2 DEF Next, Send, Configure, Boot, Exit, Crash
<1> QED BY <1>1, <1>2, <1>3, <1>4

\* A step that moves no cursor, and puts no poller to work, keeps Safe.
LEMMA QuietKeeps ==
  ASSUME Safe, TypeOK', BatchInv', [Next]_vars,
         UNCHANGED <<confirmed, offset, cur, done, rows, handled>>,
         \A w \in Pollers : pc'[w] \notin {"idle", "off"} => pc'[w] = pc[w]
  PROVE  Safe'
<1>1. \A w \in Pollers : Batching(w)' => Batching(w)
  BY DEF Batching
<1>2. \A w \in Pollers : pc'[w] = "asking" => pc[w] = "asking"
  OBVIOUS
<1>3. \A u : Settled(u)' <=> Settled(u)
  BY DEF Settled
<1>4. SettledInv'
  BY <1>1, <1>3 DEF Safe, SettledInv
<1>5. ForwardInv'
  BY <1>1, <1>2 DEF Safe, ForwardInv
<1> QED BY <1>4, <1>5 DEF Safe

\* The initial state has no update, and no cursor.
LEMMA SafeInit == Init => Safe
<1> SUFFICES ASSUME Init PROVE Safe
  OBVIOUS
<1>1. TypeOK /\ BatchInv
  BY TypeInit
<1>2. /\ confirmed = 0 /\ pc = [w \in Pollers |-> "off"]
      /\ offset = [w \in Pollers |-> 0] /\ done = [w \in Pollers |-> {}]
  BY DEF Init, Each
<1>3. SettledInv
  BY <1>2 DEF SettledInv, Batching
<1>4. ForwardInv
  BY <1>2 DEF ForwardInv, Batching
<1> QED BY <1>1, <1>3, <1>4 DEF Safe

\* When a process ends, its cursors are gone.
LEMMA ExitKeeps ==
  ASSUME Safe, TypeOK', BatchInv', [Next]_vars, Exits, UNCHANGED <<telegram, rows, handled>>
  PROVE  Safe'
<1>1. /\ confirmed' = confirmed /\ pc' = [w \in Pollers |-> "off"]
      /\ offset' = [w \in Pollers |-> 0] /\ done' = [w \in Pollers |-> {}]
  BY DEF Exits, Each, telegram
<1>2. \A u : Settled(u)' <=> Settled(u)
  BY DEF Settled
<1>3. SettledInv'
  BY <1>1, <1>2 DEF Safe, SettledInv, Batching
<1>4. ForwardInv'
  BY <1>1 DEF ForwardInv, Batching
<1> QED BY <1>3, <1>4 DEF Safe

\* A step of a poller keeps Safe.
LEMMA LoopKeeps ==
  ASSUME Safe, TypeOK', BatchInv', [Next]_vars, NEW w \in Pollers, Loop(w)
  PROVE  Safe'
<1> USE DEF telegram
<1>0. /\ \A v \in Pollers : offset[v] \in Nat /\ cur[v] \in Nat
      /\ confirmed \in Nat
  <2>1. sent \in Nat
    BY DEF Safe, TypeOK
  <2> QED BY <2>1 DEF Safe, TypeOK
<1>a. ASSUME NEW u \in Nat, u >= 1, u <= sent, Settled(u) PROVE Settled(u)'
  <2>1. sent \in 0 .. MaxUpdates
    BY DEF Safe, TypeOK
  <2>2. u \in Updates
    BY <1>a, <2>1
  <2> QED BY <1>a, <2>2, SettledStays DEF Safe
<1>1. CASE Poll(w)
  <2>1. /\ pc' = [pc EXCEPT ![w] = "asking"]
        /\ confirmed' = IF offset[w] > confirmed + 1 THEN offset[w] - 1 ELSE confirmed
        /\ UNCHANGED <<offset, cur, done, rows, handled>>
    BY <1>1 DEF Poll
  <2>2. \A u : Settled(u)' <=> Settled(u)
    BY <2>1 DEF Settled
  <2>3. confirmed' >= confirmed /\ confirmed' + 1 >= offset[w] /\ confirmed' \in Nat
    BY <1>0, <2>1
  <2>4. \A v \in Pollers : (Batching(v)' => Batching(v)) /\ (pc'[v] = "asking" => pc[v] = "asking" \/ v = w)
    BY <2>1 DEF Batching, Safe, TypeOK
  <2>5. \A u \in 1 .. confirmed' : Settled(u)
    BY <1>0, <2>1 DEF Safe, SettledInv
  <2>6. SettledInv'
    BY <2>1, <2>2, <2>4, <2>5 DEF Safe, SettledInv
  <2>7. ForwardInv'
    BY <1>0, <2>1, <2>3, <2>4 DEF Safe, ForwardInv
  <2> QED BY <2>6, <2>7 DEF Safe
<1>2. CASE Answer(w)
  <2>1. /\ pc[w] = "asking" /\ pc' = [pc EXCEPT ![w] = "batch"]
        /\ cur' = [cur EXCEPT ![w] = confirmed + 1]
        /\ UNCHANGED <<confirmed, offset, done, rows, handled>>
    BY <1>2 DEF Answer
  <2>2. \A u : Settled(u)' <=> Settled(u)
    BY <2>1 DEF Settled
  <2>3. /\ \A v \in Pollers \ {w} : pc'[v] = pc[v] /\ cur'[v] = cur[v]
        /\ pc'[w] = "batch" /\ cur'[w] = confirmed + 1
    BY <2>1 DEF Safe, TypeOK
  <2>4. \A v \in Pollers : Batching(v)' => \A u \in 1 .. cur'[v] - 1 : Settled(u)
    BY <1>0, <2>3 DEF Safe, SettledInv, Batching
  <2>5. SettledInv'
    BY <2>1, <2>2, <2>4 DEF Safe, SettledInv
  <2>6. ForwardInv'
    BY <1>0, <2>1, <2>3 DEF Safe, ForwardInv, Batching
  <2> QED BY <2>5, <2>6 DEF Safe
<1>3. CASE NoAnswer(w)
  BY <1>3, QuietKeeps DEF NoAnswer, Safe, TypeOK
<1>4. CASE Rejected(w)
  BY <1>4, QuietKeeps DEF Rejected, StopChannels, Safe, TypeOK
<1>5. CASE Leave(w)
  <2>1. /\ pc' = [pc EXCEPT ![w] = "off"] /\ offset' = [offset EXCEPT ![w] = 0]
        /\ done' = [done EXCEPT ![w] = {}]
        /\ UNCHANGED <<confirmed, cur, rows, handled>>
    BY <1>5 DEF Leave
  <2>2. \A u : Settled(u)' <=> Settled(u)
    BY <2>1 DEF Settled
  <2>3. /\ \A v \in Pollers \ {w} : pc'[v] = pc[v] /\ offset'[v] = offset[v] /\ done'[v] = done[v]
        /\ pc'[w] = "off" /\ offset'[w] = 0 /\ done'[w] = {}
    BY <2>1 DEF Safe, TypeOK
  <2>4. SettledInv'
    BY <2>1, <2>2, <2>3 DEF Safe, SettledInv, Batching
  <2>5. ForwardInv'
    BY <2>1, <2>3 DEF Safe, ForwardInv, Batching
  <2> QED BY <2>4, <2>5 DEF Safe
<1>6. CASE Begin(w)
  <2>1. /\ pc[w] = "batch" /\ pc' = [pc EXCEPT ![w] = "handling"]
        /\ UNCHANGED <<sent, confirmed, offset, cur, done>>
    BY <1>6 DEF Begin
  <2>2. \A v \in Pollers : (Batching(v)' => Batching(v)) /\ (pc'[v] = "asking" => pc[v] = "asking")
    BY <2>1 DEF Batching, Safe, TypeOK
  <2>3. SettledInv'
    <3>1. \A v \in Pollers : offset[v] <= sent + 1 /\ (Batching(v) => cur[v] <= sent + 1)
      BY DEF Safe, TypeOK
    <3>2. confirmed <= sent /\ sent \in Nat
      BY DEF Safe, TypeOK
    <3>3. \A u \in 1 .. confirmed' : Settled(u)'
      BY <1>0, <1>a, <2>1, <3>2 DEF Safe, SettledInv
    <3>4. \A v \in Pollers : \A u \in 1 .. offset'[v] - 1 : Settled(u)'
      BY <1>0, <1>a, <2>1, <3>1, <3>2 DEF Safe, SettledInv
    <3>5. \A v \in Pollers : Batching(v)' => \A u \in 1 .. cur'[v] - 1 : Settled(u)'
      BY <1>0, <1>a, <2>1, <2>2, <3>1, <3>2 DEF Safe, SettledInv
    <3> QED BY <3>3, <3>4, <3>5 DEF SettledInv
  <2>4. ForwardInv'
    BY <2>1, <2>2 DEF Safe, ForwardInv
  <2> QED BY <2>3, <2>4 DEF Safe
<1>8. CASE Throw(w)
  <2>1. /\ pc' = [pc EXCEPT ![w] = "idle"] /\ cur' = [cur EXCEPT ![w] = 0]
        /\ UNCHANGED <<confirmed, offset, done, rows, handled>>
    BY <1>8 DEF Throw, StopChannels
  <2>2. \A u : Settled(u)' <=> Settled(u)
    BY <2>1 DEF Settled
  <2>3. /\ \A v \in Pollers \ {w} : pc'[v] = pc[v] /\ cur'[v] = cur[v]
        /\ pc'[w] = "idle"
    BY <2>1 DEF Safe, TypeOK
  <2>4. SettledInv'
    BY <2>1, <2>2, <2>3 DEF Safe, SettledInv, Batching
  <2>5. ForwardInv'
    BY <2>1, <2>3 DEF Safe, ForwardInv, Batching
  <2> QED BY <2>4, <2>5 DEF Safe
<1>7. CASE Finish(w)
  <2>1. /\ rows' = [rows EXCEPT ![cur[w]] = "processed"]
        /\ handled' = [handled EXCEPT ![cur[w]] = IF @ < 2 THEN @ + 1 ELSE @]
        /\ done' = [done EXCEPT ![w] = @ \cup {cur[w]}]
        /\ offset' = [offset EXCEPT ![w] = cur[w] + 1]
        /\ cur' = [cur EXCEPT ![w] = IF cur[w] < last[w] THEN cur[w] + 1 ELSE 0]
        /\ pc[w] = "handling" /\ UNCHANGED <<sent, confirmed>>
    BY <1>7 DEF Finish, Advance
  <2>2. cur[w] \in Nat /\ cur[w] >= 1 /\ cur[w] <= sent /\ sent \in Nat /\ cur[w] \in Updates
    <3>1. sent \in 0 .. MaxUpdates /\ cur[w] \in 0 .. sent + 1 /\ last[w] \in 0 .. sent
      BY DEF Safe, TypeOK
    <3>2. 1 <= cur[w] /\ cur[w] <= last[w]
      BY <2>1 DEF Safe, BatchInv, Batching
    <3> QED BY <3>1, <3>2
  <2>3. \A v \in Pollers : /\ Batching(v)' => Batching(v)
                           /\ pc'[v] = "asking" => pc[v] = "asking"
                           /\ pc'[w] # "asking"
    <3>1. enabled \in BOOLEAN /\ pc \in [Pollers -> States]
      BY DEF Safe, TypeOK, States
    <3>2. After(w) \in [Pollers -> States]
      BY <3>1 DEF After, States
    <3>3. \/ StopChannels(After(w)) \/ ReloadChannels(After(w), enabled)
          \/ (pc' = After(w) /\ UNCHANGED <<stopped, active>>)
      BY <1>7 DEF Finish, ScheduleRestart
    <3>4. CASE StopChannels(After(w)) \/ ReloadChannels(After(w), enabled)
      <4>1. \A v \in Pollers : pc'[v] # "idle" => pc'[v] = After(w)[v]
        BY <3>1, <3>2, <3>4, ReloadTypes DEF Safe
      <4> QED BY <2>1, <3>1, <4>1 DEF After, Batching
    <3>5. CASE pc' = After(w)
      BY <2>1, <3>1, <3>5 DEF After, Batching
    <3> QED BY <3>3, <3>4, <3>5
  <2>4. rows'[cur[w]] = "processed" /\ handled'[cur[w]] > 0
    <3>1. rows'[cur[w]] = "processed"
      BY <2>1, <2>2 DEF Safe, TypeOK
    <3>2. handled[cur[w]] \in 0 .. 2
      BY <2>2 DEF Safe, TypeOK
    <3>3. handled'[cur[w]] = IF handled[cur[w]] < 2 THEN handled[cur[w]] + 1 ELSE handled[cur[w]]
      BY <2>1, <2>2 DEF Safe, TypeOK
    <3>4. handled'[cur[w]] > 0
      BY <3>2, <3>3
    <3> QED BY <3>1, <3>4
  <2>5. \A u \in 1 .. cur[w] : Settled(u)'
    <3>1. \A u \in 1 .. cur[w] - 1 : Settled(u)
      BY <2>1 DEF Safe, SettledInv, Batching
    <3>2. ASSUME NEW u \in 1 .. cur[w], u # cur[w] PROVE Settled(u)'
      BY <1>a, <2>2, <3>1, <3>2
    <3>3. ASSUME NEW u \in 1 .. cur[w], u = cur[w] PROVE Settled(u)'
      BY <2>4, <3>3 DEF Settled
    <3> QED BY <3>2, <3>3
  <2>6. /\ \A v \in Pollers \ {w} : /\ cur'[v] = cur[v] /\ offset'[v] = offset[v]
                                    /\ done'[v] = done[v]
        /\ cur'[w] \in {cur[w] + 1, 0} /\ offset'[w] = cur[w] + 1
        /\ done'[w] = done[w] \cup {cur[w]}
    BY <2>1 DEF Safe, TypeOK
  <2>7. SettledInv'
    <3>1. \A v \in Pollers : offset[v] <= sent + 1 /\ cur[v] <= sent + 1
      BY DEF Safe, TypeOK
    <3>2. confirmed <= sent
      BY DEF Safe, TypeOK
    <3>3. \A u \in 1 .. confirmed' : Settled(u)'
      BY <1>0, <1>a, <2>1, <2>2, <3>2 DEF Safe, SettledInv
    <3>4. \A v \in Pollers : \A u \in 1 .. offset'[v] - 1 : Settled(u)'
      BY <1>0, <1>a, <2>2, <2>5, <2>6, <3>1 DEF Safe, SettledInv
    <3>5. \A v \in Pollers : Batching(v)' => \A u \in 1 .. cur'[v] - 1 : Settled(u)'
      BY <1>0, <1>a, <2>2, <2>3, <2>5, <2>6, <3>1 DEF Safe, SettledInv
    <3> QED BY <3>3, <3>4, <3>5 DEF SettledInv
  <2>8. ForwardInv'
    <3>1. offset[w] <= cur[w] /\ \A u \in done[w] : u < offset[w]
      BY <2>1 DEF Safe, ForwardInv, Batching
    <3>2. \A v \in Pollers : \A u \in done[v] : u \in Nat
      BY DEF Safe, TypeOK
    <3>3. \A v \in Pollers : \A u \in done'[v] : u < offset'[v]
      BY <1>0, <2>6, <3>1, <3>2 DEF Safe, ForwardInv
    <3>4. \A v \in Pollers : pc'[v] = "asking" => offset'[v] <= confirmed' + 1
      BY <2>1, <2>3, <2>6 DEF Safe, ForwardInv
    <3>5. \A v \in Pollers : Batching(v)' => offset'[v] <= cur'[v]
      <4>1. ASSUME Batching(w)' PROVE offset'[w] <= cur'[w]
        <5>1. 1 <= cur'[w]
          BY <4>1 DEF BatchInv
        <5> QED BY <2>2, <2>6, <5>1
      <4> QED BY <2>3, <2>6, <4>1 DEF Safe, ForwardInv
    <3> QED BY <3>3, <3>4, <3>5 DEF ForwardInv
  <2> QED BY <2>7, <2>8 DEF Safe
<1> QED BY <1>1, <1>2, <1>3, <1>4, <1>5, <1>6, <1>7, <1>8 DEF Loop

\* Safe is inductive.
LEMMA SafeNext == Safe /\ [Next]_vars => Safe'
<1> SUFFICES ASSUME Safe, [Next]_vars PROVE Safe'
  OBVIOUS
<1>1. TypeOK' /\ BatchInv'
  BY TypeNext DEF Safe
<1>2. pc \in [Pollers -> States]
  BY DEF Safe, TypeOK, States
<1>3. ASSUME NEW k \in Kinds, Send(k) PROVE Safe'
  BY <1>1, <1>3, QuietKeeps DEF Send, loops
<1>4. ASSUME NEW on \in BOOLEAN, ReloadChannels(pc, on),
             UNCHANGED <<telegram, offset, cur, last, done, doing, input, rows, handled, crashes>>
      PROVE  Safe'
  <2>1. \A w \in Pollers : pc'[w] # "idle" => pc'[w] = pc[w]
    BY <1>2, <1>4, ReloadTypes DEF Safe
  <2> QED BY <1>1, <1>4, <2>1, QuietKeeps DEF telegram
<1>5. ASSUME NEW on \in BOOLEAN, Configure(on) PROVE Safe'
  BY <1>4, <1>5 DEF Configure
<1>6. CASE Boot
  <2>1. enabled \in BOOLEAN
    BY DEF Safe, TypeOK
  <2> QED BY <1>4, <1>6, <2>1 DEF Boot, bounds
<1>7. CASE Exit
  BY <1>1, <1>7, ExitKeeps DEF Exit
<1>8. CASE Crash
  BY <1>1, <1>8, ExitKeeps DEF Crash
<1>9. CASE UNCHANGED vars
  BY <1>1, <1>9, QuietKeeps DEF vars, telegram, loops
<1>10. ASSUME NEW w \in Pollers, Loop(w) PROVE Safe'
  BY <1>1, <1>10, LoopKeeps
<1> QED BY <1>3, <1>5, <1>6, <1>7, <1>8, <1>9, <1>10 DEF Next

\* Safe holds in every reachable state.
LEMMA SafeAlways == Spec => []Safe
BY SafeInit, SafeNext, PTL DEF Spec

\* No update is lost: Telegram forgets only what was handled and marked.
THEOREM NoneLost == Spec => []ConfirmedIsHandled
<1>1. Safe => ConfirmedIsHandled
  BY DEF Safe, SettledInv, Settled, ConfirmedIsHandled
<1> QED BY <1>1, SafeAlways, PTL

\* No update is begun before all earlier ones were handled.
THEOREM NoneOvertaken == Spec => []InOrder
<1>1. Safe => InOrder
  BY DEF Safe, SettledInv, Settled, InOrder, Batching
<1> QED BY <1>1, SafeAlways, PTL

\* A poller never handles an update again.
THEOREM NoneRepeated == Spec => []OncePerPoller
<1>1. Safe => OncePerPoller
  <2> SUFFICES ASSUME Safe, NEW w \in Pollers, pc[w] = "handling" PROVE cur[w] \notin done[w]
    BY DEF OncePerPoller
  <2>1. offset[w] <= cur[w] /\ \A u \in done[w] : u < offset[w]
    BY DEF Safe, ForwardInv, Batching
  <2>2. offset[w] \in 0 .. sent + 1 /\ cur[w] \in 0 .. sent + 1 /\ sent \in 0 .. MaxUpdates
    BY DEF Safe, TypeOK
  <2> QED BY <2>1, <2>2
<1> QED BY <1>1, SafeAlways, PTL

-----------------------------------------------------------------------------
(* One live poller.                                                        *)

\* Stopping all, or starting one after it, leaves one live poller at most.
LEMMA ReloadLeavesOne ==
  ASSUME TypeOK, OneLivePoller, NEW on \in BOOLEAN, NEW at \in [Pollers -> States],
         \A w \in Pollers : at[w] # "off" => pc[w] # "off",
         StopChannels(at) \/ ReloadChannels(at, on)
  PROVE  OneLivePoller'
<1>1. CASE StopChannels(at)
  BY <1>1 DEF StopChannels, OneLivePoller
<1>2. ASSUME NEW n \in Pollers, pc' = [at EXCEPT ![n] = "idle"],
             stopped' = [w \in Pollers |-> w # n /\ (stopped[w] \/ w = active)],
             active' = n
      PROVE  OneLivePoller'
  BY <1>2 DEF OneLivePoller
<1> QED BY <1>1, <1>2 DEF ReloadChannels

\* A step of a poller that changes only its own place keeps OneLivePoller.
LEMMA OwnStep ==
  ASSUME TypeOK, OneLivePoller, NEW w \in Pollers, pc[w] # "off", NEW s \in States,
         pc' = [pc EXCEPT ![w] = s], UNCHANGED <<stopped, active>>
  PROVE  OneLivePoller'
BY DEF TypeOK, OneLivePoller

\* Every step keeps OneLivePoller.
LEMMA OneLiveNext == TypeOK /\ OneLivePoller /\ [Next]_vars => OneLivePoller'
<1> SUFFICES ASSUME TypeOK, OneLivePoller, [Next]_vars PROVE OneLivePoller'
  OBVIOUS
<1>0. pc \in [Pollers -> States] /\ enabled \in BOOLEAN
  BY DEF TypeOK, States
<1>1. CASE UNCHANGED <<pc, stopped, active>>
  BY <1>1 DEF OneLivePoller
<1>2. ASSUME NEW w \in Pollers, Loop(w) PROVE OneLivePoller'
  <2>1. CASE Poll(w) \/ Answer(w) \/ NoAnswer(w) \/ Begin(w)
    <3>1. /\ pc[w] # "off" /\ UNCHANGED <<stopped, active>>
          /\ \E s \in States : pc' = [pc EXCEPT ![w] = s]
      BY <2>1 DEF Poll, Answer, NoAnswer, Begin, States
    <3> QED BY <3>1, OwnStep
  <2>2. CASE Leave(w)
    BY <2>2 DEF Leave, OneLivePoller, TypeOK
  <2>3. CASE Rejected(w)
    <3> DEFINE at == [pc EXCEPT ![w] = "idle"]
    <3>1. /\ at \in [Pollers -> States] /\ StopChannels(at)
          /\ \A v \in Pollers : at[v] # "off" => pc[v] # "off"
      BY <1>0, <2>3 DEF Rejected, States, StopChannels
    <3> QED BY <3>1, ReloadLeavesOne
  <2>4. CASE Throw(w)
    <3> DEFINE at == [pc EXCEPT ![w] = "idle"]
    <3>1. /\ at \in [Pollers -> States] /\ pc[w] # "off"
          /\ \A v \in Pollers : at[v] # "off" => pc[v] # "off"
      BY <1>0, <2>4 DEF Throw, States
    <3>2. StopChannels(at) \/ (pc' = at /\ UNCHANGED <<stopped, active>>)
      BY <2>4 DEF Throw
    <3>3. CASE pc' = at /\ UNCHANGED <<stopped, active>>
      BY <3>1, <3>3, OwnStep DEF States
    <3> QED BY <3>1, <3>2, <3>3, ReloadLeavesOne
  <2>5. CASE Finish(w)
    <3>1. /\ After(w) \in [Pollers -> States] /\ pc[w] # "off"
          /\ \A v \in Pollers : After(w)[v] # "off" => pc[v] # "off"
      BY <1>0, <2>5 DEF Finish, After, States
    <3>2. \/ StopChannels(After(w)) \/ ReloadChannels(After(w), enabled)
          \/ (pc' = After(w) /\ UNCHANGED <<stopped, active>>)
      BY <2>5 DEF Finish, ScheduleRestart
    <3>3. CASE pc' = After(w) /\ UNCHANGED <<stopped, active>>
      BY <3>1, <3>3 DEF OneLivePoller
    <3> QED BY <1>0, <3>1, <3>2, <3>3, ReloadLeavesOne
  <2> QED BY <1>2, <2>1, <2>2, <2>3, <2>4, <2>5 DEF Loop
<1>3. ASSUME NEW on \in BOOLEAN, ReloadChannels(pc, on) PROVE OneLivePoller'
  BY <1>0, <1>3, ReloadLeavesOne
<1>4. CASE Exits
  BY <1>4 DEF Exits, Each, OneLivePoller
<1> QED
  BY <1>0, <1>1, <1>2, <1>3, <1>4
     DEF Next, Send, Configure, Boot, Exit, Crash, vars, loops

\* At most one poller polls at a time, and stopChannels can reach it.
THEOREM OneLive == Spec => []OneLivePoller
<1>1. Init => OneLivePoller
  BY DEF Init, Each, OneLivePoller
<1> QED BY <1>1, OneLiveNext, TypeCorrect, PTL DEF Spec
=============================================================================
