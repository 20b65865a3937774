------------------------ MODULE SessionTurns_proofs ------------------------
(***************************************************************************)
(* Proofs about SessionTurns, for every set of calls, sessions and agent   *)
(* slots.                                                                  *)
(***************************************************************************)
EXTENDS SessionTurns, TLAPS

-----------------------------------------------------------------------------
(* Queues.                                                                 *)

\* An input that is appended waits behind those that waited, once.
LEMMA AppendQueue ==
  ASSUME NEW q \in Seq(Jobs), NEW j \in Jobs
  PROVE  /\ Append(q, j) \in Seq(Jobs)
         /\ Append(q, j) # <<>>
         /\ \A i \in Jobs : Waits(i, Append(q, j)) <=> Waits(i, q) \/ i = j
         /\ Once(q) /\ ~Waits(j, q) => Once(Append(q, j))
  <1>1. Append(q, j) \in Seq(Jobs) /\ Len(Append(q, j)) = Len(q) + 1
    OBVIOUS
  <1>2. DOMAIN q = 1..Len(q) /\ DOMAIN Append(q, j) = 1..(Len(q) + 1)
    BY <1>1
  <1>3. /\ \A i \in 1..Len(q) : Append(q, j)[i] = q[i]
        /\ Append(q, j)[Len(q) + 1] = j
    OBVIOUS
  <1>4. Len(q) \in Nat
    OBVIOUS
  <1>5. \A i \in Jobs : Waits(i, Append(q, j)) <=> Waits(i, q) \/ i = j
    BY <1>2, <1>3, <1>4 DEF Waits
  <1>6. Once(q) /\ ~Waits(j, q) => Once(Append(q, j))
    BY <1>2, <1>3, <1>4 DEF Waits, Once
  <1> QED
    BY <1>1, <1>4, <1>5, <1>6

\* The head of a queue leaves it, and for good when it waited once.
LEMMA TailQueue ==
  ASSUME NEW q \in Seq(Jobs), q # <<>>
  PROVE  /\ Head(q) \in Jobs
         /\ Tail(q) \in Seq(Jobs)
         /\ Waits(Head(q), q)
         /\ Once(q) => /\ Once(Tail(q))
                       /\ \A i \in Jobs :
                            Waits(i, Tail(q)) <=> Waits(i, q) /\ i # Head(q)
  <1>1. Len(q) \in Nat /\ Len(q) > 0 /\ Tail(q) \in Seq(Jobs)
    OBVIOUS
  <1>2. DOMAIN q = 1..Len(q) /\ DOMAIN Tail(q) = 1..(Len(q) - 1)
    BY <1>1
  <1>3. Head(q) = q[1] /\ \A i \in 1..(Len(q) - 1) : Tail(q)[i] = q[i + 1]
    BY <1>1
  <1>4. Head(q) \in Jobs /\ Waits(Head(q), q)
    BY <1>1, <1>2, <1>3 DEF Waits
  <1>5. ASSUME Once(q) PROVE Once(Tail(q))
    BY <1>1, <1>2, <1>3, <1>5 DEF Once
  <1>6. ASSUME Once(q), NEW i \in Jobs
        PROVE  Waits(i, Tail(q)) <=> Waits(i, q) /\ i # Head(q)
    <2>1. ASSUME NEW k \in DOMAIN Tail(q), Tail(q)[k] = i
          PROVE  Waits(i, q) /\ i # Head(q)
      BY <1>1, <1>2, <1>3, <1>6, <2>1 DEF Waits, Once
    <2>2. ASSUME NEW k \in DOMAIN q, q[k] = i, i # Head(q)
          PROVE  Waits(i, Tail(q))
      <3>1. k # 1 /\ k - 1 \in DOMAIN Tail(q) /\ Tail(q)[k - 1] = i
        BY <1>1, <1>2, <1>3, <2>2
      <3> QED
        BY <3>1 DEF Waits
    <2> QED
      BY <2>1, <2>2 DEF Waits
  <1> QED
    BY <1>1, <1>4, <1>5, <1>6

-----------------------------------------------------------------------------
(* releaseSessionLock, whatever the caller's own step did to pc and state. *)

States == {"idle", "running", "error"}

\* Only a startup begins with hooks.
LEMMA FirstAwaitKinds ==
  ASSUME NEW k, NEW p \in FirstAwait(k)
  PROVE  /\ p \in {"hooks", "capture", "opening"}
         /\ k = "startup" <=> p = "hooks"
  BY DEF FirstAwait

\* The persisted state of a session after transitionState.
LEMMA MarkRunningType ==
  ASSUME NEW st \in [Sessions -> States], NEW s \in Sessions, NEW p
  PROVE  MarkRunning(st, s, p) \in [Sessions -> States]
  BY DEF MarkRunning, States

\* Either nobody waits, and the lock is dropped; or the first of the queue is
\* started, holding the lock unless it is a startup.
LEMMA ReleaseEffect ==
  ASSUME TypeOK, NEW s \in Sessions,
         NEW pcs \in [Jobs -> PCs], NEW st \in [Sessions -> States],
         Release(s, pcs, st)
  PROVE  /\ \/ /\ pending[s] = <<>>
               /\ active' = active \ {s}
               /\ pc' = pcs
               /\ pending' = pending
            \/ \E p \in {"hooks", "capture", "opening"} :
                 /\ pending[s] # <<>>
                 /\ pc' = [pcs EXCEPT ![Head(pending[s])] = p]
                 /\ active' = IF p = "hooks" THEN active \ {s} ELSE active \cup {s}
                 /\ pending' = [pending EXCEPT ![s] = Tail(@)]
         /\ pc' \in [Jobs -> PCs]
         /\ state' \in [Sessions -> States]
         /\ active' \in SUBSET Sessions
         /\ pending' \in [Sessions -> Seq(Jobs)]
         /\ flushed' \in SUBSET Jobs
  <1>1. CASE pending[s] = <<>>
    BY <1>1 DEF Release, TypeOK
  <1>2. CASE pending[s] # <<>>
    <2> DEFINE h == Head(pending[s])
    <2>1. pending[s] \in Seq(Jobs)
      BY DEF TypeOK
    <2>2. h \in Jobs /\ Tail(pending[s]) \in Seq(Jobs)
      BY <1>2, <2>1, TailQueue
    <2>3. PICK p \in FirstAwait(kind[h]) :
            /\ pc' = [pcs EXCEPT ![h] = p]
            /\ state' = MarkRunning(st, s, p)
      BY <1>2 DEF Release
    <2>4. /\ pending' = [pending EXCEPT ![s] = Tail(@)]
          /\ flushed' = flushed \cup {h}
          /\ active' = LockOnStart(kind[h], active, s)
      BY <1>2 DEF Release
    <2>5. p \in {"hooks", "capture", "opening"} /\ (kind[h] = "startup" <=> p = "hooks")
      BY <2>3, FirstAwaitKinds
    <2>6. active' = IF p = "hooks" THEN active \ {s} ELSE active \cup {s}
      BY <2>4, <2>5 DEF LockOnStart
    <2>7. pc' \in [Jobs -> PCs] /\ state' \in [Sessions -> States]
      BY <2>3, <2>5, MarkRunningType DEF PCs, InFlight, Holding
    <2>8. /\ active' \in SUBSET Sessions
          /\ pending' \in [Sessions -> Seq(Jobs)]
          /\ flushed' \in SUBSET Jobs
      BY <2>2, <2>4, <2>6 DEF TypeOK
    <2> QED
      BY <1>2, <2>3, <2>4, <2>5, <2>6, <2>7, <2>8
  <1> QED
    BY <1>1, <1>2

-----------------------------------------------------------------------------
(* Type correctness.                                                       *)

\* The maps that processMessage writes keep their types.
LEMMA HelperTypes ==
  ASSUME TypeOK
  PROVE  /\ \A s \in Sessions, j \in Jobs :
              Enqueue(s, j) \in [Sessions -> Seq(Jobs)]
         /\ \A ch : \A j \in Jobs : Remembered(j, ch) \in Jobs \cup {None}
         /\ \A s \in Sessions : ForgetController(s) \in [Sessions -> Jobs \cup {None}]
         /\ \A s \in Sessions :
              ContextAfterRelease(s) \in [Sessions -> Jobs \cup {None}]
         /\ \A s \in Sessions : TimerAfterRelease(s) \in BOOLEAN
         /\ \A st \in [Sessions -> States] : Recovered(st) \in [Sessions -> States]
         /\ \A r : RequestsAfter(r) \in SUBSET {"stop", "reload", "restart"}
         /\ \A r : DaemonAfter(r) \in {"up", "stopping", "restarting", "down"}
         /\ \A r : StateAfter(r, state) \in [Sessions -> States]
         /\ \A r : TimerAfter(r, timer) \in BOOLEAN
  <1>1. ASSUME NEW s \in Sessions, NEW j \in Jobs
        PROVE  Enqueue(s, j) \in [Sessions -> Seq(Jobs)]
    <2>1. pending[s] \in Seq(Jobs)
      BY DEF TypeOK
    <2> QED
      BY <2>1, AppendQueue DEF Enqueue, TypeOK
  <1>2. \A ch : \A j \in Jobs : Remembered(j, ch) \in Jobs \cup {None}
    BY DEF Remembered
  <1>3. \A s \in Sessions : ForgetController(s) \in [Sessions -> Jobs \cup {None}]
    BY DEF ForgetController, TypeOK
  <1>4. ASSUME NEW s \in Sessions
        PROVE  ContextAfterRelease(s) \in [Sessions -> Jobs \cup {None}]
    <2>1. pending[s] \in Seq(Jobs) /\ (pending[s] # <<>> => Head(pending[s]) \in Jobs)
      BY TailQueue DEF TypeOK
    <2> QED
      BY <2>1 DEF ContextAfterRelease, Remembered, TypeOK
  <1>5. \A s \in Sessions : TimerAfterRelease(s) \in BOOLEAN
    BY DEF TimerAfterRelease, TypeOK
  <1>6. \A st \in [Sessions -> States] : Recovered(st) \in [Sessions -> States]
    BY DEF Recovered, States
  <1>7. \A r : RequestsAfter(r) \in SUBSET {"stop", "reload", "restart"}
    BY DEF RequestsAfter, TypeOK
  <1>8. \A r : DaemonAfter(r) \in {"up", "stopping", "restarting", "down"}
    BY DEF DaemonAfter, TypeOK
  <1>9. state \in [Sessions -> States] /\ timer \in BOOLEAN
    BY DEF TypeOK, States
  <1>10. \A r : StateAfter(r, state) \in [Sessions -> States]
    BY <1>6, <1>9 DEF StateAfter
  <1>11. \A r : TimerAfter(r, timer) \in BOOLEAN
    BY <1>9 DEF TimerAfter
  <1> QED
    BY <1>1, <1>2, <1>3, <1>4, <1>5, <1>6, <1>7, <1>8, <1>10, <1>11

\* A call that is submitted is of a kind, a session and a channel.
LEMMA DescribeType ==
  ASSUME TypeOK, NEW j \in Jobs, NEW s \in Sessions, NEW k \in AllKinds,
         NEW ch \in AllChannels, Describe(j, s, k, ch)
  PROVE  /\ kind' \in [Jobs -> AllKinds]
         /\ sess' \in [Jobs -> Sessions]
         /\ chan' \in [Jobs -> AllChannels]
         /\ caller' \in [Jobs -> Jobs \cup {None}]
  <1>1. /\ kind' \in [Jobs -> AllKinds]
        /\ sess' \in [Jobs -> Sessions]
        /\ chan' \in [Jobs -> AllChannels]
    BY DEF Describe, TypeOK
  <1>2. caller' = caller \/ \E n \in Jobs : caller' = [caller EXCEPT ![n] = j]
    BY DEF Describe
  <1>3. caller' \in [Jobs -> Jobs \cup {None}]
    <2>1. caller \in [Jobs -> Jobs \cup {None}]
      BY DEF TypeOK
    <2> QED
      BY <1>2, <2>1
  <1> QED
    BY <1>1, <1>3

\* The types, initially.
LEMMA TypeInit == Init => TypeOK
  BY MainAssumption, BootsAssumption
  DEF Init, TypeOK, PCs, InFlight, Holding, AllKinds, AllChannels

\* The types, step by step.
LEMMA TypeNext == TypeOK /\ [Next]_vars => TypeOK'
  <1> SUFFICES ASSUME TypeOK, [Next]_vars PROVE TypeOK'
    OBVIOUS
  <1> USE HelperTypes
  <1>1. ASSUME NEW j \in Jobs, NEW s \in Sessions, NEW k \in Kinds \ {"startup"},
               NEW ch \in Channels, SubmitBusy(j, s, k, ch)
        PROVE  TypeOK'
    <2>1. k \in AllKinds /\ ch \in AllChannels
      BY KindsAssumption, ChannelsAssumption
    <2>2. /\ kind' \in [Jobs -> AllKinds] /\ sess' \in [Jobs -> Sessions]
          /\ chan' \in [Jobs -> AllChannels] /\ caller' \in [Jobs -> Jobs \cup {None}]
      BY <1>1, <2>1, DescribeType DEF SubmitBusy
    <2>3. \E r : /\ requested' = RequestsAfter(r)
                 /\ daemon' = DaemonAfter(r)
                 /\ state' = StateAfter(r, state)
      BY <1>1 DEF SubmitBusy
    <2>4. /\ requested' \in SUBSET {"stop", "reload", "restart"}
          /\ daemon' \in {"up", "stopping", "restarting", "down"}
          /\ state' \in [Sessions -> States]
      BY <2>3
    <2>5. /\ pc' \in [Jobs -> PCs] /\ everQueued' \in SUBSET Sessions
          /\ pending' \in [Sessions -> Seq(Jobs)]
          /\ context' \in [Sessions -> Jobs \cup {None}]
      BY <1>1 DEF SubmitBusy, TypeOK, PCs
    <2> QED
      BY <1>1, <2>2, <2>4, <2>5 DEF SubmitBusy, TypeOK, States
  <1>2. ASSUME NEW j \in Jobs, NEW s \in Sessions, NEW k \in Kinds \ {"startup"},
               NEW ch \in Channels, SubmitFree(j, s, k, ch)
        PROVE  TypeOK'
    <2>1. k \in AllKinds /\ ch \in AllChannels
      BY KindsAssumption, ChannelsAssumption
    <2>2. PICK p \in FirstAwait(k) : /\ pc' = [pc EXCEPT ![j] = p]
                                     /\ state' = MarkRunning(state, s, p)
      BY <1>2 DEF SubmitFree
    <2>3. pc' \in [Jobs -> PCs]
      BY <2>2, FirstAwaitKinds DEF TypeOK, PCs, InFlight, Holding
    <2>4. state' \in [Sessions -> States]
      BY <2>2, MarkRunningType DEF TypeOK, States
    <2>5. active' \in SUBSET Sessions
      BY <1>2 DEF SubmitFree, LockOnStart, TypeOK
    <2>6. /\ kind' \in [Jobs -> AllKinds] /\ sess' \in [Jobs -> Sessions]
          /\ chan' \in [Jobs -> AllChannels] /\ caller' \in [Jobs -> Jobs \cup {None}]
      BY <1>2, <2>1, DescribeType DEF SubmitFree
    <2>7. context' \in [Sessions -> Jobs \cup {None}]
      BY <1>2 DEF SubmitFree, TypeOK
    <2> QED
      BY <1>2, <2>3, <2>4, <2>5, <2>6, <2>7 DEF SubmitFree, TypeOK, States, daemonVars
  <1>3. ASSUME NEW j \in Jobs, NEW s \in Sessions, SubmitStartup(j, s)
        PROVE  TypeOK'
    BY <1>3 DEF SubmitStartup, Describe, TypeOK, daemonVars, PCs, InFlight,
                AllKinds, AllChannels
  <1>4. ASSUME NEW j \in Jobs, RequestEffect(j)
        PROVE  TypeOK'
    BY <1>4 DEF RequestEffect, TypeOK, jobVars, sessionVars, agentVars
  <1>5. ASSUME NEW j \in Jobs, HooksDoneFree(j)
        PROVE  TypeOK'
    BY <1>5 DEF HooksDoneFree, TypeOK, agentVars, daemonVars, PCs, InFlight, Holding
  <1>6. ASSUME NEW j \in Jobs, HooksDoneBusy(j)
        PROVE  TypeOK'
    <2>1. pc' \in [Jobs -> PCs]
      BY <1>6 DEF HooksDoneBusy, Resumed, TypeOK, PCs, InFlight, Holding
    <2>2. /\ caller' \in [Jobs -> Jobs \cup {None}]
          /\ everQueued' \in SUBSET Sessions
          /\ pending' \in [Sessions -> Seq(Jobs)]
      BY <1>6 DEF HooksDoneBusy, TypeOK
    <2>3. \E r : /\ requested' = RequestsAfter(r)
                 /\ daemon' = DaemonAfter(r)
                 /\ state' = StateAfter(r, state)
                 /\ timer' = TimerAfter(r, timer)
      BY <1>6 DEF HooksDoneBusy
    <2> QED
      BY <1>6, <2>1, <2>2, <2>3 DEF HooksDoneBusy, TypeOK, States
  <1>7. ASSUME NEW j \in Jobs, CaptureDone(j)
        PROVE  TypeOK'
    BY <1>7 DEF CaptureDone, TypeOK, agentVars, daemonVars, PCs, InFlight, Holding
  <1>8. ASSUME NEW j \in Jobs, BeginTurn(j)
        PROVE  TypeOK'
    BY <1>8 DEF BeginTurn, TypeOK, agentVars, PCs, InFlight, Holding
  <1>9. ASSUME NEW j \in Jobs, EndTurn(j)
        PROVE  TypeOK'
    <2>1. state' \in [Sessions -> States] /\ throws' \in SUBSET Jobs
      BY <1>9 DEF EndTurn, TypeOK, States
    <2> QED
      BY <1>9, <2>1 DEF EndTurn, TypeOK, agentVars, daemonVars, PCs, InFlight,
                        Holding, States
  <1>10. ASSUME NEW j \in Jobs, ResetSession(j)
         PROVE  TypeOK'
    <2>1. PICK n \in Jobs :
            /\ Release(sess[j], [pc EXCEPT ![j] = "nested", ![n] = "hooks"], state)
            /\ kind' = [kind EXCEPT ![n] = "startup"]
            /\ sess' = [sess EXCEPT ![n] = sess[j]]
            /\ chan' = [chan EXCEPT ![n] = chan[j]]
            /\ context' = [context EXCEPT ![sess[j]] = Remembered(n, chan[j])]
      BY <1>10 DEF ResetSession
    <2> DEFINE pcs == [pc EXCEPT ![j] = "nested", ![n] = "hooks"]
    <2>2. pcs \in [Jobs -> PCs] /\ sess[j] \in Sessions /\ state \in [Sessions -> States]
      BY DEF TypeOK, PCs, InFlight, Holding, States
    <2>3. /\ pc' \in [Jobs -> PCs] /\ state' \in [Sessions -> States]
          /\ active' \in SUBSET Sessions /\ pending' \in [Sessions -> Seq(Jobs)]
          /\ flushed' \in SUBSET Jobs
      BY <2>1, <2>2, ReleaseEffect
    <2>4. /\ kind' \in [Jobs -> AllKinds] /\ sess' \in [Jobs -> Sessions]
          /\ chan' \in [Jobs -> AllChannels]
          /\ context' \in [Sessions -> Jobs \cup {None}]
      BY <2>1 DEF TypeOK, AllKinds
    <2> QED
      BY <1>10, <2>3, <2>4 DEF ResetSession, TypeOK, daemonVars, States
  <1>11. ASSUME NEW j \in Jobs, LeaveTurn(j)
         PROVE  TypeOK'
    <2> DEFINE pcs == [pc EXCEPT ![j] = "closing"]
    <2>1. /\ pcs \in [Jobs -> PCs] /\ sess[j] \in Sessions
          /\ state \in [Sessions -> States]
      BY DEF TypeOK, PCs, InFlight, Holding, States
    <2>2. /\ pc' \in [Jobs -> PCs] /\ state' \in [Sessions -> States]
          /\ active' \in SUBSET Sessions /\ pending' \in [Sessions -> Seq(Jobs)]
          /\ flushed' \in SUBSET Jobs
      <3>1. CASE kind[j] = "startup"
        BY <1>11, <2>1, <3>1 DEF LeaveTurn, TypeOK
      <3>2. CASE kind[j] # "startup"
        BY <1>11, <2>1, <3>2, ReleaseEffect DEF LeaveTurn
      <3> QED
        BY <3>1, <3>2
    <2>3. /\ context' \in [Sessions -> Jobs \cup {None}] /\ timer' \in BOOLEAN
          /\ controller' \in [Sessions -> Jobs \cup {None}]
      BY <1>11, <2>1 DEF LeaveTurn, TypeOK
    <2> QED
      BY <1>11, <2>2, <2>3 DEF LeaveTurn, TypeOK, daemonVars, States
  <1>12. ASSUME NEW j \in Jobs, Close(j)
         PROVE  TypeOK'
    <2> DEFINE p == IF HasContinuation(j) THEN "settled" ELSE "done"
               q == IF j \in throws THEN "failing" ELSE "ending"
               pcs == Resumed(j, [pc EXCEPT ![j] = p], q)
    <2>1. /\ pcs \in [Jobs -> PCs] /\ sess[j] \in Sessions
          /\ state \in [Sessions -> States]
      BY DEF Resumed, TypeOK, PCs, InFlight, Holding, States
    <2>2. Release(sess[j], pcs, state)
      BY <1>12 DEF Close
    <2>3. /\ pc' \in [Jobs -> PCs] /\ state' \in [Sessions -> States]
          /\ active' \in SUBSET Sessions /\ pending' \in [Sessions -> Seq(Jobs)]
          /\ flushed' \in SUBSET Jobs
      BY <2>1, <2>2, ReleaseEffect
    <2>4. /\ context' \in [Sessions -> Jobs \cup {None}] /\ timer' \in BOOLEAN
          /\ caller' \in [Jobs -> Jobs \cup {None}]
      BY <1>12, <2>1 DEF Close, TypeOK
    <2> QED
      BY <1>12, <2>3, <2>4 DEF Close, TypeOK, daemonVars, States
  <1>13. ASSUME NEW j \in Jobs, ServeRequests(j)
         PROVE  TypeOK'
    <2>1. \E r : /\ requested' = RequestsAfter(r)
                 /\ daemon' = DaemonAfter(r)
                 /\ state' = StateAfter(r, state)
                 /\ timer' = TimerAfter(r, timer)
      BY <1>13 DEF ServeRequests
    <2> QED
      BY <1>13, <2>1 DEF ServeRequests, TypeOK, PCs, States
  <1>14. ASSUME NEW s \in Sessions, Abort(s)
         PROVE  TypeOK'
    BY <1>14 DEF Abort, TypeOK, sessionVars, agentVars, daemonVars
  <1>15. CASE SkipConsolidation
    BY <1>15 DEF SkipConsolidation, TypeOK, jobVars, sessionVars, daemonVars
  <1>16. ASSUME NEW a \in Agents, StartConsolidation(a)
         PROVE  TypeOK'
    BY <1>16, MainAssumption DEF StartConsolidation, TypeOK, jobVars, daemonVars
  <1>17. ASSUME NEW a \in Agents, EndConsolidation(a)
         PROVE  TypeOK'
    <2>1. [state EXCEPT ![Main] = "idle"] \in [Sessions -> States]
      BY DEF TypeOK, States
    <2>2. pc \in [Jobs -> PCs]
      BY DEF TypeOK
    <2>3. /\ pc' \in [Jobs -> PCs] /\ state' \in [Sessions -> States]
          /\ active' \in SUBSET Sessions /\ pending' \in [Sessions -> Seq(Jobs)]
          /\ flushed' \in SUBSET Jobs
      BY <1>17, <2>1, <2>2, MainAssumption, ReleaseEffect DEF EndConsolidation
    <2>4. /\ context' \in [Sessions -> Jobs \cup {None}] /\ timer' \in BOOLEAN
          /\ agent' \in [Agents -> {"off", "running"}]
          /\ failures' \in 0..2
      BY <1>17, MainAssumption DEF EndConsolidation, TypeOK
    <2> QED
      BY <1>17, <2>3, <2>4 DEF EndConsolidation, TypeOK, daemonVars, States
  <1>18. ASSUME Vanish, state' \in [Sessions -> States]
         PROVE  TypeOK'
    <2>1. pc' \in [Jobs -> PCs]
      BY <1>18 DEF Vanish, TypeOK, PCs
    <2>2. pending' \in [Sessions -> Seq(Jobs)] /\ agent' \in [Agents -> {"off", "running"}]
      BY <1>18 DEF Vanish
    <2>3. /\ caller' \in [Jobs -> Jobs \cup {None}]
          /\ controller' \in [Sessions -> Jobs \cup {None}]
          /\ context' \in [Sessions -> Jobs \cup {None}]
      BY <1>18 DEF Vanish
    <2>4. /\ active' \in SUBSET Sessions /\ requested' \in SUBSET {"stop", "reload", "restart"}
          /\ aborted' \in SUBSET Jobs /\ throws' \in SUBSET Jobs
          /\ failures' \in 0..2 /\ timer' \in BOOLEAN
          /\ daemon' \in {"up", "stopping", "restarting", "down"}
      <3>1. /\ active' = {} /\ requested' = {} /\ aborted' = {} /\ throws' = {}
            /\ failures' = 0 /\ timer' = FALSE /\ daemon' = "down"
        BY <1>18, Zenon DEF Vanish
      <3>2. failures' \in 0..2
        BY <3>1
      <3>3. timer' \in BOOLEAN
        BY <3>1, Zenon
      <3> QED
        BY <3>1, <3>2, <3>3, Zenon
    <2>5. /\ kind' = kind /\ sess' = sess /\ chan' = chan /\ flushed' = flushed
          /\ everQueued' = everQueued /\ boots' = boots
      BY <1>18 DEF Vanish
    <2>6. state' \in [Sessions -> {"idle", "running", "error"}]
      BY <1>18 DEF States
    <2> QED
      BY <2>1, <2>2, <2>3, <2>4, <2>5, <2>6 DEF TypeOK
  <1>19. CASE Exit \/ Crash
    BY <1>18, <1>19 DEF Exit, Crash, TypeOK, States
  <1>20. CASE Boot
    <2>1. boots' \in 0..MaxBoots
      BY <1>20, BootsAssumption DEF Boot, TypeOK
    <2>2. state' \in [Sessions -> States]
      BY <1>20 DEF Boot, TypeOK, States
    <2> QED
      BY <1>20, <2>1, <2>2 DEF Boot, TypeOK, jobVars, States
  <1>21. CASE UNCHANGED vars
    BY <1>21 DEF TypeOK, vars, jobVars, sessionVars, agentVars, daemonVars
  <1> QED
    BY <1>1, <1>2, <1>3, <1>4, <1>5, <1>6, <1>7, <1>8, <1>9, <1>10, <1>11, <1>12,
       <1>13, <1>14, <1>15, <1>16, <1>17, <1>19, <1>20, <1>21
    DEF Next, Submit, Step

\* Every variable keeps its type.
THEOREM TypeCorrect == Spec => []TypeOK
  BY TypeInit, TypeNext, PTL DEF Spec

-----------------------------------------------------------------------------
(* Locks and queues.                                                       *)

\* The rest of the invariant is about these variables only.
Locks == CallerOK /\ QueueExact /\ NoStrandedQueue /\ LockHasHolder

\* Where a call holds its session's lock.
LEMMA PCTypes == Holding \subseteq PCs /\ "hooks" \notin Holding /\ "queued" \notin Holding
                 /\ "unborn" \notin Holding /\ "nested" \in Holding
  BY DEF PCs, InFlight, Holding

\* A step that makes no caller and keeps each /new with its startup.
LEMMA CallersKeep ==
  ASSUME LockInv,
         \A n \in Jobs : caller'[n] # None =>
           /\ caller'[n] = caller[n]
           /\ pc'[caller[n]] # "unborn"
           /\ pc'[n] = "unborn" \/ pc'[caller[n]] = "nested"
  PROVE  CallerOK'
  <1>1. CallerOK
    BY DEF LockInv
  <1> QED
    BY <1>1 DEF CallerOK

\* A release that lets only holders of s and jobs that held nothing move keeps
\* queues and locks in order: pcs is pc after the caller's own step.
LEMMA ReleaseLocks ==
  ASSUME LockInv, NEW s \in Sessions,
         NEW pcs \in [Jobs -> PCs], NEW st \in [Sessions -> States],
         Release(s, pcs, st),
         sess' \in [Jobs -> Sessions],
         \A i \in Jobs : pc[i] = "queued" <=> pcs[i] = "queued",
         \A i \in Jobs : pc[i] = "queued" => sess'[i] = sess[i],
         \A i \in Jobs : pc[i] = "hooks" => pcs[i] = "hooks" /\ sess'[i] = sess[i],
         \A i \in Jobs : pc[i] \in Holding /\ sess[i] # s =>
                          pcs[i] \in Holding /\ sess'[i] = sess[i],
         s # Main => agent' = agent,
         \A n \in Jobs : caller'[n] # None =>
           /\ caller'[n] = caller[n]
           /\ pcs[caller[n]] # "unborn"
           /\ pcs[n] = "unborn" \/ pcs[caller[n]] = "nested"
  PROVE  Locks'
  <1> USE PCTypes DEF LockInv
  <1> DEFINE h == Head(pending[s])
  <1>1. pending \in [Sessions -> Seq(Jobs)] /\ pc \in [Jobs -> PCs] /\ sess \in [Jobs -> Sessions]
        /\ active \in SUBSET Sessions
    BY DEF TypeOK
  <1>2. ASSUME pending[s] = <<>>, active' = active \ {s}, pc' = pcs, pending' = pending
        PROVE  /\ QueueExact' /\ NoStrandedQueue' /\ LockHasHolder'
               /\ \A i \in Jobs : \/ pc'[i] = pcs[i]
                                  \/ pc[i] = "queued" /\ pc'[i] \in {"hooks", "capture", "opening"}
    <2>1. QueueExact'
      BY <1>1, <1>2 DEF QueueExact
    <2>2. NoStrandedQueue'
      BY <1>1, <1>2 DEF NoStrandedQueue
    <2>3. LockHasHolder'
      <3> SUFFICES ASSUME NEW r \in active'
                   PROVE  \/ \E j \in Jobs : pc'[j] \in Holding /\ sess'[j] = r
                          \/ r = Main /\ \E a \in Agents : agent'[a] = "running"
        BY DEF LockHasHolder
      <3>1. r \in active /\ r # s
        BY <1>2
      <3>2. ASSUME NEW j \in Jobs, pc[j] \in Holding, sess[j] = r
            PROVE  pc'[j] \in Holding /\ sess'[j] = r
        BY <1>2, <3>1, <3>2
      <3>3. r = Main => agent' = agent
        BY <3>1
      <3> QED
        BY <3>1, <3>2, <3>3 DEF LockHasHolder
    <2> QED
      BY <1>2, <2>1, <2>2, <2>3
  <1>3. ASSUME NEW p \in {"hooks", "capture", "opening"},
               pending[s] # <<>>,
               pc' = [pcs EXCEPT ![h] = p],
               active' = IF p = "hooks" THEN active \ {s} ELSE active \cup {s},
               pending' = [pending EXCEPT ![s] = Tail(@)]
        PROVE  /\ QueueExact' /\ NoStrandedQueue' /\ LockHasHolder'
               /\ \A i \in Jobs : \/ pc'[i] = pcs[i]
                                  \/ pc[i] = "queued" /\ pc'[i] \in {"hooks", "capture", "opening"}
    <2>1. /\ h \in Jobs /\ Waits(h, pending[s]) /\ Once(pending[s])
          /\ Once(Tail(pending[s]))
          /\ \A i \in Jobs : Waits(i, Tail(pending[s])) <=> Waits(i, pending[s]) /\ i # h
      BY <1>1, <1>3, TailQueue DEF QueueExact
    <2>2. pc[h] = "queued" /\ sess[h] = s /\ sess'[h] = s
      BY <2>1 DEF QueueExact
    <2>3. pc'[h] = p /\ \A i \in Jobs \ {h} : pc'[i] = pcs[i]
      BY <1>3, <2>1
    <2>4. pending'[s] = Tail(pending[s]) /\ \A r \in Sessions \ {s} : pending'[r] = pending[r]
      BY <1>1, <1>3
    <2>5. QueueExact'
      <3>1. \A r \in Sessions : Once(pending'[r])
        BY <2>1, <2>4 DEF QueueExact
      <3>2. ASSUME NEW i \in Jobs, NEW r \in Sessions
            PROVE  Waits(i, pending'[r]) <=> pc'[i] = "queued" /\ sess'[i] = r
        <4>1. CASE i = h
          BY <1>3, <2>1, <2>2, <2>3, <2>4, <4>1 DEF QueueExact
        <4>2. CASE i # h
          BY <2>1, <2>3, <2>4, <4>2 DEF QueueExact
        <4> QED
          BY <4>1, <4>2
      <3> QED
        BY <3>1, <3>2 DEF QueueExact
    <2>6. NoStrandedQueue'
      <3> SUFFICES ASSUME NEW r \in Sessions, pending'[r] # <<>>, r \notin active'
                   PROVE  \E j \in Jobs : pc'[j] = "hooks" /\ sess'[j] = r
        BY DEF NoStrandedQueue
      <3>1. CASE r = s
        BY <1>3, <2>1, <2>2, <2>3, <3>1
      <3>2. CASE r # s
        <4>1. PICK j \in Jobs : pc[j] = "hooks" /\ sess[j] = r
          BY <1>3, <2>4, <3>2 DEF NoStrandedQueue
        <4> QED
          BY <2>2, <2>3, <4>1
      <3> QED
        BY <3>1, <3>2
    <2>7. LockHasHolder'
      <3> SUFFICES ASSUME NEW r \in active'
                   PROVE  \/ \E j \in Jobs : pc'[j] \in Holding /\ sess'[j] = r
                          \/ r = Main /\ \E a \in Agents : agent'[a] = "running"
        BY DEF LockHasHolder
      <3>1. CASE r = s
        BY <1>3, <2>1, <2>2, <2>3, <3>1 DEF Holding
      <3>2. CASE r # s
        <4>1. r \in active
          BY <1>3, <3>2
        <4>2. ASSUME NEW j \in Jobs, pc[j] \in Holding, sess[j] = r
              PROVE  pc'[j] \in Holding /\ sess'[j] = r
          BY <2>2, <2>3, <3>2, <4>2
        <4>3. r = Main => agent' = agent
          BY <3>2
        <4> QED
          BY <4>1, <4>2, <4>3 DEF LockHasHolder
      <3> QED
        BY <3>1, <3>2
    <2> QED
      BY <1>3, <2>2, <2>3, <2>5, <2>6, <2>7
  <1>4. /\ QueueExact' /\ NoStrandedQueue' /\ LockHasHolder'
        /\ \A i \in Jobs : \/ pc'[i] = pcs[i]
                           \/ pc[i] = "queued" /\ pc'[i] \in {"hooks", "capture", "opening"}
    <2>1. TypeOK
      BY DEF LockInv
    <2> QED
      BY <2>1, <1>2, <1>3, ReleaseEffect
  <1>5. CallerOK'
    <2>1. \A i \in Jobs : pc'[i] = pcs[i] \/ (pcs[i] = "queued" /\ pc'[i] # "unborn")
      BY <1>4
    <2>2. ASSUME NEW n \in Jobs, caller'[n] # None
          PROVE  /\ pc'[caller[n]] # "unborn"
                 /\ pc'[n] = "unborn" \/ pc'[caller[n]] = "nested"
      <3>1. caller[n] \in Jobs
        BY <2>2 DEF TypeOK
      <3> QED
        BY <2>1, <2>2, <3>1
    <2> QED
      BY <2>2, CallersKeep
  <1> QED
    BY <1>4, <1>5 DEF Locks

\* A holder that moves on but still holds changes nothing.
LEMMA HolderMoves ==
  ASSUME LockInv, NEW j \in Jobs, NEW p \in Holding \ {"nested"},
         pc[j] \in Holding \ {"nested"},
         pc' = [pc EXCEPT ![j] = p],
         UNCHANGED <<sess, caller, active, pending, agent>>
  PROVE  Locks'
  <1> USE PCTypes DEF LockInv
  <1>1. pc \in [Jobs -> PCs] /\ caller \in [Jobs -> Jobs \cup {None}]
    BY DEF TypeOK
  <1>2. pc'[j] = p /\ \A i \in Jobs \ {j} : pc'[i] = pc[i]
    BY <1>1
  <1>3. CallerOK'
    BY <1>1, <1>2 DEF CallerOK
  <1>4. QueueExact'
    BY <1>2 DEF QueueExact
  <1>5. NoStrandedQueue'
    BY <1>2 DEF NoStrandedQueue
  <1>6. LockHasHolder'
    BY <1>2 DEF LockHasHolder
  <1> QED
    BY <1>3, <1>4, <1>5, <1>6 DEF Locks

\* A call leaves "unborn" with no caller; a /new reserves a fresh startup.
LEMMA DescribeCallers ==
  ASSUME LockInv, NEW j \in Jobs, NEW s, NEW k, NEW ch, Describe(j, s, k, ch),
         NEW p, p # "unborn", Fresh(j), pc' = [pc EXCEPT ![j] = p]
  PROVE  CallerOK'
  <1>1. /\ pc \in [Jobs -> PCs] /\ caller \in [Jobs -> Jobs \cup {None}]
        /\ CallerOK /\ pc[j] = "unborn" /\ caller[j] = None
    BY DEF LockInv, TypeOK, Fresh
  <1>2. pc'[j] # "unborn" /\ \A i \in Jobs \ {j} : pc'[i] = pc[i]
    BY <1>1
  <1>3. CASE caller' = caller
    BY <1>1, <1>2, <1>3 DEF CallerOK
  <1>4. ASSUME NEW n \in Jobs \ {j}, Fresh(n), caller' = [caller EXCEPT ![n] = j]
        PROVE  CallerOK'
    <2>1. /\ caller'[n] = j /\ pc'[n] = "unborn"
          /\ \A m \in Jobs \ {n} : caller'[m] = caller[m] /\ caller[m] # j
      BY <1>1, <1>2, <1>4, NoneAssumption DEF Fresh, CallerOK
    <2>2. ASSUME NEW m \in Jobs, caller'[m] # None
          PROVE  /\ m # caller'[m]
                 /\ pc'[caller'[m]] # "unborn"
                 /\ pc'[m] = "unborn" \/ pc'[caller'[m]] = "nested"
                 /\ \A i \in Jobs : caller'[i] = caller'[m] => i = m
      <3>1. CASE m = n
        BY <1>2, <2>1, <3>1
      <3>2. CASE m # n
        <4>1. caller'[m] = caller[m] /\ caller[m] \in Jobs \ {j}
          BY <1>1, <2>1, <2>2, <3>2
        <4>2. m # j
          BY <1>1, <2>2, <4>1
        <4> QED
          BY <1>1, <1>2, <2>1, <2>2, <4>1, <4>2 DEF CallerOK
      <3> QED
        BY <3>1, <3>2
    <2> QED
      BY <2>2 DEF CallerOK
  <1> QED
    BY <1>3, <1>4 DEF Describe

\* Locks and queues, initially.
LEMMA LockInit == Init => LockInv
  <1> SUFFICES ASSUME Init PROVE Locks
    BY TypeInit DEF LockInv, Locks
  <1>1. CallerOK
    BY DEF Init, CallerOK
  <1>2. QueueExact
    <2>1. ASSUME NEW s \in Sessions PROVE pending[s] = <<>> /\ DOMAIN pending[s] = {}
      BY DEF Init
    <2> QED
      BY <2>1 DEF Init, QueueExact, Once, Waits
  <1>3. NoStrandedQueue /\ LockHasHolder
    BY DEF Init, NoStrandedQueue, LockHasHolder
  <1> QED
    BY <1>1, <1>2, <1>3 DEF Locks

\* Locks and queues, step by step.
LEMMA LockNext == LockInv /\ [Next]_vars => LockInv'
  <1> SUFFICES ASSUME LockInv, [Next]_vars PROVE Locks'
    BY TypeNext DEF LockInv, Locks
  <1> USE PCTypes DEF Locks
  <1>0. /\ pc \in [Jobs -> PCs] /\ caller \in [Jobs -> Jobs \cup {None}]
        /\ sess \in [Jobs -> Sessions] /\ active \in SUBSET Sessions
        /\ pending \in [Sessions -> Seq(Jobs)] /\ agent \in [Agents -> {"off", "running"}]
        /\ state \in [Sessions -> States]
        /\ CallerOK /\ QueueExact /\ NoStrandedQueue /\ LockHasHolder
    BY DEF LockInv, TypeOK, States
  \* An action that changes none of the variables of Locks.
  <1>u. ASSUME UNCHANGED <<pc, sess, caller, active, pending>>, agent' = agent
        PROVE  Locks'
    BY <1>0, <1>u DEF CallerOK, QueueExact, NoStrandedQueue, LockHasHolder
  <1>1. ASSUME NEW j \in Jobs, NEW s \in Sessions, NEW k \in Kinds \ {"startup"},
               NEW ch \in Channels, SubmitBusy(j, s, k, ch)
        PROVE  Locks'
    <2>1. /\ pc[j] = "unborn" /\ caller[j] = None /\ s \in active
          /\ pc' = [pc EXCEPT ![j] = "queued"] /\ sess' = [sess EXCEPT ![j] = s]
          /\ pending' = [pending EXCEPT ![s] = Append(@, j)]
          /\ active' = active /\ agent' = agent
      BY <1>1 DEF SubmitBusy, Describe, Fresh, Enqueue
    <2>2. CallerOK'
      BY <1>1, <2>1, DescribeCallers DEF SubmitBusy, Fresh
    <2>3. QueueExact'
      <3>1. ~Waits(j, pending[s])
        BY <1>0, <2>1 DEF QueueExact
      <3>2. /\ \A i \in Jobs : Waits(i, pending'[s]) <=> Waits(i, pending[s]) \/ i = j
            /\ Once(pending'[s])
        BY <1>0, <2>1, <3>1, AppendQueue DEF QueueExact
      <3>3. \A r \in Sessions \ {s} : pending'[r] = pending[r]
        BY <1>0, <2>1
      <3>4. ASSUME NEW i \in Jobs, NEW r \in Sessions
            PROVE  Waits(i, pending'[r]) <=> pc'[i] = "queued" /\ sess'[i] = r
        BY <1>0, <2>1, <3>2, <3>3 DEF QueueExact
      <3>5. \A r \in Sessions : Once(pending'[r])
        BY <1>0, <3>2, <3>3 DEF QueueExact
      <3> QED
        BY <3>4, <3>5 DEF QueueExact
    <2>4. NoStrandedQueue'
      BY <1>0, <2>1 DEF NoStrandedQueue
    <2>5. LockHasHolder'
      BY <1>0, <2>1 DEF LockHasHolder
    <2> QED
      BY <2>2, <2>3, <2>4, <2>5
  <1>2. ASSUME NEW j \in Jobs, NEW s \in Sessions, NEW k \in Kinds \ {"startup"},
               NEW ch \in Channels, SubmitFree(j, s, k, ch)
        PROVE  Locks'
    <2>1. /\ pc[j] = "unborn" /\ caller[j] = None
          /\ sess' = [sess EXCEPT ![j] = s] /\ pending' = pending /\ agent' = agent
          /\ active' = active \cup {s}
      BY <1>2 DEF SubmitFree, Describe, Fresh, LockOnStart
    <2>2. PICK p \in {"capture", "opening"} : pc' = [pc EXCEPT ![j] = p]
      BY <1>2, FirstAwaitKinds DEF SubmitFree
    <2>3. CallerOK'
      BY <1>2, <2>1, <2>2, DescribeCallers DEF SubmitFree, Fresh
    <2>4. QueueExact'
      BY <1>0, <2>1, <2>2 DEF QueueExact
    <2>5. NoStrandedQueue'
      BY <1>0, <2>1, <2>2 DEF NoStrandedQueue
    <2>6. LockHasHolder'
      <3>1. pc'[j] \in Holding /\ sess'[j] = s
        BY <1>0, <2>1, <2>2 DEF Holding
      <3>2. \A i \in Jobs \ {j} : pc'[i] = pc[i] /\ sess'[i] = sess[i]
        BY <1>0, <2>1, <2>2
      <3>3. \A i \in Jobs : pc[i] \in Holding => pc'[i] \in Holding /\ sess'[i] = sess[i]
        BY <2>1, <3>2
      <3> QED
        BY <1>0, <2>1, <3>1, <3>3 DEF LockHasHolder
    <2> QED
      BY <2>3, <2>4, <2>5, <2>6
  <1>3. ASSUME NEW j \in Jobs, NEW s \in Sessions, SubmitStartup(j, s)
        PROVE  Locks'
    <2>1. /\ pc[j] = "unborn" /\ caller[j] = None
          /\ pc' = [pc EXCEPT ![j] = "hooks"] /\ sess' = [sess EXCEPT ![j] = s]
          /\ pending' = pending /\ agent' = agent /\ active' = active /\ caller' = caller
      BY <1>3 DEF SubmitStartup, Describe, Fresh
    <2>2. CallerOK'
      BY <1>0, <2>1 DEF CallerOK
    <2>3. QueueExact'
      BY <1>0, <2>1 DEF QueueExact
    <2>4. NoStrandedQueue'
      BY <1>0, <2>1 DEF NoStrandedQueue
    <2>5. LockHasHolder'
      BY <1>0, <2>1 DEF LockHasHolder
    <2> QED
      BY <2>2, <2>3, <2>4, <2>5
  <1>4. ASSUME NEW j \in Jobs, RequestEffect(j)
        PROVE  Locks'
    BY <1>4, <1>u DEF RequestEffect, jobVars, sessionVars, agentVars
  <1>5. ASSUME NEW j \in Jobs, HooksDoneFree(j)
        PROVE  Locks'
    <2>1. /\ pc[j] = "hooks"
          /\ pc' = [pc EXCEPT ![j] = "opening"]
          /\ active' = active \cup {sess[j]}
          /\ UNCHANGED <<sess, caller, pending>> /\ agent' = agent
      BY <1>5 DEF HooksDoneFree, agentVars
    <2>2. CallerOK'
      BY <1>0, <2>1 DEF CallerOK
    <2>3. QueueExact'
      BY <1>0, <2>1 DEF QueueExact
    <2>4. NoStrandedQueue'
      BY <1>0, <2>1 DEF NoStrandedQueue
    <2>5. LockHasHolder'
      BY <1>0, <2>1 DEF LockHasHolder, Holding
    <2> QED
      BY <2>2, <2>3, <2>4, <2>5
  <1>6. ASSUME NEW j \in Jobs, HooksDoneBusy(j)
        PROVE  Locks'
    <2> DEFINE s == sess[j]
               c == caller[j]
    <2>1. /\ pc[j] = "hooks" /\ s \in active /\ s \in Sessions
          /\ pc' = Resumed(j, [pc EXCEPT ![j] = "queued"], "ending")
          /\ caller' = [caller EXCEPT ![j] = None]
          /\ pending' = [pending EXCEPT ![s] = Append(@, j)]
          /\ active' = active /\ sess' = sess /\ agent' = agent
      BY <1>0, <1>6 DEF HooksDoneBusy, Enqueue
    <2>2. c # None => c \in Jobs /\ c # j /\ pc[c] = "nested"
      BY <1>0, <2>1 DEF CallerOK
    <2>3. /\ pc'[j] = "queued"
          /\ \A i \in Jobs \ {j} : pc'[i] = IF i = c THEN "ending" ELSE pc[i]
      BY <1>0, <2>1, <2>2, NoneAssumption DEF Resumed
    <2> HIDE DEF s, c
    <2>4. CallerOK'
      <3>1. ASSUME NEW n \in Jobs, caller'[n] # None
            PROVE  n # j /\ caller'[n] = caller[n] /\ caller[n] # c
        BY <1>0, <2>1, <3>1 DEF CallerOK, c
      <3>2. ASSUME NEW n \in Jobs, caller'[n] # None
            PROVE  /\ pc'[caller[n]] # "unborn"
                   /\ pc'[n] = "unborn" \/ pc'[caller[n]] = "nested"
        <4>1. caller[n] \in Jobs /\ n # j /\ caller[n] # c
          BY <1>0, <3>1, <3>2
        <4>2. pc[caller[n]] # "unborn" /\ (pc[n] = "unborn" \/ pc[caller[n]] = "nested")
          BY <1>0, <3>1, <3>2 DEF CallerOK
        <4> QED
          BY <2>1, <2>2, <2>3, <4>1, <4>2, NoneAssumption
      <3> QED
        BY <3>1, <3>2, CallersKeep
    <2>5. QueueExact'
      <3>1. ~Waits(j, pending[s])
        BY <1>0, <2>1 DEF QueueExact
      <3>2. /\ \A i \in Jobs : Waits(i, pending'[s]) <=> Waits(i, pending[s]) \/ i = j
            /\ Once(pending'[s])
        BY <1>0, <2>1, <3>1, AppendQueue DEF QueueExact
      <3>3. \A r \in Sessions \ {s} : pending'[r] = pending[r]
        BY <1>0, <2>1
      <3>4. ASSUME NEW i \in Jobs, NEW r \in Sessions
            PROVE  Waits(i, pending'[r]) <=> pc'[i] = "queued" /\ sess'[i] = r
        <4>1. i # j => (pc'[i] = "queued" <=> pc[i] = "queued")
          BY <2>2, <2>3, NoneAssumption
        <4>2. CASE i = j
          <5>1. ~Waits(j, pending[r])  /\ sess'[j] = s
            BY <1>0, <2>1 DEF QueueExact, s
          <5> QED
            BY <2>3, <3>2, <3>3, <4>2, <5>1
        <4>3. CASE i # j
          <5>1. Waits(i, pending'[r]) <=> Waits(i, pending[r])
            BY <3>2, <3>3, <4>3
          <5> QED
            BY <1>0, <2>1, <4>1, <4>3, <5>1 DEF QueueExact
        <4> QED
          BY <4>2, <4>3
      <3>5. \A r \in Sessions : Once(pending'[r])
        BY <1>0, <3>2, <3>3 DEF QueueExact
      <3> QED
        BY <3>4, <3>5 DEF QueueExact
    <2>6. NoStrandedQueue'
      <3> SUFFICES ASSUME NEW r \in Sessions, pending'[r] # <<>>, r \notin active'
                   PROVE  \E i \in Jobs : pc'[i] = "hooks" /\ sess'[i] = r
        BY DEF NoStrandedQueue
      <3>1. r # s /\ pending'[r] = pending[r] /\ r \notin active
        BY <1>0, <2>1
      <3>2. PICK i \in Jobs : pc[i] = "hooks" /\ sess[i] = r
        BY <1>0, <3>1 DEF NoStrandedQueue
      <3>3. i # j
        BY <3>1, <3>2 DEF s
      <3> QED
        BY <2>1, <2>2, <2>3, <3>2, <3>3, NoneAssumption
    <2>7. LockHasHolder'
      BY <1>0, <2>1, <2>2, <2>3 DEF LockHasHolder, Holding
    <2> QED
      BY <2>4, <2>5, <2>6, <2>7
  <1>7. ASSUME NEW j \in Jobs, CaptureDone(j)
        PROVE  Locks'
    BY <1>7, HolderMoves DEF CaptureDone, Holding, agentVars
  <1>8. ASSUME NEW j \in Jobs, BeginTurn(j)
        PROVE  Locks'
    BY <1>8, HolderMoves DEF BeginTurn, Holding, agentVars
  <1>9. ASSUME NEW j \in Jobs, EndTurn(j)
        PROVE  Locks'
    BY <1>9, HolderMoves DEF EndTurn, Holding, agentVars
  <1>10. ASSUME NEW j \in Jobs, ResetSession(j)
         PROVE  Locks'
    <2> DEFINE s == sess[j]
    <2>1. pc[j] = "turn" /\ caller' = caller /\ agent' = agent
      BY <1>10 DEF ResetSession
    <2>2. PICK n \in Jobs :
            /\ caller[n] = j
            /\ Release(s, [pc EXCEPT ![j] = "nested", ![n] = "hooks"], state)
            /\ sess' = [sess EXCEPT ![n] = s]
      BY <1>10 DEF ResetSession
    <2> DEFINE pcs == [pc EXCEPT ![j] = "nested", ![n] = "hooks"]
    <2>3. n # j /\ pc[n] = "unborn" /\ \A m \in Jobs : caller[m] = j => m = n
      BY <1>0, <2>1, <2>2, NoneAssumption DEF CallerOK
    <2>4. /\ pcs \in [Jobs -> PCs] /\ pcs[j] = "nested" /\ pcs[n] = "hooks"
          /\ \A i \in Jobs \ {j, n} : pcs[i] = pc[i]
      BY <1>0, <2>3 DEF PCs, InFlight, Holding
    <2>5. /\ sess' \in [Jobs -> Sessions] /\ sess'[n] = s
          /\ \A i \in Jobs \ {n} : sess'[i] = sess[i]
      BY <1>0, <2>2
    <2> HIDE DEF pcs
    <2>6. /\ \A i \in Jobs : pc[i] = "queued" <=> pcs[i] = "queued"
          /\ \A i \in Jobs : pc[i] = "queued" => sess'[i] = sess[i]
          /\ \A i \in Jobs : pc[i] = "hooks" => pcs[i] = "hooks" /\ sess'[i] = sess[i]
          /\ \A i \in Jobs : pc[i] \in Holding /\ sess[i] # s =>
                             pcs[i] \in Holding /\ sess'[i] = sess[i]
      BY <2>1, <2>3, <2>4, <2>5
    <2>7. ASSUME NEW m \in Jobs, caller'[m] # None
          PROVE  /\ caller'[m] = caller[m]
                 /\ pcs[caller[m]] # "unborn"
                 /\ pcs[m] = "unborn" \/ pcs[caller[m]] = "nested"
      <3>1. /\ caller[m] \in Jobs /\ caller[m] # n
            /\ caller[m] = j => m = n
        BY <1>0, <2>1, <2>3, <2>7 DEF CallerOK
      <3>2. m # j \/ pc[caller[m]] = "nested"
        BY <1>0, <2>1, <2>7 DEF CallerOK
      <3> QED
        BY <1>0, <2>1, <2>2, <2>3, <2>4, <2>7, <3>1, <3>2 DEF CallerOK
    <2>8. Release(s, pcs, state) /\ s \in Sessions
      BY <1>0, <2>2 DEF pcs
    <2>9. agent' = agent /\ sess' \in [Jobs -> Sessions]
          /\ pcs \in [Jobs -> PCs] /\ state \in [Sessions -> States]
      BY <1>0, <2>1, <2>4, <2>5
    <2> HIDE DEF s
    <2> QED
      BY <2>6, <2>7, <2>8, <2>9, ReleaseLocks
  <1>11. ASSUME NEW j \in Jobs, LeaveTurn(j)
         PROVE  Locks'
    <2>1. pc[j] = "ending" /\ UNCHANGED <<caller, sess>> /\ agent' = agent
      BY <1>11 DEF LeaveTurn
    <2>2. CASE kind[j] = "startup"
      BY <1>11, <2>1, <2>2, HolderMoves DEF LeaveTurn, Holding
    <2>3. CASE kind[j] # "startup"
      <3> DEFINE s == sess[j]
                 pcs == [pc EXCEPT ![j] = "closing"]
      <3>1. Release(s, pcs, state) /\ s \in Sessions
        BY <1>0, <1>11, <2>3 DEF LeaveTurn
      <3>2. /\ pcs \in [Jobs -> PCs] /\ pcs[j] = "closing"
            /\ \A i \in Jobs \ {j} : pcs[i] = pc[i]
        BY <1>0 DEF PCs, InFlight, Holding
      <3>3. /\ \A i \in Jobs : pc[i] = "queued" <=> pcs[i] = "queued"
            /\ \A i \in Jobs : pc[i] = "queued" => sess'[i] = sess[i]
            /\ \A i \in Jobs : pc[i] = "hooks" => pcs[i] = "hooks" /\ sess'[i] = sess[i]
            /\ \A i \in Jobs : pc[i] \in Holding /\ sess[i] # s =>
                               pcs[i] \in Holding /\ sess'[i] = sess[i]
        BY <2>1, <3>2
      <3>4. ASSUME NEW m \in Jobs, caller'[m] # None
            PROVE  /\ caller'[m] = caller[m]
                   /\ pcs[caller[m]] # "unborn"
                   /\ pcs[m] = "unborn" \/ pcs[caller[m]] = "nested"
        BY <1>0, <2>1, <3>2, <3>4 DEF CallerOK
      <3> HIDE DEF pcs, s
      <3>5. agent' = agent /\ sess' \in [Jobs -> Sessions]
            /\ pcs \in [Jobs -> PCs] /\ state \in [Sessions -> States]
        BY <1>0, <2>1, <3>2
      <3> QED
        BY <3>1, <3>3, <3>4, <3>5, ReleaseLocks
    <2> QED
      BY <2>2, <2>3
  <1>12. ASSUME NEW j \in Jobs, Close(j)
         PROVE  Locks'
    <2> DEFINE p == IF HasContinuation(j) THEN "settled" ELSE "done"
               q == IF j \in throws THEN "failing" ELSE "ending"
               pcs == Resumed(j, [pc EXCEPT ![j] = p], q)
               s == sess[j]
               c == caller[j]
    <2>1. /\ pc[j] = "closing" /\ sess' = sess /\ agent' = agent
          /\ caller' = [caller EXCEPT ![j] = None]
          /\ Release(s, pcs, state) /\ s \in Sessions
      BY <1>0, <1>12 DEF Close
    <2>2. c # None => c \in Jobs /\ c # j /\ pc[c] = "nested"
      BY <1>0, <2>1 DEF CallerOK
    <2>3. /\ pcs \in [Jobs -> PCs] /\ pcs[j] \in {"settled", "done"}
          /\ \A i \in Jobs \ {j} : \/ i # c /\ pcs[i] = pc[i]
                                   \/ i = c /\ pcs[i] \in {"failing", "ending"}
      BY <1>0, <2>2, NoneAssumption DEF Resumed, PCs, InFlight, Holding
    <2> HIDE DEF pcs, s
    <2>4. /\ \A i \in Jobs : pc[i] = "queued" <=> pcs[i] = "queued"
          /\ \A i \in Jobs : pc[i] = "hooks" => pcs[i] = "hooks"
          /\ \A i \in Jobs : pc[i] \in Holding /\ sess[i] # s => pcs[i] \in Holding
      <3>1. {"failing", "ending"} \subseteq Holding
        BY DEF Holding
      <3> QED
        BY <2>1, <2>2, <2>3, <3>1, NoneAssumption DEF s
    <2>5. ASSUME NEW m \in Jobs, caller'[m] # None
          PROVE  /\ caller'[m] = caller[m]
                 /\ pcs[caller[m]] # "unborn"
                 /\ pcs[m] = "unborn" \/ pcs[caller[m]] = "nested"
      <3>1. m # j /\ caller'[m] = caller[m] /\ caller[m] # c /\ caller[m] \in Jobs
        BY <1>0, <2>1, <2>5, NoneAssumption DEF CallerOK
      <3>2. pc[caller[m]] # "unborn" /\ (pc[m] = "unborn" \/ pc[caller[m]] = "nested")
        BY <1>0, <2>5, <3>1 DEF CallerOK
      <3>3. m # c \/ pc[caller[m]] = "nested"
        BY <2>2, <3>1, <3>2, NoneAssumption
      <3>4. caller[m] # j \/ m # c
        BY <2>1, <2>2, <3>2, NoneAssumption
      <3> QED
        BY <2>1, <2>3, <3>1, <3>2, <3>3, <3>4
    <2>6. agent' = agent /\ sess' \in [Jobs -> Sessions]
          /\ pcs \in [Jobs -> PCs] /\ state \in [Sessions -> States]
      BY <1>0, <2>1, <2>3
    <2>7. \A i \in Jobs : sess'[i] = sess[i]
      BY <2>1
    <2>8. Release(s, pcs, state) /\ s \in Sessions
      BY <2>1
    <2> QED
      BY <2>4, <2>5, <2>6, <2>7, <2>8, ReleaseLocks
  <1>13. ASSUME NEW j \in Jobs, ServeRequests(j)
         PROVE  Locks'
    <2>1. /\ pc[j] = "settled"
          /\ pc' = [pc EXCEPT ![j] = "done"]
          /\ UNCHANGED <<sess, caller, active, pending>> /\ agent' = agent
      BY <1>13 DEF ServeRequests
    <2>2. CallerOK'
      BY <1>0, <2>1 DEF CallerOK
    <2>3. QueueExact'
      BY <1>0, <2>1 DEF QueueExact
    <2>4. NoStrandedQueue'
      BY <1>0, <2>1 DEF NoStrandedQueue
    <2>5. LockHasHolder'
      BY <1>0, <2>1 DEF LockHasHolder, Holding
    <2> QED
      BY <2>2, <2>3, <2>4, <2>5
  <1>14. ASSUME NEW s \in Sessions, Abort(s)
         PROVE  Locks'
    BY <1>14, <1>u DEF Abort, sessionVars, agentVars
  <1>15. CASE SkipConsolidation
    BY <1>15, <1>u DEF SkipConsolidation, jobVars, sessionVars
  <1>16. ASSUME NEW a \in Agents, StartConsolidation(a)
         PROVE  Locks'
    <2>1. /\ UNCHANGED <<pc, sess, caller, pending>>
          /\ active' = active \cup {Main}
          /\ agent' = [agent EXCEPT ![a] = "running"]
      BY <1>16 DEF StartConsolidation, jobVars
    <2>2. CallerOK' /\ QueueExact' /\ NoStrandedQueue'
      BY <1>0, <2>1 DEF CallerOK, QueueExact, NoStrandedQueue
    <2>3. LockHasHolder'
      BY <1>0, <2>1 DEF LockHasHolder
    <2> QED
      BY <2>2, <2>3
  <1>17. ASSUME NEW a \in Agents, EndConsolidation(a)
         PROVE  Locks'
    <2>1. /\ Release(Main, pc, [state EXCEPT ![Main] = "idle"])
          /\ UNCHANGED <<sess, caller>>
      BY <1>17 DEF EndConsolidation
    <2>2. Main \in Sessions /\ [state EXCEPT ![Main] = "idle"] \in [Sessions -> States]
      BY <1>0, MainAssumption DEF States
    <2>3. ASSUME NEW m \in Jobs, caller'[m] # None
          PROVE  /\ caller'[m] = caller[m]
                 /\ pc[caller[m]] # "unborn"
                 /\ pc[m] = "unborn" \/ pc[caller[m]] = "nested"
      BY <1>0, <2>1, <2>3 DEF CallerOK
    <2> QED
      BY <1>0, <2>1, <2>2, <2>3, ReleaseLocks
  <1>18. CASE Exit \/ Crash
    <2>1. Vanish
      BY <1>18 DEF Exit, Crash
    <2>2. /\ caller' = [j \in Jobs |-> None] /\ active' = {}
          /\ pending' = [s \in Sessions |-> <<>>]
          /\ \A j \in Jobs : pc'[j] # "queued"
      <3>1. pc' = [j \in Jobs |-> IF pc[j] \in {"unborn", "done"} THEN pc[j] ELSE "lost"]
        BY <2>1 DEF Vanish
      <3> QED
        BY <2>1, <3>1 DEF Vanish
    <2>3. \A s \in Sessions : pending'[s] = <<>> /\ DOMAIN pending'[s] = {}
      BY <2>2
    <2>4. CallerOK' /\ NoStrandedQueue' /\ LockHasHolder'
      BY <2>2, <2>3 DEF CallerOK, NoStrandedQueue, LockHasHolder
    <2>5. QueueExact'
      BY <2>2, <2>3 DEF QueueExact, Once, Waits
    <2> QED
      BY <2>4, <2>5
  <1>19. CASE Boot
    BY <1>19, <1>u DEF Boot, jobVars
  <1>20. CASE UNCHANGED vars
    BY <1>20, <1>u DEF vars, jobVars, sessionVars, agentVars
  <1> QED
    BY <1>1, <1>2, <1>3, <1>4, <1>5, <1>6, <1>7, <1>8, <1>9, <1>10, <1>11, <1>12,
       <1>13, <1>14, <1>15, <1>16, <1>17, <1>18, <1>19, <1>20
    DEF Next, Submit, Step

\* The invariant of the locks and the queues, of which the next three are parts.
THEOREM LocksAndQueues == Spec => []LockInv
  BY LockInit, LockNext, PTL DEF Spec

\* No input is lost from the queue of its session, nor started twice.
THEOREM QueueCorrect == Spec => []QueueExact
  BY LocksAndQueues, PTL DEF LockInv

\* Nobody waits in the queue of a session without a turn to come that flushes it.
THEOREM NobodyStranded == Spec => []NoStrandedQueue
  BY LocksAndQueues, PTL DEF LockInv

\* Every lock has a holder whose finally block releases it.
THEOREM NoLeakedLock == Spec => []LockHasHolder
  BY LocksAndQueues, PTL DEF LockInv

-----------------------------------------------------------------------------
(* What is kept of the turns.                                              *)

\* Where a call stands that is going to set the state of its session.
Setters == {"hooks", "capture", "opening", "turn", "failing"}

\* RunningIsLive by itself is not inductive: a session persisted as running has
\* a call that will set the state, an input in its queue, or the MemoryAgent.
RunningIsSet ==
  \A s \in Sessions :
    state[s] = "running" /\ daemon # "down" =>
      \/ \E j \in Jobs : pc[j] \in Setters /\ sess[j] = s
      \/ pending[s] # <<>>
      \/ s = Main /\ \E a \in Agents : agent[a] = "running"

\* Where a call keeps the main session from its rest.
Occupied == Holding \cup {"hooks", "queued"}

\* IdleArmed with the calls that have only their continuation left: it is the
\* release, not the continuation, that arms the timer.
RestArmed ==
  (/\ \A j \in Jobs : sess[j] = Main /\ pc[j] \notin Occupied
   /\ \A a \in Agents : agent[a] = "off"
   /\ daemon = "up" /\ failures < 2) => timer

KeptInv == RunningIsSet /\ ControllerLive /\ RestArmed

\* What a release does to the session it releases, to the others, and to the
\* calls: it starts at most one, which waited in that session.
LEMMA ReleaseOf ==
  ASSUME LockInv, NEW s \in Sessions,
         NEW pcs \in [Jobs -> PCs], NEW st \in [Sessions -> States],
         \A i \in Jobs : pc[i] = "queued" => pcs[i] = "queued",
         Release(s, pcs, st)
  PROVE  /\ \A i \in Jobs : \/ pc'[i] = pcs[i]
                            \/ /\ pc[i] = "queued" /\ sess[i] = s
                               /\ pc'[i] \in {"hooks", "capture", "opening"}
         /\ \A r \in Sessions \ {s} :
              (r \in active' <=> r \in active) /\ pending'[r] = pending[r] /\ state'[r] = st[r]
         /\ pending[s] = <<>> =>
              pc' = pcs /\ active' = active \ {s} /\ pending' = pending /\ state' = st
         /\ pending[s] # <<>> =>
              \E i \in Jobs : /\ pc[i] = "queued" /\ sess[i] = s
                              /\ pc'[i] \in {"hooks", "capture", "opening"}
  <1> DEFINE h == Head(pending[s])
  <1>1. pending[s] \in Seq(Jobs) /\ TypeOK /\ QueueExact /\ pending \in [Sessions -> Seq(Jobs)]
    BY DEF LockInv, TypeOK
  <1>2. CASE pending[s] = <<>>
    BY <1>1, <1>2 DEF Release
  <1>3. CASE pending[s] # <<>>
    <2>1. h \in Jobs /\ Waits(h, pending[s])
      BY <1>1, <1>3, TailQueue DEF QueueExact
    <2>2. pc[h] = "queued" /\ sess[h] = s
      BY <1>1, <2>1 DEF QueueExact
    <2>3. PICK p \in FirstAwait(kind[h]) :
            pc' = [pcs EXCEPT ![h] = p] /\ state' = MarkRunning(st, s, p)
      BY <1>3 DEF Release
    <2>4. p \in {"hooks", "capture", "opening"}
      BY <2>3, FirstAwaitKinds
    <2>5. /\ pending' = [pending EXCEPT ![s] = Tail(@)]
          /\ active' = LockOnStart(kind[h], active, s)
      BY <1>3 DEF Release
    <2>6. \A r \in Sessions \ {s} :
            (r \in active' <=> r \in active) /\ pending'[r] = pending[r] /\ state'[r] = st[r]
      BY <1>1, <2>3, <2>5 DEF LockOnStart, MarkRunning
    <2>7. pc'[h] = p /\ \A i \in Jobs \ {h} : pc'[i] = pcs[i]
      BY <2>1, <2>3
    <2> QED
      BY <1>3, <2>1, <2>2, <2>4, <2>6, <2>7
  <1> QED
    BY <1>2, <1>3
\* The controller of a session is that of a call in its turn.
LEMMA ControllerNext == LockInv /\ ControllerLive /\ [Next]_vars => ControllerLive'
  <1> DEFINE Live == {"turn", "nested", "failing", "ending"}
  <1> SUFFICES ASSUME LockInv, ControllerLive, [Next]_vars PROVE ControllerLive'
    OBVIOUS
  <1>0. /\ pc \in [Jobs -> PCs] /\ caller \in [Jobs -> Jobs \cup {None}]
        /\ sess \in [Jobs -> Sessions] /\ state \in [Sessions -> States]
        /\ controller \in [Sessions -> Jobs \cup {None}] /\ CallerOK
    BY DEF LockInv, TypeOK, States
  \* No call in its turn leaves it, and no controller is registered.
  <1>k. ASSUME \A s \in Sessions : controller'[s] = controller[s] \/ controller'[s] = None,
               \A i \in Jobs : pc[i] \in Live => pc'[i] \in Live /\ sess'[i] = sess[i]
        PROVE  ControllerLive'
    BY <1>0, <1>k, NoneAssumption DEF ControllerLive
  <1>1. ASSUME NEW j \in Jobs, Submit(j)
        PROVE  ControllerLive'
    <2>1. /\ controller' = controller /\ pc[j] = "unborn"
          /\ \E p \in PCs : pc' = [pc EXCEPT ![j] = p]
          /\ \E s \in Sessions : sess' = [sess EXCEPT ![j] = s]
      <3>1. \A k : FirstAwait(k) \subseteq PCs
        BY FirstAwaitKinds DEF PCs, InFlight, Holding
      <3> QED
        BY <1>1, <3>1 DEF Submit, SubmitBusy, SubmitFree, SubmitStartup, Describe, Fresh, PCs, InFlight
    <2> QED
      BY <1>0, <1>k, <2>1
  <1>2. ASSUME NEW j \in Jobs, HooksDoneBusy(j)
        PROVE  ControllerLive'
    <2>1. /\ controller' = controller /\ sess' = sess /\ pc[j] = "hooks"
          /\ pc' = Resumed(j, [pc EXCEPT ![j] = "queued"], "ending")
      BY <1>2 DEF HooksDoneBusy
    <2> QED
      BY <1>0, <1>k, <2>1 DEF Resumed
  <1>3. ASSUME NEW j \in Jobs, HooksDoneFree(j) \/ CaptureDone(j) \/ ServeRequests(j)
        PROVE  ControllerLive'
    <2>1. /\ controller' = controller /\ sess' = sess
          /\ pc[j] \in {"hooks", "capture", "settled"}
          /\ \E p : pc' = [pc EXCEPT ![j] = p]
      BY <1>3 DEF HooksDoneFree, CaptureDone, ServeRequests
    <2> QED
      BY <1>0, <1>k, <2>1
  <1>4. ASSUME NEW j \in Jobs, EndTurn(j)
        PROVE  ControllerLive'
    <2>1. /\ controller' = controller /\ sess' = sess
          /\ pc' = [pc EXCEPT ![j] = "ending"]
      BY <1>4 DEF EndTurn
    <2> QED
      BY <1>0, <1>k, <2>1
  <1>5. ASSUME NEW j \in Jobs, BeginTurn(j)
        PROVE  ControllerLive'
    <2>1. /\ controller' = [controller EXCEPT ![sess[j]] = j] /\ sess' = sess
          /\ pc' = [pc EXCEPT ![j] = "turn"]
      BY <1>5 DEF BeginTurn
    <2> QED
      BY <1>0, <2>1 DEF ControllerLive
  <1>6. ASSUME NEW j \in Jobs, ResetSession(j)
        PROVE  ControllerLive'
    <2>1. controller' = controller /\ pc[j] = "turn"
      BY <1>6 DEF ResetSession
    <2>2. PICK n \in Jobs :
            /\ caller[n] = j
            /\ Release(sess[j], [pc EXCEPT ![j] = "nested", ![n] = "hooks"], state)
            /\ sess' = [sess EXCEPT ![n] = sess[j]]
      BY <1>6 DEF ResetSession
    <2> DEFINE pcs == [pc EXCEPT ![j] = "nested", ![n] = "hooks"]
    <2>3. n # j /\ pc[n] = "unborn"
      BY <1>0, <2>1, <2>2, NoneAssumption DEF CallerOK
    <2>4. /\ pcs \in [Jobs -> PCs] /\ pcs[j] = "nested"
          /\ \A i \in Jobs \ {j, n} : pcs[i] = pc[i]
      BY <1>0, <2>3 DEF PCs, InFlight, Holding
    <2> HIDE DEF pcs
    <2>5. \A i \in Jobs : pc'[i] = pcs[i] \/ pc[i] = "queued"
      <3>1. Release(sess[j], pcs, state) /\ sess[j] \in Sessions
        BY <1>0, <2>2 DEF pcs
      <3>2. \A i \in Jobs : pc[i] = "queued" => pcs[i] = "queued"
        BY <2>1, <2>3, <2>4
      <3> QED
        BY <1>0, <2>4, <3>1, <3>2, ReleaseOf
    <2> QED
      BY <1>0, <1>k, <2>1, <2>2, <2>3, <2>4, <2>5
  <1>7. ASSUME NEW j \in Jobs, LeaveTurn(j)
        PROVE  ControllerLive'
    <2> DEFINE pcs == [pc EXCEPT ![j] = "closing"]
    <2>1. /\ controller' = [controller EXCEPT ![sess[j]] = None]
          /\ sess' = sess /\ pc[j] = "ending"
      BY <1>7 DEF LeaveTurn, ForgetController
    <2>2. pcs \in [Jobs -> PCs] /\ \A i \in Jobs \ {j} : pcs[i] = pc[i]
      BY <1>0 DEF PCs, InFlight, Holding
    <2>3. pc' = pcs \/ Release(sess[j], pcs, state)
      BY <1>7 DEF LeaveTurn
    <2> HIDE DEF pcs
    <2>4. \A i \in Jobs : pc[i] = "queued" => pcs[i] = "queued"
      BY <2>1, <2>2
    <2>5. \A i \in Jobs \ {j} : pc'[i] = pc[i] \/ pc[i] = "queued"
      <3>1. CASE Release(sess[j], pcs, state)
        <4>1. sess[j] \in Sessions
          BY <1>0
        <4>2. \A i \in Jobs : pc'[i] = pcs[i] \/ pc[i] = "queued"
          BY <1>0, <2>2, <2>4, <3>1, <4>1, ReleaseOf
        <4> QED
          BY <2>2, <4>2
      <3> QED
        BY <2>2, <2>3, <3>1
    <2> QED
      BY <1>0, <2>1, <2>5, NoneAssumption DEF ControllerLive
  <1>8. ASSUME NEW j \in Jobs, Close(j)
        PROVE  ControllerLive'
    <2> DEFINE p == IF HasContinuation(j) THEN "settled" ELSE "done"
               q == IF j \in throws THEN "failing" ELSE "ending"
               pcs == Resumed(j, [pc EXCEPT ![j] = p], q)
    <2>1. /\ controller' = controller /\ sess' = sess /\ pc[j] = "closing"
          /\ Release(sess[j], pcs, state) /\ sess[j] \in Sessions
      BY <1>0, <1>8 DEF Close
    <2>2. caller[j] # None => pc[caller[j]] = "nested"
      BY <1>0, <2>1 DEF CallerOK
    <2>3. /\ pcs \in [Jobs -> PCs]
          /\ \A i \in Jobs \ {j} : \/ pcs[i] = pc[i]
                                   \/ pc[i] = "nested" /\ pcs[i] \in {"failing", "ending"}
      BY <1>0, <2>2 DEF Resumed, PCs, InFlight, Holding
    <2> HIDE DEF pcs
    <2>4. \A i \in Jobs : pc[i] = "queued" => pcs[i] = "queued"
      BY <2>1, <2>3
    <2>5. \A i \in Jobs : pc'[i] = pcs[i] \/ pc[i] = "queued"
      BY <1>0, <2>1, <2>3, <2>4, ReleaseOf
    <2>6. \A i \in Jobs : pc[i] \in Live => pc'[i] \in Live
      BY <2>1, <2>3, <2>5
    <2> QED
      BY <1>k, <2>1, <2>6
  <1>9. ASSUME NEW a \in Agents, EndConsolidation(a)
        PROVE  ControllerLive'
    <2> DEFINE st == [state EXCEPT ![Main] = "idle"]
    <2>1. Release(Main, pc, st) /\ controller' = controller /\ sess' = sess
      BY <1>9 DEF EndConsolidation
    <2>2. st \in [Sessions -> States]
      BY <1>0 DEF States
    <2> HIDE DEF st
    <2>3. \A i \in Jobs : pc'[i] = pc[i] \/ pc[i] = "queued"
      BY <1>0, <2>1, <2>2, MainAssumption, ReleaseOf
    <2> QED
      BY <1>k, <2>1, <2>3
  <1>10. CASE Exit \/ Crash
    <2>1. controller' = [s \in Sessions |-> None]
      BY <1>10 DEF Exit, Crash, Vanish
    <2> QED
      BY <2>1, NoneAssumption DEF ControllerLive
  <1>11. CASE \/ \E j \in Jobs : RequestEffect(j)
              \/ \E s \in Sessions : Abort(s)
              \/ SkipConsolidation \/ Boot
              \/ \E a \in Agents : StartConsolidation(a)
              \/ UNCHANGED vars
    <2>1. UNCHANGED <<controller, pc, sess>>
      BY <1>11 DEF RequestEffect, Abort, SkipConsolidation, Boot, StartConsolidation,
                   vars, jobVars, sessionVars
    <2> QED
      BY <1>k, <2>1
  <1> QED
    BY <1>1, <1>2, <1>3, <1>4, <1>5, <1>6, <1>7, <1>8, <1>9, <1>10, <1>11 DEF Next, Step

\* No step leaves the quiet main session without its timer: whoever takes it
\* from rest is in flight, and whoever brings it back arms the timer.
LEMMA ArmedNext == LockInv /\ RestArmed /\ [Next]_vars => RestArmed'
  <1> SUFFICES ASSUME LockInv, RestArmed, [Next]_vars,
                      \A j \in Jobs : sess'[j] = Main,
                      daemon' = "up", failures' < 2,
                      \A j \in Jobs : pc'[j] \notin Occupied,
                      \A a \in Agents : agent'[a] = "off"
               PROVE  timer'
    BY DEF RestArmed
  <1>0. /\ pc \in [Jobs -> PCs] /\ caller \in [Jobs -> Jobs \cup {None}]
        /\ sess \in [Jobs -> Sessions] /\ state \in [Sessions -> States]
        /\ agent \in [Agents -> {"off", "running"}] /\ failures \in 0..2
        /\ CallerOK /\ LockHasHolder
    BY DEF LockInv, TypeOK, States
  <1>1. ASSUME NEW j \in Jobs, Submit(j)
        PROVE  FALSE
    <2>1. \E p \in Occupied : pc' = [pc EXCEPT ![j] = p]
      <3>1. \A k : FirstAwait(k) \subseteq Occupied
        BY FirstAwaitKinds DEF Occupied, Holding
      <3> QED
        BY <1>1, <3>1 DEF Submit, SubmitBusy, SubmitFree, SubmitStartup, Occupied
    <2> QED
      BY <1>0, <2>1
  <1>2. ASSUME NEW j \in Jobs, HooksDoneBusy(j)
        PROVE  FALSE
    <2>1. pc' = Resumed(j, [pc EXCEPT ![j] = "queued"], "ending")
      BY <1>2 DEF HooksDoneBusy
    <2> QED
      BY <1>0, <2>1 DEF Resumed, CallerOK, Occupied
  <1>3. ASSUME NEW j \in Jobs,
               HooksDoneFree(j) \/ CaptureDone(j) \/ BeginTurn(j) \/ EndTurn(j)
        PROVE  FALSE
    <2>1. \E p \in Occupied : pc' = [pc EXCEPT ![j] = p]
      BY <1>3 DEF HooksDoneFree, CaptureDone, BeginTurn, EndTurn, Occupied, Holding
    <2> QED
      BY <1>0, <2>1
  <1>4. ASSUME NEW j \in Jobs, ResetSession(j)
        PROVE  FALSE
    <2>1. pc[j] = "turn"
      BY <1>4 DEF ResetSession
    <2>2. PICK n \in Jobs :
            /\ caller[n] = j
            /\ Release(sess[j], [pc EXCEPT ![j] = "nested", ![n] = "hooks"], state)
      BY <1>4 DEF ResetSession
    <2> DEFINE pcs == [pc EXCEPT ![j] = "nested", ![n] = "hooks"]
    <2>3. n # j /\ pc[n] = "unborn"
      BY <1>0, <2>1, <2>2, NoneAssumption DEF CallerOK
    <2>4. /\ pcs \in [Jobs -> PCs] /\ pcs[j] = "nested"
          /\ \A i \in Jobs \ {j, n} : pcs[i] = pc[i]
      BY <1>0, <2>3 DEF PCs, InFlight, Holding
    <2>5. Release(sess[j], pcs, state) /\ sess[j] \in Sessions
      BY <1>0, <2>2
    <2> HIDE DEF pcs
    <2>6. \A i \in Jobs : pc[i] = "queued" => pcs[i] = "queued"
      BY <2>1, <2>3, <2>4
    <2>7. pc'[j] = "nested"
      BY <1>0, <2>1, <2>4, <2>5, <2>6, ReleaseOf
    <2> QED
      BY <2>7 DEF Occupied, Holding
  <1>5. ASSUME NEW j \in Jobs, LeaveTurn(j)
        PROVE  FALSE
    <2> DEFINE pcs == [pc EXCEPT ![j] = "closing"]
    <2>1. pc[j] = "ending" /\ (pc' = pcs \/ Release(sess[j], pcs, state)) /\ sess[j] \in Sessions
      BY <1>0, <1>5 DEF LeaveTurn
    <2>2. /\ pcs \in [Jobs -> PCs] /\ pcs[j] = "closing"
          /\ \A i \in Jobs \ {j} : pcs[i] = pc[i]
      BY <1>0 DEF PCs, InFlight, Holding
    <2> HIDE DEF pcs
    <2>3. \A i \in Jobs : pc[i] = "queued" => pcs[i] = "queued"
      BY <2>1, <2>2
    <2>4. pc'[j] = "closing"
      <3>1. CASE pc' = pcs
        BY <2>2, <3>1
      <3>2. CASE Release(sess[j], pcs, state)
        BY <1>0, <2>1, <2>2, <2>3, <3>2, ReleaseOf
      <3> QED
        BY <2>1, <3>1, <3>2
    <2> QED
      BY <2>4 DEF Occupied, Holding
  \* A release arms the timer or starts somebody.
  <1>r. ASSUME NEW pcs \in [Jobs -> PCs], NEW st \in [Sessions -> States],
               \A i \in Jobs : pc[i] = "queued" => pcs[i] = "queued",
               Release(Main, pcs, st), timer' = TimerAfterRelease(Main)
        PROVE  timer'
    <2>1. CASE pending[Main] = <<>>
      BY <1>r, <2>1 DEF TimerAfterRelease
    <2>2. CASE pending[Main] # <<>>
      BY <1>r, <2>2, MainAssumption, ReleaseOf DEF Occupied, Holding
    <2> QED
      BY <2>1, <2>2
  <1>6. ASSUME NEW j \in Jobs, Close(j)
        PROVE  timer'
    <2> DEFINE p == IF HasContinuation(j) THEN "settled" ELSE "done"
               q == IF j \in throws THEN "failing" ELSE "ending"
               pcs == Resumed(j, [pc EXCEPT ![j] = p], q)
    <2>1. /\ sess' = sess /\ pc[j] = "closing" /\ Release(sess[j], pcs, state)
          /\ timer' = TimerAfterRelease(sess[j])
      BY <1>6 DEF Close
    <2>2. sess[j] = Main
      BY <2>1
    <2>3. caller[j] # None => pc[caller[j]] = "nested"
      BY <1>0, <2>1 DEF CallerOK
    <2>4. /\ pcs \in [Jobs -> PCs]
          /\ \A i \in Jobs \ {j} : pcs[i] = pc[i] \/ pc[i] = "nested"
      BY <1>0, <2>3 DEF Resumed, PCs, InFlight, Holding
    <2> HIDE DEF pcs
    <2>5. \A i \in Jobs : pc[i] = "queued" => pcs[i] = "queued"
      BY <2>1, <2>4
    <2> QED
      BY <1>0, <1>r, <2>1, <2>2, <2>4, <2>5
  <1>7. ASSUME NEW j \in Jobs, ServeRequests(j)
        PROVE  timer'
    <2>1. /\ pc[j] = "settled" /\ pc' = [pc EXCEPT ![j] = "done"]
          /\ UNCHANGED <<sess, agent, failures>> /\ Alive
          /\ daemon' = DaemonAfter(Served(chan[j]))
          /\ timer' = TimerAfter(Served(chan[j]), timer)
      BY <1>7 DEF ServeRequests
    <2>2. Served(chan[j]) # "stop" /\ daemon = "up"
      BY <2>1 DEF DaemonAfter, Alive
    <2>3. \A i \in Jobs : pc[i] \notin Occupied
      BY <1>0, <2>1 DEF Occupied, Holding
    <2>4. RestArmed => timer
      BY <2>1, <2>2, <2>3 DEF RestArmed
    <2> QED
      BY <1>0, <2>1, <2>2, <2>4 DEF TimerAfter, StopsNow
  <1>8. CASE SkipConsolidation
    <2>1. UNCHANGED <<pc, sess, agent, failures>> /\ (Main \in active \/ failures = 2)
      BY <1>8 DEF SkipConsolidation, jobVars, sessionVars
    <2>2. Main \notin active
      BY <1>0, <2>1 DEF LockHasHolder, Occupied
    <2> QED
      BY <2>1, <2>2
  <1>9. ASSUME NEW a \in Agents, StartConsolidation(a)
        PROVE  FALSE
    BY <1>0, <1>9 DEF StartConsolidation
  <1>10. ASSUME NEW a \in Agents, EndConsolidation(a)
         PROVE  timer'
    <2> DEFINE st == [state EXCEPT ![Main] = "idle"]
    <2>1. Release(Main, pc, st) /\ timer' = TimerAfterRelease(Main)
      BY <1>10 DEF EndConsolidation
    <2>2. st \in [Sessions -> States]
      BY <1>0 DEF States
    <2> HIDE DEF st
    <2> QED
      BY <1>0, <1>r, <2>1, <2>2
  <1>11. CASE Exit \/ Crash \/ Boot
    BY <1>11 DEF Exit, Crash, Vanish, Boot
  <1>12. CASE \/ \E j \in Jobs : RequestEffect(j)
              \/ \E s \in Sessions : Abort(s)
              \/ UNCHANGED vars
    <2>1. UNCHANGED <<pc, sess, agent, failures, timer, daemon>>
      BY <1>12 DEF RequestEffect, Abort, vars, jobVars, sessionVars, agentVars, daemonVars
    <2> QED
      BY <2>1 DEF RestArmed
  <1> QED
    BY <1>1, <1>2, <1>3, <1>4, <1>5, <1>6, <1>7, <1>8, <1>9, <1>10, <1>11, <1>12 DEF Next, Step

\* A session persisted as running keeps somebody who is going to set its state.
LEMMA SetNext == LockInv /\ RunningIsSet /\ [Next]_vars => RunningIsSet'
  <1> SUFFICES ASSUME LockInv, RunningIsSet, [Next]_vars PROVE RunningIsSet'
    OBVIOUS
  <1>0. /\ pc \in [Jobs -> PCs] /\ caller \in [Jobs -> Jobs \cup {None}]
        /\ sess \in [Jobs -> Sessions] /\ state \in [Sessions -> States]
        /\ pending \in [Sessions -> Seq(Jobs)]
        /\ agent \in [Agents -> {"off", "running"}] /\ CallerOK
    BY DEF LockInv, TypeOK, States
  \* Who was to set the state of s stays to set it.
  <1> DEFINE Kept(s) ==
        /\ daemon # "down"
        /\ state[s] = "running"
        /\ \A i \in Jobs : pc[i] \in Setters => pc'[i] \in Setters /\ sess'[i] = sess[i]
        /\ pending[s] # <<>> => pending'[s] # <<>> \/ \E i \in Jobs : pc'[i] \in Setters /\ sess'[i] = s
        /\ \A a \in Agents : agent[a] = "running" => agent'[a] = "running"
      Met(s) ==
        \/ \E i \in Jobs : pc'[i] \in Setters /\ sess'[i] = s
        \/ pending'[s] # <<>>
        \/ s = Main /\ \E a \in Agents : agent'[a] = "running"
  <1>k. ASSUME NEW s \in Sessions, Kept(s) PROVE Met(s)
    <2>1. CASE \E i \in Jobs : pc[i] \in Setters /\ sess[i] = s
      BY <1>k, <2>1
    <2>2. CASE pending[s] # <<>>
      BY <1>k, <2>2
    <2>3. CASE s = Main /\ \E a \in Agents : agent[a] = "running"
      BY <1>k, <2>3
    <2> QED
      BY <1>k, <2>1, <2>2, <2>3 DEF RunningIsSet
  <1>s. ASSUME \A s \in Sessions :
                 state'[s] = "running" /\ daemon' # "down" => Kept(s) \/ Met(s)
        PROVE  RunningIsSet'
    BY <1>k, <1>s DEF RunningIsSet
  <1> HIDE DEF Kept, Met
  <1>1. ASSUME NEW j \in Jobs, Submit(j)
        PROVE  RunningIsSet'
    <2>0. pc[j] = "unborn" /\ Alive /\ agent' = agent
      BY <1>1 DEF Submit, SubmitBusy, SubmitFree, SubmitStartup, Fresh
    <2>1. ASSUME NEW s \in Sessions, NEW k \in Kinds, NEW ch \in Channels,
                 SubmitBusy(j, s, k, ch)
          PROVE  RunningIsSet'
      <3>1. /\ pc' = [pc EXCEPT ![j] = "queued"] /\ sess' = [sess EXCEPT ![j] = s]
            /\ pending' = [pending EXCEPT ![s] = Append(@, j)]
        BY <2>1 DEF SubmitBusy, Describe, Enqueue
      <3>2. \A r \in Sessions : state'[r] = "running" => state[r] = "running"
        BY <1>0, <2>1 DEF SubmitBusy, StateAfter, Recovered
      <3>3. \A r \in Sessions : pending[r] # <<>> => pending'[r] # <<>>
        BY <1>0, <3>1, AppendQueue
      <3> QED
        BY <1>0, <1>s, <2>0, <3>1, <3>2, <3>3 DEF Kept, Setters, Alive
    <2>2. ASSUME NEW s \in Sessions, NEW k \in Kinds, NEW ch \in Channels,
                 SubmitFree(j, s, k, ch)
          PROVE  RunningIsSet'
      <3>1. PICK p \in FirstAwait(k) :
              pc' = [pc EXCEPT ![j] = p] /\ state' = MarkRunning(state, s, p)
        BY <2>2 DEF SubmitFree
      <3>2. /\ p \in {"hooks", "capture", "opening"} /\ pending' = pending
            /\ sess' = [sess EXCEPT ![j] = s]
        BY <2>2, <3>1, FirstAwaitKinds DEF SubmitFree, Describe
      <3>3. pc'[j] \in Setters /\ sess'[j] = s
        BY <1>0, <3>1, <3>2 DEF Setters
      <3>4. Met(s)
        BY <3>3 DEF Met
      <3>5. \A r \in Sessions \ {s} : state'[r] = state[r]
        BY <1>0, <3>1 DEF MarkRunning
      <3> QED
        BY <1>0, <1>s, <2>0, <3>1, <3>2, <3>4, <3>5 DEF Kept, Setters, Alive
    <2>3. ASSUME NEW s \in Sessions, SubmitStartup(j, s)
          PROVE  RunningIsSet'
      <3>1. /\ pc' = [pc EXCEPT ![j] = "hooks"] /\ sess' = [sess EXCEPT ![j] = s]
            /\ pending' = pending /\ state' = state
        BY <2>3 DEF SubmitStartup, Describe
      <3> QED
        BY <1>0, <1>s, <2>0, <3>1 DEF Kept, Setters, Alive
    <2> QED
      BY <1>1, <2>1, <2>2, <2>3 DEF Submit
  <1>2. ASSUME NEW j \in Jobs, HooksDoneBusy(j)
        PROVE  RunningIsSet'
    <2>1. /\ pc' = Resumed(j, [pc EXCEPT ![j] = "queued"], "ending") /\ sess' = sess
          /\ pending' = [pending EXCEPT ![sess[j]] = Append(@, j)] /\ agent' = agent
          /\ Alive /\ pc[j] = "hooks"
      BY <1>2 DEF HooksDoneBusy, Enqueue
    <2>2. \A r \in Sessions : state'[r] = "running" => state[r] = "running"
      BY <1>0, <1>2 DEF HooksDoneBusy, StateAfter, Recovered
    <2>3. /\ pending'[sess[j]] # <<>>
          /\ \A r \in Sessions : pending[r] # <<>> => pending'[r] # <<>>
      BY <1>0, <2>1, AppendQueue
    <2>4. Met(sess[j])
      BY <2>3 DEF Met
    <2>5. caller[j] # None => pc[caller[j]] = "nested"
      BY <1>0, <2>1 DEF CallerOK
    <2>6. \A i \in Jobs \ {j} : pc[i] \in Setters => pc'[i] \in Setters
      BY <1>0, <2>1, <2>5 DEF Resumed, Setters
    <2>7. ASSUME NEW r \in Sessions \ {sess[j]}, state[r] = "running"
          PROVE  Met(r)
      <3>1. daemon # "down"
        BY <2>1 DEF Alive
      <3> QED
        BY <1>0, <2>1, <2>3, <2>6, <2>7, <3>1 DEF RunningIsSet, Met
    <2> QED
      BY <1>0, <1>s, <2>2, <2>4, <2>7
  <1>3. ASSUME NEW j \in Jobs, HooksDoneFree(j) \/ CaptureDone(j)
        PROVE  RunningIsSet'
    <2>1. /\ pc' = [pc EXCEPT ![j] = "opening"] /\ state' = [state EXCEPT ![sess[j]] = "running"]
          /\ UNCHANGED <<sess, pending, agent, daemon>>
      BY <1>3 DEF HooksDoneFree, CaptureDone, agentVars, daemonVars
    <2>2. pc'[j] \in Setters /\ sess'[j] = sess[j]
      BY <1>0, <2>1 DEF Setters
    <2>3. Met(sess[j])
      BY <2>2 DEF Met
    <2> QED
      BY <1>0, <1>s, <2>1, <2>2, <2>3 DEF Kept, Setters
  <1>4. ASSUME NEW j \in Jobs, BeginTurn(j)
        PROVE  RunningIsSet'
    <2>1. /\ pc' = [pc EXCEPT ![j] = "turn"]
          /\ UNCHANGED <<sess, pending, state, agent, daemon>>
      BY <1>4 DEF BeginTurn, agentVars
    <2> QED
      BY <1>0, <1>s, <2>1 DEF Kept, Setters
  <1>5. ASSUME NEW j \in Jobs, EndTurn(j)
        PROVE  RunningIsSet'
    <2>1. /\ pc' = [pc EXCEPT ![j] = "ending"]
          /\ \E st \in {"idle", "error"} : state' = [state EXCEPT ![sess[j]] = st]
          /\ UNCHANGED <<sess, pending, agent, daemon>>
      BY <1>5 DEF EndTurn, agentVars, daemonVars
    <2>2. state'[sess[j]] # "running"
      BY <1>0, <2>1
    <2>3. ASSUME NEW r \in Sessions \ {sess[j]}, state'[r] = "running", daemon' # "down"
          PROVE  Met(r)
      <3>1. state[r] = "running" /\ daemon # "down"
        BY <1>0, <2>1, <2>3
      <3> QED
        BY <1>0, <2>1, <3>1 DEF RunningIsSet, Met, Setters
    <2> QED
      BY <1>0, <1>s, <2>2, <2>3
  <1>6. ASSUME NEW j \in Jobs, ServeRequests(j)
        PROVE  RunningIsSet'
    <2>1. /\ pc[j] = "settled" /\ pc' = [pc EXCEPT ![j] = "done"] /\ Alive
          /\ UNCHANGED <<sess, pending, agent>>
      BY <1>6 DEF ServeRequests
    <2>2. \A r \in Sessions : state'[r] = "running" => state[r] = "running"
      BY <1>0, <1>6 DEF ServeRequests, StateAfter, Recovered
    <2> QED
      BY <1>0, <1>s, <2>1, <2>2 DEF Kept, Setters, Alive
  <1> DEFINE Waited(pcs, r) ==
        \/ \E i \in Jobs : pcs[i] \in Setters /\ sess'[i] = r
        \/ pending[r] # <<>>
        \/ r = Main /\ \E a \in Agents : agent'[a] = "running"
  \* A release of s, where the calls are at pcs and the states are st: who
  \* waited in s is started, and whoever was going to set a state still is.
  <1>r. ASSUME NEW s \in Sessions, NEW pcs \in [Jobs -> PCs], NEW st \in [Sessions -> States],
               Release(s, pcs, st),
               \A i \in Jobs : pc[i] = "queued" => pcs[i] = "queued" /\ sess'[i] = sess[i],
               \A r \in Sessions : st[r] = "running" => Waited(pcs, r)
        PROVE  RunningIsSet'
    <2>1. \A i \in Jobs : pcs[i] \in Setters => pc'[i] \in Setters
      BY <1>r, ReleaseOf DEF Setters
    <2>2. pending[s] # <<>> => Met(s)
      <3>1. pending[s] # <<>> =>
              \E i \in Jobs : /\ pc[i] = "queued" /\ sess[i] = s
                             /\ pc'[i] \in {"hooks", "capture", "opening"}
        BY <1>r, ReleaseOf
      <3> QED
        BY <1>r, <3>1 DEF Met, Setters
    <2>3. pending[s] = <<>> => state' = st
      BY <1>r, ReleaseOf
    <2>4. \A r \in Sessions \ {s} : pending'[r] = pending[r] /\ state'[r] = st[r]
      BY <1>r, ReleaseOf
    <2>5. ASSUME NEW r \in Sessions, state'[r] = "running", r # s \/ pending[s] = <<>>
          PROVE  Met(r)
      <3>1. st[r] = "running"
        BY <2>3, <2>4, <2>5
      <3>2. CASE \E i \in Jobs : pcs[i] \in Setters /\ sess'[i] = r
        BY <2>1, <3>2 DEF Met
      <3>3. CASE pending[r] # <<>>
        BY <2>4, <2>5, <3>3 DEF Met
      <3>4. CASE r = Main /\ \E a \in Agents : agent'[a] = "running"
        BY <3>4 DEF Met
      <3> QED
        BY <1>r, <3>1, <3>2, <3>3, <3>4 DEF Waited
    <2> QED
      BY <1>s, <2>2, <2>5
  <1> HIDE DEF Waited
  <1>7. ASSUME NEW j \in Jobs, ResetSession(j)
        PROVE  RunningIsSet'
    <2>1. pc[j] = "turn" /\ Alive /\ agent' = agent
      BY <1>7 DEF ResetSession
    <2>2. PICK n \in Jobs :
            /\ caller[n] = j
            /\ Release(sess[j], [pc EXCEPT ![j] = "nested", ![n] = "hooks"], state)
            /\ sess' = [sess EXCEPT ![n] = sess[j]]
      BY <1>7 DEF ResetSession
    <2> DEFINE pcs == [pc EXCEPT ![j] = "nested", ![n] = "hooks"]
    <2>3. n # j /\ pc[n] = "unborn"
      BY <1>0, <2>1, <2>2, NoneAssumption DEF CallerOK
    <2>4. /\ pcs \in [Jobs -> PCs] /\ pcs[j] = "nested" /\ pcs[n] = "hooks"
          /\ \A i \in Jobs \ {j, n} : pcs[i] = pc[i]
      BY <1>0, <2>3 DEF PCs, InFlight, Holding
    <2>5. Release(sess[j], pcs, state) /\ sess[j] \in Sessions
      BY <1>0, <2>2
    <2> HIDE DEF pcs
    <2>6. \A i \in Jobs : pc[i] = "queued" => pcs[i] = "queued" /\ sess'[i] = sess[i]
      BY <1>0, <2>1, <2>2, <2>3, <2>4
    <2>7. pcs[n] \in Setters /\ sess'[n] = sess[j]
      BY <1>0, <2>2, <2>4 DEF Setters
    <2>8. \A i \in Jobs \ {j} : pc[i] \in Setters => pcs[i] \in Setters /\ sess'[i] = sess[i]
      BY <1>0, <2>2, <2>3, <2>4 DEF Setters
    <2>9. ASSUME NEW r \in Sessions, state[r] = "running"
          PROVE  Waited(pcs, r)
      BY <2>1, <2>7, <2>8, <2>9 DEF RunningIsSet, Alive, Waited
    <2> QED
      BY <1>0, <1>r, <2>4, <2>5, <2>6, <2>9
  <1>8. ASSUME NEW j \in Jobs, LeaveTurn(j)
        PROVE  RunningIsSet'
    <2> DEFINE pcs == [pc EXCEPT ![j] = "closing"]
    <2>1. /\ Alive /\ pc[j] = "ending" /\ sess' = sess /\ agent' = agent /\ sess[j] \in Sessions
          /\ \/ pc' = pcs /\ UNCHANGED <<pending, state>>
             \/ Release(sess[j], pcs, state)
      BY <1>0, <1>8 DEF LeaveTurn
    <2>2. /\ pcs \in [Jobs -> PCs]
          /\ \A i \in Jobs : pc[i] = "queued" => pcs[i] = "queued"
          /\ \A i \in Jobs : pc[i] \in Setters => pcs[i] \in Setters
      BY <1>0, <2>1 DEF PCs, InFlight, Holding, Setters
    <2> HIDE DEF pcs
    <2>3. CASE pc' = pcs /\ UNCHANGED <<pending, state>>
      BY <1>s, <2>1, <2>2, <2>3 DEF Kept, Alive
    <2>4. CASE Release(sess[j], pcs, state)
      <3>1. ASSUME NEW r \in Sessions, state[r] = "running"
            PROVE  Waited(pcs, r)
        BY <2>1, <2>2, <3>1 DEF RunningIsSet, Alive, Waited
      <3>2. \A i \in Jobs : pc[i] = "queued" => pcs[i] = "queued" /\ sess'[i] = sess[i]
        BY <2>1, <2>2
      <3> QED
        BY <1>0, <1>r, <2>1, <2>2, <2>4, <3>1, <3>2
    <2> QED
      BY <2>1, <2>3, <2>4
  <1>9. ASSUME NEW j \in Jobs, Close(j)
        PROVE  RunningIsSet'
    <2> DEFINE p == IF HasContinuation(j) THEN "settled" ELSE "done"
               q == IF j \in throws THEN "failing" ELSE "ending"
               pcs == Resumed(j, [pc EXCEPT ![j] = p], q)
    <2>1. /\ Alive /\ pc[j] = "closing" /\ sess' = sess /\ agent' = agent
          /\ Release(sess[j], pcs, state) /\ sess[j] \in Sessions
      BY <1>0, <1>9 DEF Close
    <2>2. caller[j] # None => pc[caller[j]] = "nested"
      BY <1>0, <2>1 DEF CallerOK
    <2>3. /\ pcs \in [Jobs -> PCs]
          /\ \A i \in Jobs \ {j} : pcs[i] = pc[i] \/ pc[i] = "nested"
      BY <1>0, <2>2 DEF Resumed, PCs, InFlight, Holding
    <2> HIDE DEF pcs
    <2>4. /\ \A i \in Jobs : pc[i] = "queued" => pcs[i] = "queued"
          /\ \A i \in Jobs : pc[i] \in Setters => pcs[i] \in Setters
      BY <2>1, <2>3 DEF Setters
    <2>5. ASSUME NEW r \in Sessions, state[r] = "running"
          PROVE  Waited(pcs, r)
      BY <2>1, <2>4, <2>5 DEF RunningIsSet, Alive, Waited
    <2>6. \A i \in Jobs : pc[i] = "queued" => pcs[i] = "queued" /\ sess'[i] = sess[i]
      BY <2>1, <2>4
    <2> QED
      BY <1>0, <1>r, <2>1, <2>3, <2>5, <2>6
  <1>10. ASSUME NEW a \in Agents, EndConsolidation(a)
         PROVE  RunningIsSet'
    <2> DEFINE st == [state EXCEPT ![Main] = "idle"]
    <2>1. Release(Main, pc, st) /\ sess' = sess /\ Alive
      BY <1>10 DEF EndConsolidation
    <2>2. st \in [Sessions -> States] /\ st[Main] # "running"
      BY <1>0, MainAssumption DEF States
    <2>3. \A r \in Sessions \ {Main} : st[r] = state[r]
      BY <1>0
    <2> HIDE DEF st
    <2>4. ASSUME NEW r \in Sessions, st[r] = "running"
          PROVE  Waited(pc, r)
      BY <2>1, <2>2, <2>3, <2>4 DEF RunningIsSet, Alive, Waited
    <2> QED
      BY <1>0, <1>r, <2>1, <2>2, <2>4, MainAssumption
  <1>11. ASSUME NEW a \in Agents, StartConsolidation(a)
         PROVE  RunningIsSet'
    <2>1. /\ UNCHANGED <<pc, sess, pending, daemon>> /\ agent[a] = "off" /\ Alive
          /\ agent' = [agent EXCEPT ![a] = "running"]
          /\ state' = [state EXCEPT ![Main] = "running"]
      BY <1>11 DEF StartConsolidation, jobVars, daemonVars
    <2>2. Met(Main)
      BY <1>0, <2>1 DEF Met
    <2> QED
      BY <1>0, <1>s, <2>1, <2>2 DEF Kept
  <1>12. CASE Exit \/ Crash
    BY <1>12 DEF Exit, Crash, Vanish, RunningIsSet
  <1>13. CASE Boot
    <2>1. \A s \in Sessions : state'[s] # "running"
      BY <1>13 DEF Boot, Recovered
    <2> QED
      BY <2>1 DEF RunningIsSet
  <1>14. CASE \/ \E j \in Jobs : RequestEffect(j)
              \/ \E s \in Sessions : Abort(s)
              \/ SkipConsolidation
              \/ UNCHANGED vars
    <2>1. UNCHANGED <<pc, sess, pending, state, agent, daemon>>
      BY <1>14 DEF RequestEffect, Abort, SkipConsolidation, vars, jobVars, sessionVars,
                   agentVars, daemonVars
    <2> QED
      BY <2>1 DEF RunningIsSet
  <1> QED
    BY <1>1, <1>2, <1>3, <1>4, <1>5, <1>6, <1>7, <1>8, <1>9, <1>10, <1>11, <1>12, <1>13, <1>14
       DEF Next, Step

LEMMA KeptInit == Init => KeptInv
  BY NoneAssumption DEF Init, KeptInv, RunningIsSet, ControllerLive, RestArmed

\* What is kept of the turns, as the runs check it.
LEMMA KeptMatches == LockInv /\ KeptInv => StateMatchesTurns
  <1> SUFFICES ASSUME LockInv, KeptInv PROVE StateMatchesTurns
    OBVIOUS
  <1>0. /\ pc \in [Jobs -> PCs] /\ agent \in [Agents -> {"off", "running"}]
        /\ NoStrandedQueue /\ LockHasHolder
    BY DEF LockInv, TypeOK
  <1>1. RunningIsLive
    <2> SUFFICES ASSUME NEW s \in Sessions, state[s] = "running", daemon # "down"
                 PROVE  \/ \E j \in Jobs : pc[j] \in InFlight /\ sess[j] = s
                        \/ s = Main /\ \E a \in Agents : agent[a] = "running"
      BY DEF RunningIsLive
    <2>1. CASE \E j \in Jobs : pc[j] \in Setters /\ sess[j] = s
      BY <2>1 DEF Setters, InFlight, Holding
    <2>2. CASE pending[s] # <<>> /\ s \notin active
      BY <1>0, <2>2 DEF NoStrandedQueue, InFlight
    <2>3. CASE s \in active
      BY <1>0, <2>3 DEF LockHasHolder, InFlight
    <2> QED
      BY <2>1, <2>2, <2>3 DEF KeptInv, RunningIsSet
  <1>2. IdleArmed
    <2> SUFFICES ASSUME \A j \in Jobs : sess[j] = Main, daemon = "up", MainQuiet, failures < 2
                 PROVE  timer
      BY DEF IdleArmed
    <2>1. \A j \in Jobs : pc[j] \notin Occupied
      BY DEF MainQuiet, Occupied, InFlight
    <2> QED
      BY <2>1 DEF KeptInv, RestArmed, MainQuiet
  <1> QED
    BY <1>1, <1>2 DEF StateMatchesTurns, KeptInv

\* The state on disk, the abort controllers and the inactivity timer match the
\* turns that run: a session is not left running by a turn that is gone, an
\* abort reaches no other turn, and the idle agent is woken.
THEOREM KeptCorrect == Spec => []StateMatchesTurns
  <1>1. Init => LockInv /\ KeptInv
    BY LockInit, KeptInit
  <1>2. (LockInv /\ KeptInv) /\ [Next]_vars => (LockInv /\ KeptInv)'
    BY LockNext, SetNext, ControllerNext, ArmedNext DEF KeptInv
  <1>3. LockInv /\ KeptInv => StateMatchesTurns
    BY KeptMatches
  <1> QED
    BY <1>1, <1>2, <1>3, PTL DEF Spec

-----------------------------------------------------------------------------
(* The turns of a session that nothing disturbed exclude each other.        *)

\* A startup that a /new awaits is one of its own session, and only a call
\* that was made can throw.
Nesting ==
  /\ \A n \in Jobs : caller[n] # None =>
       /\ kind[caller[n]] = "reset"
       /\ pc[n] # "unborn" => kind[n] = "startup" /\ sess[n] = sess[caller[n]]
  /\ \A j \in throws : pc[j] # "unborn"

\* The calls that are entitled to the lock of their session.
Owns(j) ==
  \/ pc[j] \in {"capture", "opening", "turn"}
  \/ pc[j] = "ending" /\ kind[j] # "reset"
  \/ pc[j] = "closing" /\ kind[j] = "startup"

\* Those that have released it already and are going to release it again.
Rests(j) ==
  \/ pc[j] = "ending" /\ kind[j] = "reset"
  \/ pc[j] = "closing" /\ kind[j] # "startup"

\* Those that node resumes before it looks at sockets or timers.
Leads(j) == pc[j] # "settled" /\ Resumable(j)

\* One owner at most, whose lock nobody else is going to release; hooks that
\* end by themselves end alone; the MemoryAgent has the session for itself.
Calm(s) ==
  /\ pending[s] = <<>>
  /\ \A j, k \in Jobs : Owns(j) /\ Owns(k) /\ sess[j] = s /\ sess[k] = s => j = k
  /\ \A j \in Jobs : Owns(j) /\ sess[j] = s => s \in active
  /\ \A j, k \in Jobs : Owns(j) /\ Rests(k) /\ sess[j] = s => sess[k] # s
  /\ \A j \in Jobs : pc[j] = "failing" => sess[j] # s
  /\ "SessionStart" \notin Hooked =>
       \A j, k \in Jobs : pc[j] = "hooks" /\ Leads(k) /\ sess[j] = s /\ sess[k] = s => j = k
  /\ s = Main => \A a \in Agents : agent[a] = "running" =>
       /\ Main \in active
       /\ \A j \in Jobs : Owns(j) \/ Rests(j) => sess[j] # Main
       /\ \A b \in Agents : agent[b] = "running" => a = b

\* A session with no input waiting, in a daemon that never had to start one
\* that waited, nor saw a call throw.
Clean(s) == flushed = {} /\ throws = {} /\ pending[s] = <<>>

CalmInv == Nesting /\ \A s \in Sessions : Undisturbed(s) \/ Clean(s) => Calm(s)

LEMMA NestingNext == LockInv /\ Nesting /\ [Next]_vars => Nesting'
  <1> SUFFICES ASSUME LockInv, Nesting, [Next]_vars PROVE Nesting'
    OBVIOUS
  <1>0. /\ pc \in [Jobs -> PCs] /\ caller \in [Jobs -> Jobs \cup {None}]
        /\ sess \in [Jobs -> Sessions] /\ kind \in [Jobs -> AllKinds]
        /\ state \in [Sessions -> States] /\ throws \in SUBSET Jobs /\ CallerOK
    BY DEF LockInv, TypeOK, States
  \* Nobody is born, and nobody who was becomes unborn.
  <1> DEFINE Lasting == \A i \in Jobs : pc'[i] = "unborn" <=> pc[i] = "unborn"
  <1>k. ASSUME Lasting, kind' = kind, sess' = sess,
               \A i \in Jobs : caller'[i] = caller[i] \/ caller'[i] = None,
               throws' \subseteq throws \cup {i \in Jobs : pc[i] # "unborn"}
        PROVE  Nesting'
    BY <1>0, <1>k DEF Nesting
  <1>r. ASSUME NEW s \in Sessions, NEW pcs \in [Jobs -> PCs], NEW st \in [Sessions -> States],
               Release(s, pcs, st),
               \A i \in Jobs : pc[i] = "queued" => pcs[i] = "queued",
               NEW i \in Jobs
        PROVE  pc'[i] = "unborn" <=> pcs[i] = "unborn"
    BY <1>r, ReleaseOf
  <1>1. ASSUME NEW j \in Jobs, Submit(j)
        PROVE  Nesting'
    <2>1. PICK k, s, ch : Describe(j, s, k, ch)
      BY <1>1 DEF Submit, SubmitBusy, SubmitFree, SubmitStartup
    <2>2. /\ pc[j] = "unborn" /\ caller[j] = None /\ throws' = throws
          /\ \E p \in PCs \ {"unborn"} : pc' = [pc EXCEPT ![j] = p]
      <3>1. \A kd : FirstAwait(kd) \subseteq PCs \ {"unborn"}
        BY FirstAwaitKinds DEF PCs, InFlight, Holding
      <3> QED
        BY <1>1, <3>1 DEF Submit, SubmitBusy, SubmitFree, SubmitStartup, Fresh, PCs, InFlight
    <2>3. \A i \in Jobs : caller[i] # j
      BY <1>0, <2>2, NoneAssumption DEF CallerOK
    <2>4. /\ kind' = [kind EXCEPT ![j] = k] /\ sess' = [sess EXCEPT ![j] = s]
          /\ \/ caller' = caller
             \/ k = "reset" /\ \E n \in Jobs \ {j} : Fresh(n) /\ caller' = [caller EXCEPT ![n] = j]
      BY <2>1 DEF Describe
    <2>5. CASE caller' = caller
      BY <1>0, <2>2, <2>3, <2>4, <2>5 DEF Nesting
    <2>6. CASE k = "reset" /\ \E n \in Jobs \ {j} : Fresh(n) /\ caller' = [caller EXCEPT ![n] = j]
      BY <1>0, <2>2, <2>3, <2>4, <2>6 DEF Nesting, Fresh
    <2> QED
      BY <2>4, <2>5, <2>6
  <1>2. ASSUME NEW j \in Jobs, HooksDoneBusy(j)
        PROVE  Nesting'
    <2>1. /\ pc' = Resumed(j, [pc EXCEPT ![j] = "queued"], "ending") /\ pc[j] = "hooks"
          /\ caller' = [caller EXCEPT ![j] = None] /\ UNCHANGED <<kind, sess, throws>>
      BY <1>2 DEF HooksDoneBusy
    <2>2. caller[j] # None => pc[caller[j]] # "unborn"
      BY <1>0 DEF CallerOK
    <2> QED
      BY <1>0, <1>k, <2>1, <2>2 DEF Resumed
  <1>3. ASSUME NEW j \in Jobs,
               \/ HooksDoneFree(j) \/ CaptureDone(j) \/ BeginTurn(j)
               \/ EndTurn(j) \/ ServeRequests(j)
        PROVE  Nesting'
    <2>1. /\ pc[j] # "unborn" /\ UNCHANGED <<kind, sess, caller>>
          /\ \E p \in PCs \ {"unborn"} : pc' = [pc EXCEPT ![j] = p]
          /\ throws' \subseteq throws \cup {j}
      BY <1>3 DEF HooksDoneFree, CaptureDone, BeginTurn, EndTurn, ServeRequests, PCs, InFlight, Holding
    <2> QED
      BY <1>0, <1>k, <2>1
  <1>4. ASSUME NEW j \in Jobs, ResetSession(j)
        PROVE  Nesting'
    <2>1. pc[j] = "turn" /\ kind[j] = "reset" /\ UNCHANGED <<caller, throws>>
      BY <1>4 DEF ResetSession
    <2>2. PICK n \in Jobs :
            /\ caller[n] = j
            /\ Release(sess[j], [pc EXCEPT ![j] = "nested", ![n] = "hooks"], state)
            /\ sess' = [sess EXCEPT ![n] = sess[j]]
            /\ kind' = [kind EXCEPT ![n] = "startup"]
      BY <1>4 DEF ResetSession
    <2> DEFINE pcs == [pc EXCEPT ![j] = "nested", ![n] = "hooks"]
    <2>3. n # j /\ pc[n] = "unborn" /\ \A m \in Jobs : caller[m] # n
      BY <1>0, <2>1, <2>2, NoneAssumption DEF CallerOK
    <2>4. /\ pcs \in [Jobs -> PCs] /\ pcs[j] = "nested" /\ pcs[n] = "hooks"
          /\ \A i \in Jobs \ {j, n} : pcs[i] = pc[i]
      BY <1>0, <2>3 DEF PCs, InFlight, Holding
    <2>5. Release(sess[j], pcs, state) /\ sess[j] \in Sessions
      BY <1>0, <2>2
    <2> HIDE DEF pcs
    <2>6. \A i \in Jobs : pc[i] = "queued" => pcs[i] = "queued"
      BY <2>1, <2>3, <2>4
    <2>7. \A i \in Jobs : pc'[i] = "unborn" <=> pcs[i] = "unborn"
      BY <1>0, <1>r, <2>4, <2>5, <2>6
    <2>8. \A i \in Jobs \ {n} : pc'[i] = "unborn" <=> pc[i] = "unborn"
      BY <2>1, <2>4, <2>7
    <2> QED
      BY <1>0, <2>1, <2>2, <2>3, <2>4, <2>7, <2>8 DEF Nesting
  <1>5. ASSUME NEW j \in Jobs, LeaveTurn(j)
        PROVE  Nesting'
    <2> DEFINE pcs == [pc EXCEPT ![j] = "closing"]
    <2>1. /\ pc[j] = "ending" /\ (pc' = pcs \/ Release(sess[j], pcs, state)) /\ sess[j] \in Sessions
          /\ UNCHANGED <<kind, sess, caller, throws>>
      BY <1>0, <1>5 DEF LeaveTurn
    <2>2. /\ pcs \in [Jobs -> PCs] /\ pcs[j] = "closing"
          /\ \A i \in Jobs \ {j} : pcs[i] = pc[i]
      BY <1>0 DEF PCs, InFlight, Holding
    <2> HIDE DEF pcs
    <2>3. \A i \in Jobs : pc[i] = "queued" => pcs[i] = "queued"
      BY <2>1, <2>2
    <2>4. \A i \in Jobs : pc'[i] = "unborn" <=> pcs[i] = "unborn"
      BY <1>0, <1>r, <2>1, <2>2, <2>3
    <2>5. Lasting
      BY <2>1, <2>2, <2>4
    <2> QED
      BY <1>k, <2>1, <2>5
  <1>6. ASSUME NEW j \in Jobs, Close(j)
        PROVE  Nesting'
    <2> DEFINE p == IF HasContinuation(j) THEN "settled" ELSE "done"
               q == IF j \in throws THEN "failing" ELSE "ending"
               pcs == Resumed(j, [pc EXCEPT ![j] = p], q)
    <2>1. /\ pc[j] = "closing" /\ Release(sess[j], pcs, state) /\ sess[j] \in Sessions
          /\ UNCHANGED <<kind, sess, throws>> /\ caller' = [caller EXCEPT ![j] = None]
      BY <1>0, <1>6 DEF Close
    <2>2. caller[j] # None => pc[caller[j]] = "nested"
      BY <1>0, <2>1 DEF CallerOK
    <2>3. /\ pcs \in [Jobs -> PCs] /\ pcs[j] # "unborn"
          /\ \A i \in Jobs \ {j} : \/ pcs[i] = pc[i]
                                   \/ pc[i] = "nested" /\ pcs[i] \in {"failing", "ending"}
      BY <1>0, <2>2 DEF Resumed, PCs, InFlight, Holding
    <2> HIDE DEF pcs
    <2>4. \A i \in Jobs : pc[i] = "queued" => pcs[i] = "queued"
      BY <2>1, <2>3
    <2>5. \A i \in Jobs : pc'[i] = "unborn" <=> pcs[i] = "unborn"
      BY <1>0, <1>r, <2>1, <2>3, <2>4
    <2>6. Lasting
      BY <2>1, <2>3, <2>5
    <2> QED
      BY <1>0, <1>k, <2>1, <2>6
  <1>7. ASSUME NEW a \in Agents, EndConsolidation(a)
        PROVE  Nesting'
    <2> DEFINE st == [state EXCEPT ![Main] = "idle"]
    <2>1. Release(Main, pc, st) /\ UNCHANGED <<kind, sess, caller, throws>>
      BY <1>7 DEF EndConsolidation
    <2>2. st \in [Sessions -> States]
      BY <1>0 DEF States
    <2> HIDE DEF st
    <2>3. Lasting
      BY <1>0, <1>r, <2>1, <2>2, MainAssumption
    <2> QED
      BY <1>k, <2>1, <2>3
  <1>8. CASE Exit \/ Crash
    BY <1>8 DEF Exit, Crash, Vanish, Nesting
  <1>9. CASE \/ \E j \in Jobs : RequestEffect(j)
             \/ \E s \in Sessions : Abort(s)
             \/ SkipConsolidation \/ Boot
             \/ \E a \in Agents : StartConsolidation(a)
             \/ UNCHANGED vars
    <2>1. UNCHANGED <<pc, kind, sess, caller, throws>>
      BY <1>9 DEF RequestEffect, Abort, SkipConsolidation, Boot, StartConsolidation,
                  vars, jobVars
    <2> QED
      BY <2>1 DEF Nesting
  <1> QED
    BY <1>1, <1>2, <1>3, <1>4, <1>5, <1>6, <1>7, <1>8, <1>9 DEF Next, Step

\* While the process lives, a disturbed session stays one.
LEMMA StaysDisturbed ==
  ASSUME LockInv, Nesting, [Next]_vars, ~Exit, ~Crash, NEW s \in Sessions, Undisturbed(s)'
  PROVE  Undisturbed(s)
  <1>0. /\ kind \in [Jobs -> AllKinds] /\ sess \in [Jobs -> Sessions]
        /\ throws \in SUBSET Jobs /\ CallerOK
    BY DEF LockInv, TypeOK
  <1>k. ASSUME everQueued \subseteq everQueued', throws \subseteq throws',
               \A i \in Jobs : pc[i] # "unborn" => kind'[i] = kind[i] /\ sess'[i] = sess[i]
        PROVE  Undisturbed(s)
    BY <1>0, <1>k DEF Undisturbed, Nesting
  <1>1. ASSUME NEW j \in Jobs, Submit(j)
        PROVE  Undisturbed(s)
    <2>1. /\ pc[j] = "unborn" /\ everQueued \subseteq everQueued' /\ throws' = throws
          /\ \E k, r, ch : Describe(j, r, k, ch)
      BY <1>1 DEF Submit, SubmitBusy, SubmitFree, SubmitStartup, Fresh
    <2> QED
      BY <1>0, <1>k, <2>1 DEF Describe
  <1>2. ASSUME NEW j \in Jobs, ResetSession(j)
        PROVE  Undisturbed(s)
    <2>1. pc[j] = "turn" /\ UNCHANGED <<throws, everQueued>>
      BY <1>2 DEF ResetSession
    <2>2. PICK n \in Jobs :
            /\ caller[n] = j
            /\ sess' = [sess EXCEPT ![n] = sess[j]] /\ kind' = [kind EXCEPT ![n] = "startup"]
      BY <1>2 DEF ResetSession
    <2>3. pc[n] = "unborn"
      BY <1>0, <2>1, <2>2, NoneAssumption DEF CallerOK
    <2> QED
      BY <1>0, <1>k, <2>1, <2>2, <2>3
  <1>3. ASSUME \/ \E j \in Jobs : \/ RequestEffect(j)
                                  \/ HooksDoneFree(j) \/ HooksDoneBusy(j) \/ CaptureDone(j)
                                  \/ BeginTurn(j) \/ EndTurn(j) \/ LeaveTurn(j) \/ Close(j)
                                  \/ ServeRequests(j)
               \/ \E r \in Sessions : Abort(r)
               \/ SkipConsolidation \/ Boot
               \/ \E a \in Agents : StartConsolidation(a) \/ EndConsolidation(a)
               \/ UNCHANGED vars
        PROVE  Undisturbed(s)
    <2>1. /\ UNCHANGED <<kind, sess>> /\ throws \subseteq throws'
          /\ everQueued \subseteq everQueued'
      BY <1>3 DEF RequestEffect, HooksDoneFree, HooksDoneBusy, CaptureDone, BeginTurn, EndTurn,
                  LeaveTurn, Close, ServeRequests, Abort, SkipConsolidation, Boot,
                  StartConsolidation, EndConsolidation, vars, jobVars, sessionVars
    <2> QED
      BY <1>k, <2>1
  <1> QED
    BY <1>1, <1>2, <1>3 DEF Next, Step

\* Nor does a session become a clean one: who leaves the queue was flushed.
LEMMA StaysClean ==
  ASSUME LockInv, [Next]_vars, ~Exit, ~Crash, NEW s \in Sessions, Clean(s)'
  PROVE  Clean(s)
  <1>0. pending \in [Sessions -> Seq(Jobs)] /\ sess \in [Jobs -> Sessions] /\ Main \in Sessions
    BY MainAssumption DEF LockInv, TypeOK
  <1>k. ASSUME flushed \subseteq flushed', throws \subseteq throws',
               pending[s] # <<>> => pending'[s] # <<>> \/ flushed' # {}
        PROVE  Clean(s)
    BY <1>k DEF Clean
  <1>r. ASSUME NEW r \in Sessions, NEW pcs, NEW st, Release(r, pcs, st), throws' = throws
        PROVE  Clean(s)
    <2>1. /\ flushed \subseteq flushed'
          /\ pending' = pending \/ flushed' # {}
      BY <1>r DEF Release
    <2> QED
      BY <1>k, <1>r, <2>1
  <1>q. ASSUME NEW r \in Sessions, NEW j \in Jobs, pending' = Enqueue(r, j),
               UNCHANGED <<flushed, throws>>
        PROVE  Clean(s)
    <2>1. pending'[s] = pending[s] \/ pending'[s] = Append(pending[s], j)
      BY <1>0, <1>q DEF Enqueue
    <2>2. pending[s] \in Seq(Jobs)
      BY <1>0
    <2>3. Append(pending[s], j) # <<>>
      BY <2>2
    <2> QED
      BY <1>k, <1>q, <2>1, <2>3
  <1>1. ASSUME NEW j \in Jobs, Submit(j)
        PROVE  Clean(s)
    <2>1. CASE \E r \in Sessions, k \in Kinds \ {"startup"}, ch \in Channels : SubmitBusy(j, r, k, ch)
      BY <1>q, <2>1 DEF SubmitBusy
    <2>2. CASE ~ \E r \in Sessions, k \in Kinds \ {"startup"}, ch \in Channels : SubmitBusy(j, r, k, ch)
      <3>1. UNCHANGED <<flushed, throws, pending>>
        BY <1>1, <2>2 DEF Submit, SubmitFree, SubmitStartup
      <3> QED
        BY <1>k, <3>1
    <2> QED
      BY <2>1, <2>2
  <1>2. ASSUME NEW j \in Jobs, HooksDoneBusy(j)
        PROVE  Clean(s)
    BY <1>0, <1>2, <1>q DEF HooksDoneBusy
  <1>3. ASSUME NEW j \in Jobs, ResetSession(j)
        PROVE  Clean(s)
    BY <1>0, <1>3, <1>r DEF ResetSession
  <1>4. ASSUME NEW j \in Jobs, LeaveTurn(j)
        PROVE  Clean(s)
    <2>1. CASE kind[j] = "startup"
      BY <1>4, <1>k, <2>1 DEF LeaveTurn
    <2>2. CASE kind[j] # "startup"
      BY <1>0, <1>4, <1>r, <2>2 DEF LeaveTurn
    <2> QED
      BY <2>1, <2>2
  <1>5. ASSUME NEW j \in Jobs, Close(j)
        PROVE  Clean(s)
    <2>1. throws' = throws /\ \E pcs : Release(sess[j], pcs, state)
      BY <1>5 DEF Close
    <2> QED
      BY <1>0, <1>r, <2>1
  <1>6. ASSUME NEW a \in Agents, EndConsolidation(a)
        PROVE  Clean(s)
    <2>1. throws' = throws /\ \E st : Release(Main, pc, st)
      BY <1>6 DEF EndConsolidation
    <2> QED
      BY <1>0, <1>r, <2>1
  <1>7. ASSUME \/ \E j \in Jobs : \/ RequestEffect(j) \/ HooksDoneFree(j) \/ CaptureDone(j)
                                  \/ BeginTurn(j) \/ EndTurn(j) \/ ServeRequests(j)
               \/ \E r \in Sessions : Abort(r)
               \/ SkipConsolidation \/ Boot
               \/ \E a \in Agents : StartConsolidation(a)
               \/ UNCHANGED vars
        PROVE  Clean(s)
    <2>1. UNCHANGED <<flushed, pending>> /\ throws \subseteq throws'
      BY <1>7 DEF RequestEffect, HooksDoneFree, CaptureDone, BeginTurn, EndTurn, ServeRequests, Abort,
                  SkipConsolidation, Boot, StartConsolidation, vars, jobVars, sessionVars
    <2> QED
      BY <1>k, <2>1
  <1> QED
    BY <1>1, <1>2, <1>3, <1>4, <1>5, <1>6, <1>7 DEF Next, Step

\* Where a call neither owns, rests, leads nor waits to fail.
Inert == {"unborn", "queued", "settled", "done", "lost", "nested"}

LEMMA CalmNext ==
  ASSUME LockInv, CalmInv, [Next]_vars, NEW s \in Sessions, Undisturbed(s)' \/ Clean(s)'
  PROVE  Calm(s)'
  <1>0. /\ pc \in [Jobs -> PCs] /\ caller \in [Jobs -> Jobs \cup {None}]
        /\ sess \in [Jobs -> Sessions] /\ kind \in [Jobs -> AllKinds]
        /\ chan \in [Jobs -> AllChannels]
        /\ pending \in [Sessions -> Seq(Jobs)] /\ active \in SUBSET Sessions
        /\ state \in [Sessions -> States] /\ throws \in SUBSET Jobs
        /\ agent \in [Agents -> {"off", "running"}] /\ CallerOK /\ Nesting
    BY DEF LockInv, TypeOK, States, CalmInv
  <1>c. Exit \/ Crash \/ Calm(s)
    BY <1>0, StaysDisturbed, StaysClean DEF CalmInv
  <1> DEFINE Same(i) == /\ pc'[i] = pc[i] /\ kind'[i] = kind[i]
                        /\ sess'[i] = sess[i] /\ chan'[i] = chan[i]
  \* The step leaves the calls of the session where they are, or inert.
  <1>f. ASSUME Calm(s), pending'[s] = pending[s], s \in active => s \in active',
               s = Main => \A a \in Agents : agent'[a] = agent[a],
               \A i \in Jobs : sess'[i] = s => Same(i) \/ pc'[i] \in Inert
        PROVE  Calm(s)'
    <2>1. \A i \in Jobs : sess'[i] = s =>
            /\ Owns(i)' => Owns(i) /\ sess[i] = s
            /\ Rests(i)' => Rests(i) /\ sess[i] = s
            /\ Leads(i)' => Leads(i) /\ sess[i] = s
            /\ pc'[i] \in {"failing", "hooks"} => pc'[i] = pc[i] /\ sess[i] = s
      BY <1>f DEF Owns, Rests, Leads, Resumable, Micro, Inert
    <2> QED
      BY <1>f, <2>1 DEF Calm
  <1> HIDE DEF Same
  <1>1. ASSUME NEW j \in Jobs, NEW r \in Sessions, NEW k \in Kinds, NEW ch \in Channels,
               SubmitBusy(j, r, k, ch), Calm(s)
        PROVE  Calm(s)'
    <2>1. /\ everQueued' = everQueued \cup {r} /\ UNCHANGED <<active, agent>>
          /\ pc' = [pc EXCEPT ![j] = "queued"] /\ sess' = [sess EXCEPT ![j] = r]
          /\ kind' = [kind EXCEPT ![j] = k] /\ chan' = [chan EXCEPT ![j] = ch]
          /\ pending' = [pending EXCEPT ![r] = Append(@, j)]
      BY <1>1 DEF SubmitBusy, Describe, Enqueue
    <2>2. r # s
      <3>1. pending'[r] = Append(pending[r], j) /\ pending[r] \in Seq(Jobs)
        BY <1>0, <2>1
      <3>2. Append(pending[r], j) # <<>>
        BY <3>1
      <3> QED
        BY <2>1, <3>1, <3>2 DEF Undisturbed, Clean
    <2> QED
      BY <1>0, <1>1, <1>f, <2>1, <2>2 DEF Same
  <1>2. ASSUME NEW j \in Jobs, NEW r \in Sessions, NEW k \in Kinds \ {"startup"}, NEW ch \in Channels,
               SubmitFree(j, r, k, ch), Calm(s)
        PROVE  Calm(s)'
    <2>1. PICK p \in {"capture", "opening"} : pc' = [pc EXCEPT ![j] = p]
      BY <1>2 DEF SubmitFree, FirstAwait
    <2>2. /\ Quiet /\ r \notin active /\ active' = active \cup {r} /\ UNCHANGED <<pending, agent>>
          /\ sess' = [sess EXCEPT ![j] = r]
          /\ kind' = [kind EXCEPT ![j] = k] /\ chan' = [chan EXCEPT ![j] = ch]
      BY <1>2 DEF SubmitFree, Describe, LockOnStart
    <2>3. \A i \in Jobs \ {j} : Same(i)
      BY <1>0, <2>1, <2>2 DEF Same
    <2>4. CASE r # s
      BY <1>0, <1>2, <1>f, <2>1, <2>2, <2>3, <2>4
    <2>5. CASE r = s
      <3>1. \A i \in Jobs : ~Owns(i) \/ sess[i] # s
        BY <1>2, <2>2, <2>5 DEF Calm
      <3>2. \A i \in Jobs : ~Rests(i) /\ ~Leads(i)
        BY <2>2 DEF Quiet, Rests, Leads, Resumable, Micro
      <3>3. \A i \in Jobs \ {j} : /\ Owns(i)' => Owns(i)
                                  /\ Rests(i)' => Rests(i)
                                  /\ Leads(i)' => Leads(i)
                                  /\ pc'[i] = pc[i] /\ sess'[i] = sess[i]
        BY <2>3 DEF Same, Owns, Rests, Leads, Resumable
      <3>4. ~Rests(j)' /\ pc'[j] \notin {"failing", "hooks"}
        BY <1>0, <2>1 DEF Rests
      <3>5. "SessionStart" \notin Hooked => \A i \in Jobs : pc[i] # "hooks"
        BY <2>2 DEF Quiet, Resumable
      <3> QED
        BY <1>0, <1>2, <2>1, <2>2, <2>5, <3>1, <3>2, <3>3, <3>4, <3>5 DEF Calm
    <2> QED
      BY <2>4, <2>5
  <1>3. ASSUME NEW j \in Jobs, NEW r \in Sessions, SubmitStartup(j, r), Calm(s)
        PROVE  Calm(s)'
    <2>1. /\ Quiet /\ UNCHANGED <<active, pending, agent>>
          /\ pc' = [pc EXCEPT ![j] = "hooks"] /\ sess' = [sess EXCEPT ![j] = r]
          /\ kind' = [kind EXCEPT ![j] = "startup"] /\ chan' = [chan EXCEPT ![j] = "cli"]
      BY <1>3 DEF SubmitStartup, Describe
    <2>2. \A i \in Jobs \ {j} : Same(i)
      BY <1>0, <2>1 DEF Same
    <2>3. \A i \in Jobs \ {j} : /\ Owns(i)' => Owns(i)
                                /\ Rests(i)' => Rests(i)
                                /\ Leads(i)' => Leads(i)
                                /\ pc'[i] = pc[i] /\ sess'[i] = sess[i]
      BY <2>2 DEF Same, Owns, Rests, Leads, Resumable
    <2>4. ~Owns(j)' /\ ~Rests(j)' /\ pc'[j] # "failing"
      BY <1>0, <2>1 DEF Owns, Rests
    <2>5. /\ "SessionStart" \notin Hooked => \A i \in Jobs : pc[i] # "hooks"
          /\ \A i \in Jobs : ~Leads(i)
      BY <2>1 DEF Quiet, Resumable, Leads
    <2> QED
      BY <1>0, <1>3, <2>1, <2>3, <2>4, <2>5 DEF Calm
  \* Who is in a session that somebody leads: an owner, one at rest, or hooks.
  <1>l. \A i \in Jobs : Leads(i) => Owns(i) \/ Rests(i) \/ pc[i] = "hooks"
    BY DEF Leads, Owns, Rests, Resumable, Micro
  \* Hooks that none is configured for are alone when they or somebody else
  \* may go on, or none are there.
  <1>h. ASSUME NEW j \in Jobs, Leads(j) \/ Quiet, Calm(s), sess[j] = s,
               "SessionStart" \notin Hooked
        PROVE  \A i \in Jobs \ {j} : pc[i] = "hooks" => sess[i] # s
    BY <1>h DEF Calm, Quiet, Resumable
  <1>4. ASSUME NEW j \in Jobs, HooksDoneFree(j), Calm(s)
        PROVE  Calm(s)'
    <2>1. /\ (Resumable(j) \/ Quiet) /\ pc[j] = "hooks" /\ sess[j] \notin active
          /\ active' = active \cup {sess[j]} /\ pc' = [pc EXCEPT ![j] = "opening"]
          /\ UNCHANGED <<pending, agent, kind, sess, chan>>
      BY <1>4 DEF HooksDoneFree, agentVars
    <2>2. \A i \in Jobs \ {j} : Same(i)
      BY <1>0, <2>1 DEF Same
    <2>3. CASE sess[j] # s
      BY <1>0, <1>4, <1>f, <2>1, <2>2, <2>3
    <2>4. CASE sess[j] = s
      <3>1. \A i \in Jobs : ~Owns(i) \/ sess[i] # s
        BY <1>4, <2>1, <2>4 DEF Calm
      <3>2. Leads(j) \/ Quiet
        BY <2>1 DEF Leads
      <3>3. \A i \in Jobs : ~Rests(i) \/ sess[i] # s
        <4>1. \A i \in Jobs : Rests(i) => Resumable(i) /\ Leads(i) /\ i # j
          BY <2>1 DEF Rests, Leads, Resumable, Micro
        <4>2. CASE Quiet
          BY <4>1, <4>2 DEF Quiet
        <4>3. CASE ~Quiet
          <5>1. "SessionStart" \notin Hooked
            BY <2>1, <4>3 DEF Resumable, Micro
          <5> QED
            BY <1>4, <2>1, <2>4, <4>1, <5>1 DEF Calm
        <4> QED
          BY <4>2, <4>3
      <3>4. \A i \in Jobs \ {j} : /\ Owns(i)' => Owns(i)
                                  /\ Rests(i)' => Rests(i)
                                  /\ pc'[i] = pc[i] /\ sess'[i] = sess[i]
        BY <2>2 DEF Same, Owns, Rests
      <3>5. ~Rests(j)' /\ pc'[j] = "opening"
        BY <1>0, <2>1 DEF Rests
      <3>6. "SessionStart" \notin Hooked => \A i \in Jobs \ {j} : pc[i] = "hooks" => sess[i] # s
        BY <1>4, <1>h, <2>4, <3>2
      <3> QED
        BY <1>0, <1>4, <2>1, <2>4, <3>1, <3>3, <3>4, <3>5, <3>6 DEF Calm
    <2> QED
      BY <2>3, <2>4
  <1>5. ASSUME NEW j \in Jobs, HooksDoneBusy(j), Calm(s)
        PROVE  Calm(s)'
    <2>1. /\ everQueued' = everQueued \cup {sess[j]} /\ UNCHANGED <<active, agent, kind, sess, chan>>
          /\ pc' = Resumed(j, [pc EXCEPT ![j] = "queued"], "ending") /\ pc[j] = "hooks"
          /\ pending' = [pending EXCEPT ![sess[j]] = Append(@, j)]
      BY <1>5 DEF HooksDoneBusy, Enqueue
    <2>2. sess[j] # s
      <3>1. /\ pending'[sess[j]] = Append(pending[sess[j]], j)
            /\ pending[sess[j]] \in Seq(Jobs)
        BY <1>0, <2>1
      <3>2. Append(pending[sess[j]], j) # <<>>
        BY <3>1
      <3> QED
        BY <2>1, <3>1, <3>2 DEF Undisturbed, Clean
    <2>3. caller[j] # None => sess[caller[j]] = sess[j] /\ caller[j] \in Jobs
      BY <1>0, <2>1 DEF Nesting
    <2>4. \A i \in Jobs : sess[i] = s => pc'[i] = pc[i]
      BY <1>0, <2>1, <2>2, <2>3 DEF Resumed
    <2>5. pending'[s] = pending[s]
      BY <1>0, <2>1, <2>2
    <2> QED
      BY <1>0, <1>5, <1>f, <2>1, <2>4, <2>5 DEF Same
  \* An owner goes on and stays one.
  <1>o. ASSUME NEW j \in Jobs, NEW p \in {"opening", "turn", "ending", "closing"},
               pc' = [pc EXCEPT ![j] = p], UNCHANGED <<active, pending, agent, kind, sess, chan>>,
               sess[j] = s => Owns(j) /\ Owns(j)' /\ (Leads(j) \/ Quiet), Calm(s)
        PROVE  Calm(s)'
    <2>1. \A i \in Jobs \ {j} : Same(i)
      BY <1>0, <1>o DEF Same
    <2>2. CASE sess[j] # s
      BY <1>0, <1>f, <1>o, <2>1, <2>2
    <2>3. CASE sess[j] = s
      <3>1. \A i \in Jobs \ {j} : /\ Owns(i)' => Owns(i)
                                  /\ Rests(i)' => Rests(i)
                                  /\ pc'[i] = pc[i]
        BY <2>1 DEF Same, Owns, Rests
      <3>2. ~Rests(j)' /\ pc'[j] \notin {"failing", "hooks"}
        BY <1>0, <1>o, <2>3 DEF Rests, Owns
      <3>3. "SessionStart" \notin Hooked => \A i \in Jobs : pc'[i] = "hooks" => sess[i] # s
        BY <1>h, <1>o, <2>3, <3>1, <3>2
      <3> QED
        BY <1>0, <1>o, <2>3, <3>1, <3>2, <3>3 DEF Calm
    <2> QED
      BY <2>2, <2>3
  <1>6. ASSUME NEW j \in Jobs, CaptureDone(j), Calm(s)
        PROVE  Calm(s)'
    <2>1. /\ Quiet /\ pc[j] = "capture" /\ pc' = [pc EXCEPT ![j] = "opening"]
          /\ UNCHANGED <<active, pending, agent, kind, sess, chan>>
      BY <1>6 DEF CaptureDone, agentVars
    <2> QED
      BY <1>0, <1>6, <1>o, <2>1 DEF Owns
  <1>7. ASSUME NEW j \in Jobs, BeginTurn(j), Calm(s)
        PROVE  Calm(s)'
    <2>1. /\ pc[j] = "opening" /\ pc' = [pc EXCEPT ![j] = "turn"]
          /\ UNCHANGED <<active, pending, agent, kind, sess, chan>>
      BY <1>7 DEF BeginTurn, agentVars
    <2> QED
      BY <1>0, <1>7, <1>o, <2>1 DEF Owns, Leads, Resumable, Micro
  <1>8. ASSUME NEW j \in Jobs, EndTurn(j), Calm(s)
        PROVE  Calm(s)'
    <2>1. /\ (pc[j] = "turn" /\ kind[j] # "reset") \/ pc[j] = "failing"
          /\ (Resumable(j) \/ Quiet) /\ pc' = [pc EXCEPT ![j] = "ending"]
          /\ UNCHANGED <<active, pending, agent, kind, sess, chan>>
      BY <1>8 DEF EndTurn, agentVars
    <2>2. sess[j] = s => pc[j] = "turn" /\ kind[j] # "reset"
      BY <1>8, <2>1 DEF Calm
    <2>3. sess[j] = s => Owns(j) /\ Owns(j)' /\ (Leads(j) \/ Quiet)
      BY <1>0, <2>1, <2>2 DEF Owns, Leads
    <2> QED
      BY <1>8, <1>o, <2>1, <2>3
  \* A release of another session.
  <1>x. ASSUME NEW r \in Sessions \ {s}, NEW pcs \in [Jobs -> PCs], NEW st \in [Sessions -> States],
               Release(r, pcs, st), Calm(s),
               \A i \in Jobs : pc[i] = "queued" => pcs[i] = "queued",
               s = Main => agent' = agent,
               \A i \in Jobs : sess'[i] = s =>
                 /\ sess[i] = s /\ kind'[i] = kind[i] /\ chan'[i] = chan[i]
                 /\ (pcs[i] = pc[i] \/ pcs[i] \in Inert)
        PROVE  Calm(s)'
    <2>1. \A i \in Jobs : sess[i] = s => pc'[i] = pcs[i]
      BY <1>x, ReleaseOf
    <2>2. (s \in active' <=> s \in active) /\ pending'[s] = pending[s]
      BY <1>x, ReleaseOf
    <2>3. \A i \in Jobs : sess'[i] = s => Same(i) \/ pc'[i] \in Inert
      BY <1>x, <2>1 DEF Same
    <2> QED
      BY <1>f, <1>x, <2>2, <2>3
  \* A release of this session, after which nobody owns it.
  <1>y. ASSUME NEW pcs \in [Jobs -> PCs], NEW st \in [Sessions -> States],
               Release(s, pcs, st), Calm(s)
        PROVE  pc' = pcs /\ pending' = pending /\ active' = active \ {s}
    BY <1>y DEF Calm, Release
  <1>z. ASSUME pending'[s] = <<>>,
               \A i \in Jobs : sess'[i] = s => ~Owns(i)' /\ pc'[i] # "failing",
               \A i, k \in Jobs : "SessionStart" \notin Hooked /\ pc'[i] = "hooks" /\ Leads(k)'
                                  /\ sess'[i] = s /\ sess'[k] = s => i = k,
               s = Main => \A a \in Agents : agent'[a] # "running"
        PROVE  Calm(s)'
    BY <1>z DEF Calm
  <1>9. ASSUME NEW j \in Jobs, ResetSession(j), Calm(s)
        PROVE  Calm(s)'
    <2>1. /\ pc[j] = "turn" /\ kind[j] = "reset" /\ (Resumable(j) \/ Quiet) /\ agent' = agent
      BY <1>9 DEF ResetSession
    <2>2. PICK n \in Jobs :
            /\ caller[n] = j
            /\ Release(sess[j], [pc EXCEPT ![j] = "nested", ![n] = "hooks"], state)
            /\ sess' = [sess EXCEPT ![n] = sess[j]] /\ kind' = [kind EXCEPT ![n] = "startup"]
            /\ chan' = [chan EXCEPT ![n] = chan[j]]
      BY <1>9 DEF ResetSession
    <2> DEFINE pcs == [pc EXCEPT ![j] = "nested", ![n] = "hooks"]
    <2>3. n # j /\ pc[n] = "unborn"
      BY <1>0, <2>1, <2>2, NoneAssumption DEF CallerOK
    <2>4. /\ pcs \in [Jobs -> PCs] /\ pcs[j] = "nested" /\ pcs[n] = "hooks"
          /\ \A i \in Jobs \ {j, n} : pcs[i] = pc[i]
      BY <1>0, <2>3 DEF PCs, InFlight, Holding
    <2>5. Release(sess[j], pcs, state) /\ sess[j] \in Sessions
      BY <1>0, <2>2
    <2> HIDE DEF pcs
    <2>6. \A i \in Jobs : pc[i] = "queued" => pcs[i] = "queued"
      BY <2>1, <2>3, <2>4
    <2>7. CASE sess[j] # s
      <3>1. \A i \in Jobs : sess'[i] = s =>
              /\ sess[i] = s /\ kind'[i] = kind[i] /\ chan'[i] = chan[i]
              /\ (pcs[i] = pc[i] \/ pcs[i] \in Inert)
        BY <1>0, <2>2, <2>4, <2>7
      <3> QED
        BY <1>0, <1>9, <1>x, <2>1, <2>4, <2>5, <2>6, <2>7, <3>1
    <2>8. CASE sess[j] = s
      <3>1. pc' = pcs /\ pending' = pending
        BY <1>0, <1>9, <1>y, <2>4, <2>5, <2>8
      <3>2. Owns(j) /\ (Leads(j) \/ Quiet)
        BY <2>1 DEF Owns, Leads
      <3>3. \A i \in Jobs \ {j} : sess[i] = s => ~Owns(i) /\ ~Rests(i) /\ pc[i] # "failing"
        BY <1>9, <2>8, <3>2 DEF Calm
      <3>4. \A i \in Jobs \ {j, n} : Same(i)
        BY <1>0, <2>2, <2>4, <3>1 DEF Same
      <3>5. \A i \in Jobs \ {j, n} : /\ Owns(i)' => Owns(i)
                                     /\ Leads(i)' => Leads(i)
                                     /\ pc'[i] = pc[i] /\ sess'[i] = sess[i]
        BY <3>4 DEF Same, Owns, Leads, Resumable
      <3>6. /\ ~Owns(j)' /\ ~Leads(j)' /\ ~Owns(n)'
            /\ pc'[j] = "nested" /\ pc'[n] = "hooks"
        BY <2>4, <3>1 DEF Owns, Leads, Resumable, Micro
      <3>7. "SessionStart" \notin Hooked => \A i \in Jobs \ {j} : pc[i] = "hooks" => sess[i] # s
        BY <1>9, <1>h, <2>8, <3>2
      <3>8. "SessionStart" \notin Hooked => \A i \in Jobs \ {j, n} : Leads(i)' => sess'[i] # s
        BY <1>l, <3>3, <3>5, <3>7
      <3>9. s = Main => \A a \in Agents : agent'[a] # "running"
        BY <1>9, <2>1, <2>8, <3>2 DEF Calm
      <3>10. \A i \in Jobs : sess'[i] = s => ~Owns(i)' /\ pc'[i] # "failing"
        BY <3>3, <3>5, <3>6
      <3>11. \A i, k \in Jobs : "SessionStart" \notin Hooked /\ pc'[i] = "hooks" /\ Leads(k)'
                                /\ sess'[i] = s /\ sess'[k] = s => i = k
        BY <3>5, <3>6, <3>7, <3>8
      <3>12. pending'[s] = <<>>
        BY <1>9, <3>1 DEF Calm
      <3> QED
        BY <1>z, <3>9, <3>10, <3>11, <3>12
    <2> QED
      BY <2>7, <2>8
  \* A call that ends: it is done with the lock, alone with whoever rests.
  <1>e. ASSUME NEW j \in Jobs, Owns(j) \/ Rests(j), Leads(j), Calm(s), sess[j] = s
        PROVE  /\ \A i \in Jobs \ {j} : sess[i] = s => ~Owns(i)
               /\ s = Main => \A a \in Agents : agent[a] # "running"
               /\ "SessionStart" \notin Hooked =>
                    \A i \in Jobs : pc[i] = "hooks" => sess[i] # s \/ i = j
    BY <1>e DEF Calm
  <1>10. ASSUME NEW j \in Jobs, LeaveTurn(j), Calm(s)
         PROVE  Calm(s)'
    <2> DEFINE pcs == [pc EXCEPT ![j] = "closing"]
    <2>1. pc[j] = "ending" /\ UNCHANGED <<kind, sess, chan, agent>> /\ sess[j] \in Sessions
      BY <1>0, <1>10 DEF LeaveTurn
    <2>2. CASE kind[j] = "startup"
      <3>1. pc' = pcs /\ UNCHANGED <<active, pending>>
        BY <1>10, <2>2 DEF LeaveTurn
      <3>2. Owns(j) /\ Owns(j)' /\ Leads(j)
        BY <1>0, <2>1, <2>2, <3>1 DEF Owns, Leads, Resumable, Micro
      <3> QED
        BY <1>10, <1>o, <2>1, <3>1, <3>2
    <2>3. CASE kind[j] # "startup"
      <3>1. Release(sess[j], pcs, state)
        BY <1>10, <2>3 DEF LeaveTurn
      <3>2. /\ pcs \in [Jobs -> PCs] /\ pcs[j] = "closing"
            /\ \A i \in Jobs \ {j} : pcs[i] = pc[i]
        BY <1>0 DEF PCs, InFlight, Holding
      <3> HIDE DEF pcs
      <3>3. \A i \in Jobs : pc[i] = "queued" => pcs[i] = "queued"
        BY <2>1, <3>2
      <3>4. CASE sess[j] # s
        <4>1. \A i \in Jobs : sess'[i] = s =>
                /\ sess[i] = s /\ kind'[i] = kind[i] /\ chan'[i] = chan[i]
                /\ (pcs[i] = pc[i] \/ pcs[i] \in Inert)
          BY <2>1, <3>2, <3>4
        <4> QED
          BY <1>0, <1>10, <1>x, <2>1, <3>1, <3>2, <3>3, <3>4, <4>1
      <3>5. CASE sess[j] = s
        <4>1. pc' = pcs /\ pending' = pending
          BY <1>0, <1>10, <1>y, <3>1, <3>2, <3>5
        <4>2. (Owns(j) \/ Rests(j)) /\ Leads(j)
          BY <2>1 DEF Owns, Rests, Leads, Resumable, Micro
        <4>3. /\ \A i \in Jobs \ {j} : sess[i] = s => ~Owns(i)
              /\ s = Main => \A a \in Agents : agent[a] # "running"
              /\ "SessionStart" \notin Hooked => \A i \in Jobs : pc[i] = "hooks" => sess[i] # s \/ i = j
          BY <1>e, <1>10, <3>5, <4>2
        <4>4. /\ \A i \in Jobs \ {j} : (Owns(i)' => Owns(i)) /\ pc'[i] = pc[i]
              /\ ~Owns(j)' /\ pc'[j] = "closing"
          BY <2>1, <2>3, <3>2, <4>1 DEF Owns
        <4>5. \A i \in Jobs : sess'[i] = s => ~Owns(i)' /\ pc'[i] # "failing"
          BY <1>10, <2>1, <4>3, <4>4 DEF Calm
        <4>6. "SessionStart" \notin Hooked => \A i \in Jobs : pc'[i] = "hooks" => sess'[i] # s
          BY <2>1, <4>3, <4>4
        <4>7. pending'[s] = <<>> /\ (s = Main => \A a \in Agents : agent'[a] # "running")
          BY <1>10, <2>1, <4>1, <4>3 DEF Calm
        <4> QED
          BY <1>z, <4>5, <4>6, <4>7
      <3> QED
        BY <3>4, <3>5
    <2> QED
      BY <2>2, <2>3
  <1>11. ASSUME NEW j \in Jobs, Close(j), Calm(s)
         PROVE  Calm(s)'
    <2> DEFINE p == IF HasContinuation(j) THEN "settled" ELSE "done"
               q == IF j \in throws THEN "failing" ELSE "ending"
               pcs == Resumed(j, [pc EXCEPT ![j] = p], q)
    <2>1. /\ pc[j] = "closing" /\ UNCHANGED <<kind, sess, chan, agent, throws>>
          /\ Release(sess[j], pcs, state) /\ sess[j] \in Sessions
      BY <1>0, <1>11 DEF Close
    <2>2. caller[j] # None =>
            /\ pc[caller[j]] = "nested" /\ kind[caller[j]] = "reset"
            /\ kind[j] = "startup" /\ sess[caller[j]] = sess[j] /\ caller[j] \in Jobs
      BY <1>0, <2>1 DEF CallerOK, Nesting
    <2>3. /\ pcs \in [Jobs -> PCs] /\ pcs[j] \in {"settled", "done"}
          /\ \A i \in Jobs \ {j} : \/ pcs[i] = pc[i]
                                   \/ /\ pc[i] = "nested" /\ i = caller[j]
                                      /\ pcs[i] = q /\ kind[i] = "reset"
                                      /\ kind[j] = "startup" /\ sess[i] = sess[j]
      BY <1>0, <2>1, <2>2 DEF Resumed, PCs, InFlight, Holding
    <2> HIDE DEF pcs
    <2>4. \A i \in Jobs : pc[i] = "queued" => pcs[i] = "queued"
      BY <2>1, <2>3
    <2>5. CASE sess[j] # s
      <3>1. \A i \in Jobs : sess'[i] = s =>
              /\ sess[i] = s /\ kind'[i] = kind[i] /\ chan'[i] = chan[i]
              /\ (pcs[i] = pc[i] \/ pcs[i] \in Inert)
        BY <2>1, <2>3, <2>5
      <3> QED
        BY <1>0, <1>11, <1>x, <2>1, <2>3, <2>4, <2>5, <3>1
    <2>6. CASE sess[j] = s
      <3>1. pc' = pcs /\ pending' = pending
        BY <1>0, <1>11, <1>y, <2>1, <2>3, <2>6
      <3>2. (Owns(j) \/ Rests(j)) /\ Leads(j)
        BY <2>1 DEF Owns, Rests, Leads, Resumable, Micro
      <3>3. /\ \A i \in Jobs \ {j} : sess[i] = s => ~Owns(i)
            /\ s = Main => \A a \in Agents : agent[a] # "running"
            /\ "SessionStart" \notin Hooked => \A i \in Jobs : pc[i] = "hooks" => sess[i] # s \/ i = j
        BY <1>e, <1>11, <2>6, <3>2
      <3>4. kind[j] = "startup" => q = "ending"
        BY <2>1, <2>6 DEF Undisturbed, Clean
      <3>5. /\ \A i \in Jobs \ {j} : /\ Owns(i)' => Owns(i)
                                     /\ pc'[i] \in {"failing", "hooks"} => pc'[i] = pc[i]
            /\ ~Owns(j)' /\ pc'[j] \in {"settled", "done"}
        BY <2>1, <2>3, <3>1, <3>4 DEF Owns
      <3>6. \A i \in Jobs : sess'[i] = s => ~Owns(i)' /\ pc'[i] # "failing"
        BY <1>11, <2>1, <3>3, <3>5 DEF Calm
      <3>7. "SessionStart" \notin Hooked => \A i \in Jobs : pc'[i] = "hooks" => sess'[i] # s
        BY <2>1, <3>3, <3>5
      <3>8. pending'[s] = <<>> /\ (s = Main => \A a \in Agents : agent'[a] # "running")
        BY <1>11, <2>1, <3>1, <3>3 DEF Calm
      <3> QED
        BY <1>z, <3>6, <3>7, <3>8
    <2> QED
      BY <2>5, <2>6
  <1>12. ASSUME NEW j \in Jobs, ServeRequests(j), Calm(s)
         PROVE  Calm(s)'
    <2>1. /\ pc' = [pc EXCEPT ![j] = "done"]
          /\ UNCHANGED <<active, pending, agent, kind, sess, chan>>
      BY <1>12 DEF ServeRequests
    <2> QED
      BY <1>0, <1>12, <1>f, <2>1 DEF Same, Inert
  <1>13. ASSUME NEW a \in Agents, StartConsolidation(a), Calm(s)
         PROVE  Calm(s)'
    <2>1. /\ Quiet /\ Main \notin active /\ active' = active \cup {Main}
          /\ agent' = [agent EXCEPT ![a] = "running"]
          /\ UNCHANGED <<pc, kind, sess, chan, pending>>
      BY <1>13 DEF StartConsolidation, jobVars
    <2>2. CASE s # Main
      BY <1>13, <1>f, <2>1, <2>2 DEF Same
    <2>3. CASE s = Main
      <3>1. \A i \in Jobs : ~Rests(i)
        BY <2>1 DEF Quiet, Rests, Resumable, Micro
      <3>2. \A i \in Jobs : Owns(i) => sess[i] # Main
        BY <1>13, <2>1, <2>3 DEF Calm
      <3>3. \A b \in Agents \ {a} : agent'[b] # "running"
        BY <1>0, <1>13, <2>1, <2>3 DEF Calm
      <3>4. \A i \in Jobs : (Owns(i)' <=> Owns(i)) /\ (Rests(i)' <=> Rests(i)) /\ (Leads(i)' <=> Leads(i))
        BY <2>1 DEF Owns, Rests, Leads, Resumable
      <3> QED
        BY <1>0, <1>13, <2>1, <2>3, <3>1, <3>2, <3>3, <3>4 DEF Calm
    <2> QED
      BY <2>2, <2>3
  <1>14. ASSUME NEW a \in Agents, EndConsolidation(a), Calm(s)
         PROVE  Calm(s)'
    <2> DEFINE st == [state EXCEPT ![Main] = "idle"]
    <2>1. /\ Release(Main, pc, st) /\ UNCHANGED <<kind, sess, chan>>
          /\ agent[a] = "running" /\ agent' = [agent EXCEPT ![a] = "off"]
      BY <1>14 DEF EndConsolidation
    <2>2. st \in [Sessions -> States]
      BY <1>0 DEF States
    <2> HIDE DEF st
    <2>3. CASE s # Main
      BY <1>0, <1>14, <1>x, <2>1, <2>2, <2>3, MainAssumption
    <2>4. CASE s = Main
      <3>1. pc' = pc /\ pending' = pending
        BY <1>0, <1>14, <1>y, <2>1, <2>2, <2>4
      <3>2. \A b \in Agents : agent'[b] # "running"
        BY <1>0, <1>14, <2>1, <2>4 DEF Calm
      <3>3. \A i \in Jobs : Owns(i) => sess[i] # Main
        BY <1>14, <2>1, <2>4 DEF Calm
      <3>4. \A i \in Jobs : (Owns(i)' <=> Owns(i)) /\ (Leads(i)' <=> Leads(i))
        BY <2>1, <3>1 DEF Owns, Leads, Resumable
      <3> QED
        BY <1>14, <1>z, <2>1, <2>4, <3>1, <3>2, <3>3, <3>4 DEF Calm
    <2> QED
      BY <2>3, <2>4
  <1>15. CASE Exit \/ Crash
    <2>1. /\ \A i \in Jobs : pc'[i] \in {"unborn", "done", "lost"}
          /\ pending'[s] = <<>> /\ \A a \in Agents : agent'[a] # "running"
      BY <1>15 DEF Exit, Crash, Vanish
    <2>2. \A i \in Jobs : ~Owns(i)'
      BY <2>1 DEF Owns
    <2> QED
      BY <1>z, <2>1, <2>2
  <1>16. CASE /\ Calm(s)
              /\ \/ \E j \in Jobs : RequestEffect(j)
                 \/ \E r \in Sessions : Abort(r)
                 \/ SkipConsolidation \/ Boot
                 \/ UNCHANGED vars
    <2>1. UNCHANGED <<pc, kind, sess, chan, active, pending, agent>>
      BY <1>16 DEF RequestEffect, Abort, SkipConsolidation, Boot, vars, jobVars, sessionVars,
                   agentVars
    <2> QED
      BY <1>16, <1>f, <2>1 DEF Same
  <1> QED
    <2>1. ASSUME NEW j \in Jobs, Submit(j), Calm(s)
          PROVE  Calm(s)'
      BY <1>1, <1>2, <1>3, <2>1 DEF Submit
    <2> QED
      BY <1>c, <2>1, <1>4, <1>5, <1>6, <1>7, <1>8, <1>9, <1>10, <1>11, <1>12, <1>13, <1>14,
         <1>15, <1>16 DEF Next, Step

LEMMA CalmInit == Init => LockInv /\ CalmInv
  <1>1. Init => Nesting /\ \A s \in Sessions : Calm(s)
    BY NoneAssumption DEF Init, Nesting, Calm, Owns, Rests
  <1> QED
    BY <1>1, LockInit DEF CalmInv

LEMMA CalmStep == (LockInv /\ CalmInv) /\ [Next]_vars => (LockInv /\ CalmInv)'
  <1> SUFFICES ASSUME LockInv, CalmInv, [Next]_vars PROVE LockInv' /\ CalmInv'
    OBVIOUS
  <1>1. LockInv' /\ Nesting'
    BY LockNext, NestingNext DEF CalmInv
  <1>2. ASSUME NEW s \in Sessions, Undisturbed(s)' \/ Clean(s)' PROVE Calm(s)'
    BY <1>2, CalmNext
  <1> QED
    BY <1>1, <1>2 DEF CalmInv

\* Two turns of a session, or a turn and the MemoryAgent, run at the same time
\* only once an input had to wait there or a startup threw.
THEOREM TurnsExclude == Spec => []ExclusiveUntilQueued
  <1>1. LockInv /\ CalmInv => ExclusiveUntilQueued
    <2> SUFFICES ASSUME LockInv, CalmInv, NEW s \in Sessions, Undisturbed(s)
                 PROVE  /\ \A j, k \in TurnsOf(s) : j = k
                        /\ s = Main /\ TurnsOf(s) # {} => \A a \in Agents : agent[a] = "off"
      BY DEF ExclusiveUntilQueued
    <2>1. Calm(s) /\ agent \in [Agents -> {"off", "running"}]
      BY DEF CalmInv, LockInv, TypeOK
    <2>2. \A j \in TurnsOf(s) : j \in Jobs /\ Owns(j) /\ sess[j] = s
      BY DEF TurnsOf, Owns
    <2> QED
      BY <2>1, <2>2 DEF Calm
  <1> QED
    BY <1>1, CalmInit, CalmStep, PTL DEF Spec

-----------------------------------------------------------------------------
(* What the turns ask of the daemon.                                        *)

\* From the start of its turn to its continuation a call can be counted on to
\* serve a request.
Serving == {"turn", "ending", "closing", "settled"}
Serves(j, k) == pc[j] \in Serving /\ kind[j] = k

\* A call of a user in its session, from the lock to the continuation.
Engaged(j) ==
  /\ pc[j] \in {"capture", "opening"} \cup Serving
  /\ kind[j] \in {"message", "config", "update", "stop"}

\* Every input was awaited, none threw, and no /stop came from Telegram.
AwaitedOnly ==
  /\ \A s \in Sessions : Clean(s)
  /\ \A j \in Jobs : kind[j] = "stop" => chan[j] = "cli"

\* Then one call at a time is engaged in a session, ...
Alone ==
  /\ \A j, k \in Jobs : Engaged(j) /\ Engaged(k) /\ sess[j] = sess[k] => j = k
  /\ \A j \in Jobs : pc[j] = "hooks" => kind[j] = "startup"

\* ... and behind a request there is a call that is going to serve it: the call
\* that made it, but for a restart that a reload of another session came before.
Asked ==
  /\ "stop" \in requested => \E j \in Jobs : Serves(j, "stop")
  /\ "reload" \in requested => \E j \in Jobs : Serves(j, "config")
  /\ "restart" \in requested =>
       \/ \E j \in Jobs : Serves(j, "update")
       \/ \E i, j \in Jobs : kind[i] = "update" /\ kind[j] = "config" /\ sess[i] # sess[j]

AskedInv ==
  /\ \A j \in Jobs : pc[j] = "unborn" => kind[j] = "message"
  /\ daemon = "down" => requested = {}
  /\ AwaitedOnly => Alone /\ (daemon = "up" => Asked)

\* A call keeps what it was submitted with, and an unborn one has nothing.
LEMMA CallsKeep ==
  ASSUME LockInv, \A j \in Jobs : pc[j] = "unborn" => kind[j] = "message", [Next]_vars
  PROVE  /\ \A j \in Jobs : pc'[j] = "unborn" => kind'[j] = "message"
         /\ \A j \in Jobs : pc[j] # "unborn" =>
              pc'[j] # "unborn" /\ kind'[j] = kind[j] /\ sess'[j] = sess[j] /\ chan'[j] = chan[j]
  <1>0. /\ pc \in [Jobs -> PCs] /\ caller \in [Jobs -> Jobs \cup {None}]
        /\ sess \in [Jobs -> Sessions] /\ kind \in [Jobs -> AllKinds]
        /\ chan \in [Jobs -> AllChannels] /\ state \in [Sessions -> States] /\ CallerOK
    BY DEF LockInv, TypeOK, States
  <1> DEFINE Keeps(i) ==
        \/ pc'[i] # "unborn" /\ (pc[i] # "unborn" => kind'[i] = kind[i] /\ sess'[i] = sess[i] /\ chan'[i] = chan[i])
        \/ pc[i] = "unborn" /\ kind'[i] = kind[i]
  <1>k. ASSUME \A i \in Jobs : Keeps(i)
        PROVE  /\ \A j \in Jobs : pc'[j] = "unborn" => kind'[j] = "message"
               /\ \A j \in Jobs : pc[j] # "unborn" =>
                    pc'[j] # "unborn" /\ kind'[j] = kind[j] /\ sess'[j] = sess[j] /\ chan'[j] = chan[j]
    BY <1>k
  <1> HIDE DEF Keeps
  \* A release starts at most one call, which is not an unborn one.
  <1>r. ASSUME NEW r \in Sessions, NEW pcs \in [Jobs -> PCs], NEW st \in [Sessions -> States],
               Release(r, pcs, st), \A i \in Jobs : pc[i] = "queued" => pcs[i] = "queued"
        PROVE  \A i \in Jobs : pc'[i] = pcs[i] \/ (pc[i] = "queued" /\ pc'[i] # "unborn")
    BY <1>r, ReleaseOf
  <1>1. ASSUME NEW j \in Jobs, Submit(j)
        PROVE  \A i \in Jobs : Keeps(i)
    <2>1. PICK k, s, ch : Describe(j, s, k, ch)
      BY <1>1 DEF Submit, SubmitBusy, SubmitFree, SubmitStartup
    <2>2. pc[j] = "unborn" /\ \E p \in PCs \ {"unborn"} : pc' = [pc EXCEPT ![j] = p]
      <3>1. \A kd : FirstAwait(kd) \subseteq PCs \ {"unborn"}
        BY FirstAwaitKinds DEF PCs, InFlight, Holding
      <3> QED
        BY <1>1, <3>1 DEF Submit, SubmitBusy, SubmitFree, SubmitStartup, Fresh, PCs, InFlight
    <2>3. /\ kind' = [kind EXCEPT ![j] = k] /\ sess' = [sess EXCEPT ![j] = s]
          /\ chan' = [chan EXCEPT ![j] = ch]
      BY <2>1 DEF Describe
    <2> QED
      BY <1>0, <2>2, <2>3 DEF Keeps
  <1>2. ASSUME NEW j \in Jobs, HooksDoneBusy(j)
        PROVE  \A i \in Jobs : Keeps(i)
    <2>1. /\ pc' = Resumed(j, [pc EXCEPT ![j] = "queued"], "ending") /\ pc[j] = "hooks"
          /\ UNCHANGED <<kind, sess, chan>>
      BY <1>2 DEF HooksDoneBusy
    <2> QED
      BY <1>0, <2>1 DEF Resumed, Keeps
  <1>3. ASSUME NEW j \in Jobs,
               \/ HooksDoneFree(j) \/ CaptureDone(j) \/ BeginTurn(j)
               \/ EndTurn(j) \/ ServeRequests(j)
        PROVE  \A i \in Jobs : Keeps(i)
    <2>1. /\ UNCHANGED <<kind, sess, chan>>
          /\ \E p \in PCs \ {"unborn"} : pc' = [pc EXCEPT ![j] = p]
      BY <1>3 DEF HooksDoneFree, CaptureDone, BeginTurn, EndTurn, ServeRequests, PCs, InFlight, Holding
    <2> QED
      BY <1>0, <2>1 DEF Keeps
  <1>4. ASSUME NEW j \in Jobs, ResetSession(j)
        PROVE  \A i \in Jobs : Keeps(i)
    <2>1. pc[j] = "turn"
      BY <1>4 DEF ResetSession
    <2>2. PICK n \in Jobs :
            /\ caller[n] = j
            /\ Release(sess[j], [pc EXCEPT ![j] = "nested", ![n] = "hooks"], state)
            /\ sess' = [sess EXCEPT ![n] = sess[j]] /\ kind' = [kind EXCEPT ![n] = "startup"]
            /\ chan' = [chan EXCEPT ![n] = chan[j]]
      BY <1>4 DEF ResetSession
    <2> DEFINE pcs == [pc EXCEPT ![j] = "nested", ![n] = "hooks"]
    <2>3. n # j /\ pc[n] = "unborn"
      BY <1>0, <2>1, <2>2, NoneAssumption DEF CallerOK
    <2>4. /\ pcs \in [Jobs -> PCs] /\ pcs[j] = "nested" /\ pcs[n] = "hooks"
          /\ \A i \in Jobs \ {j, n} : pcs[i] = pc[i]
      BY <1>0, <2>3 DEF PCs, InFlight, Holding
    <2>5. Release(sess[j], pcs, state) /\ sess[j] \in Sessions
      BY <1>0, <2>2
    <2> HIDE DEF pcs
    <2>6. \A i \in Jobs : pc[i] = "queued" => pcs[i] = "queued"
      BY <2>1, <2>3, <2>4
    <2>7. \A i \in Jobs : pc'[i] = pcs[i] \/ (pc[i] = "queued" /\ pc'[i] # "unborn")
      BY <1>0, <1>r, <2>4, <2>5, <2>6
    <2> QED
      BY <1>0, <2>1, <2>2, <2>3, <2>4, <2>7 DEF Keeps
  <1>5. ASSUME NEW j \in Jobs, LeaveTurn(j)
        PROVE  \A i \in Jobs : Keeps(i)
    <2> DEFINE pcs == [pc EXCEPT ![j] = "closing"]
    <2>1. pc[j] = "ending" /\ UNCHANGED <<kind, sess, chan>> /\ sess[j] \in Sessions
      BY <1>0, <1>5 DEF LeaveTurn
    <2>2. /\ pcs \in [Jobs -> PCs] /\ pcs[j] = "closing" /\ \A i \in Jobs \ {j} : pcs[i] = pc[i]
      BY <1>0 DEF PCs, InFlight, Holding
    <2>3. pc' = pcs \/ Release(sess[j], pcs, state)
      BY <1>5 DEF LeaveTurn
    <2> HIDE DEF pcs
    <2>4. \A i \in Jobs : pc'[i] = pcs[i] \/ (pc[i] = "queued" /\ pc'[i] # "unborn")
      BY <1>0, <1>r, <2>1, <2>2, <2>3
    <2> QED
      BY <2>1, <2>2, <2>4 DEF Keeps
  <1>6. ASSUME NEW j \in Jobs, Close(j)
        PROVE  \A i \in Jobs : Keeps(i)
    <2> DEFINE p == IF HasContinuation(j) THEN "settled" ELSE "done"
               q == IF j \in throws THEN "failing" ELSE "ending"
               pcs == Resumed(j, [pc EXCEPT ![j] = p], q)
    <2>1. /\ pc[j] = "closing" /\ UNCHANGED <<kind, sess, chan>>
          /\ Release(sess[j], pcs, state) /\ sess[j] \in Sessions
      BY <1>0, <1>6 DEF Close
    <2>2. caller[j] # None => pc[caller[j]] = "nested" /\ caller[j] \in Jobs
      BY <1>0, <2>1 DEF CallerOK
    <2>3. /\ pcs \in [Jobs -> PCs]
          /\ \A i \in Jobs : pcs[i] = pc[i] \/ (pc[i] \in {"closing", "nested"} /\ pcs[i] # "unborn")
      BY <1>0, <2>1, <2>2 DEF Resumed, PCs, InFlight, Holding
    <2> HIDE DEF pcs
    <2>4. \A i \in Jobs : pc'[i] = pcs[i] \/ (pc[i] = "queued" /\ pc'[i] # "unborn")
      BY <1>0, <1>r, <2>1, <2>3
    <2> QED
      BY <2>1, <2>3, <2>4 DEF Keeps
  <1>7. ASSUME NEW a \in Agents, EndConsolidation(a)
        PROVE  \A i \in Jobs : Keeps(i)
    <2> DEFINE st == [state EXCEPT ![Main] = "idle"]
    <2>1. Release(Main, pc, st) /\ UNCHANGED <<kind, sess, chan>> /\ st \in [Sessions -> States]
      BY <1>0, <1>7 DEF EndConsolidation, States
    <2> HIDE DEF st
    <2>2. \A i \in Jobs : pc'[i] = pc[i] \/ (pc[i] = "queued" /\ pc'[i] # "unborn")
      BY <1>0, <1>r, <2>1, MainAssumption
    <2> QED
      BY <2>1, <2>2 DEF Keeps
  <1>8. ASSUME Exit \/ Crash
        PROVE  \A i \in Jobs : Keeps(i)
    BY <1>8 DEF Exit, Crash, Vanish, Keeps
  <1>9. ASSUME \/ \E j \in Jobs : RequestEffect(j)
               \/ \E r \in Sessions : Abort(r)
               \/ SkipConsolidation \/ Boot
               \/ \E a \in Agents : StartConsolidation(a)
               \/ UNCHANGED vars
        PROVE  \A i \in Jobs : Keeps(i)
    <2>1. UNCHANGED <<pc, kind, sess, chan>>
      BY <1>9 DEF RequestEffect, Abort, SkipConsolidation, Boot, StartConsolidation, vars, jobVars
    <2> QED
      BY <2>1 DEF Keeps
  <1> QED
    BY <1>k, <1>1, <1>2, <1>3, <1>4, <1>5, <1>6, <1>7, <1>8, <1>9 DEF Next, Step

\* Two inputs of a session are not awaited at once, and requests keep whom they
\* wait for.
LEMMA AskedNext ==
  ASSUME LockInv, CalmInv, AskedInv, [Next]_vars, ~Exit, ~Crash, ~Boot, AwaitedOnly'
  PROVE  Alone' /\ (daemon' = "up" => Asked')
  <1>0. /\ pc \in [Jobs -> PCs] /\ caller \in [Jobs -> Jobs \cup {None}]
        /\ sess \in [Jobs -> Sessions] /\ kind \in [Jobs -> AllKinds]
        /\ chan \in [Jobs -> AllChannels] /\ pending \in [Sessions -> Seq(Jobs)]
        /\ requested \in SUBSET {"stop", "reload", "restart"}
        /\ CallerOK /\ Nesting /\ Main \in Sessions
    BY MainAssumption DEF LockInv, TypeOK, CalmInv
  <1>1. \A j \in Jobs : pc[j] # "unborn" =>
          pc'[j] # "unborn" /\ kind'[j] = kind[j] /\ sess'[j] = sess[j] /\ chan'[j] = chan[j]
    BY CallsKeep DEF AskedInv
  <1>2. AwaitedOnly
    <2>1. \A s \in Sessions : Clean(s)
      BY StaysClean DEF AwaitedOnly
    <2>2. \A j \in Jobs : kind[j] = "stop" => chan[j] = "cli"
      BY <1>1 DEF AwaitedOnly, AskedInv
    <2> QED
      BY <2>1, <2>2 DEF AwaitedOnly
  <1>3. /\ Alone /\ (daemon = "up" => Asked) /\ flushed = {} /\ throws = {}
        /\ \A s \in Sessions : pending[s] = <<>> /\ Calm(s)
    BY <1>0, <1>2 DEF AskedInv, AwaitedOnly, CalmInv, Clean
  <1>4. flushed' = {} /\ throws' = {} /\ \A s \in Sessions : pending'[s] = <<>>
    BY <1>0 DEF AwaitedOnly, Clean
  \* Nobody is started from a queue.
  <1>r. ASSUME NEW r \in Sessions, NEW pcs, NEW st, Release(r, pcs, st)
        PROVE  pc' = pcs
    BY <1>3, <1>r DEF Release
  \* Engaged calls stay the same or get fewer.
  <1>a. ASSUME \A i \in Jobs : Engaged(i)' => pc[i] # "unborn" /\ Engaged(i),
               \A i \in Jobs : pc'[i] = "hooks" => pc[i] = "hooks" \/ kind'[i] = "startup"
        PROVE  Alone'
    BY <1>1, <1>3, <1>a DEF Alone
  \* Who serves a request is still there.
  <1>s. ASSUME daemon' = "up" => daemon = "up",
               \A i \in Jobs : pc[i] \in Serving /\ kind[i] \in {"stop", "config", "update"} => pc'[i] \in Serving,
               "stop" \in requested' => "stop" \in requested \/ \E i \in Jobs : Serves(i, "stop")',
               "reload" \in requested' => "reload" \in requested \/ \E i \in Jobs : Serves(i, "config")',
               "restart" \in requested' => "restart" \in requested \/ \E i \in Jobs : Serves(i, "update")'
        PROVE  daemon' = "up" => Asked'
    <2>1. SUFFICES ASSUME daemon' = "up" PROVE Asked'
      OBVIOUS
    <2>2. \A i \in Jobs, k \in {"stop", "config", "update"} : Serves(i, k) => Serves(i, k)'
      BY <1>1, <1>s DEF Serves, Serving
    <2>3. \A i \in Jobs : kind[i] \in {"config", "update"} => kind'[i] = kind[i] /\ sess'[i] = sess[i]
      BY <1>1 DEF AskedInv
    <2>4. Asked
      BY <1>3, <1>s, <2>1
    <2> QED
      BY <1>s, <2>2, <2>3, <2>4 DEF Asked
  <1>5. ASSUME NEW j \in Jobs, Submit(j)
        PROVE  Alone' /\ (daemon' = "up" => Asked')
    <2>0. pc[j] = "unborn"
      BY <1>5 DEF Submit, SubmitBusy, SubmitFree, SubmitStartup, Fresh
    <2>1. ASSUME NEW s \in Sessions, NEW k \in Kinds \ {"startup"}, NEW ch \in Channels, SubmitBusy(j, s, k, ch)
          PROVE  FALSE
      <3>1. pending'[s] = Append(pending[s], j) /\ pending[s] \in Seq(Jobs)
        BY <1>0, <2>1 DEF SubmitBusy, Enqueue
      <3>2. Append(pending[s], j) # <<>>
        BY <1>5, <3>1, AppendQueue
      <3> QED
        BY <1>4, <3>1, <3>2
    <2>2. ASSUME NEW s \in Sessions, NEW k \in Kinds \ {"startup"}, NEW ch \in Channels, SubmitFree(j, s, k, ch)
          PROVE  Alone' /\ (daemon' = "up" => Asked')
      <3>1. /\ Quiet /\ s \notin active /\ UNCHANGED daemonVars
            /\ sess' = [sess EXCEPT ![j] = s]
            /\ \E p \in {"capture", "opening"} : pc' = [pc EXCEPT ![j] = p]
        BY <2>2 DEF SubmitFree, Describe, FirstAwait
      <3>2. \A i \in Jobs \ {j} : pc'[i] = pc[i] /\ (pc[i] # "unborn" => kind'[i] = kind[i] /\ sess'[i] = sess[i])
        BY <1>0, <1>1, <3>1
      <3>3. \A i \in Jobs : Engaged(i) => sess[i] # s
        <4>1. \A i \in Jobs : Engaged(i) => Owns(i)
          BY <3>1 DEF Quiet, Resumable, Engaged, Serving, Owns, Micro
        <4> QED
          BY <1>3, <3>1, <4>1 DEF Calm
      <3>4. \A i \in Jobs \ {j} : Engaged(i)' => Engaged(i) /\ sess'[i] = sess[i]
        BY <3>2 DEF Engaged, Serving
      <3>5. sess'[j] = s /\ pc'[j] # "hooks"
        BY <1>0, <3>1
      <3>6. Alone'
        BY <1>3, <3>2, <3>3, <3>4, <3>5 DEF Alone
      <3>7. \A i \in Jobs : pc[i] \in Serving => pc'[i] \in Serving
        BY <2>0, <3>2 DEF Serving
      <3> QED
        BY <1>s, <3>1, <3>6, <3>7 DEF daemonVars
    <2>3. ASSUME NEW s \in Sessions, SubmitStartup(j, s)
          PROVE  Alone' /\ (daemon' = "up" => Asked')
      <3>1. UNCHANGED daemonVars /\ pc' = [pc EXCEPT ![j] = "hooks"] /\ kind' = [kind EXCEPT ![j] = "startup"]
        BY <2>3 DEF SubmitStartup, Describe
      <3>2. \A i \in Jobs \ {j} : pc'[i] = pc[i] /\ kind'[i] = kind[i]
        BY <1>0, <3>1
      <3>3. pc'[j] = "hooks" /\ kind'[j] = "startup"
        BY <1>0, <3>1
      <3>4. \A i \in Jobs : Engaged(i)' => pc[i] # "unborn" /\ Engaged(i)
        BY <3>2, <3>3 DEF Engaged, Serving
      <3>5. \A i \in Jobs : pc[i] \in Serving => pc'[i] \in Serving
        BY <2>0, <3>2 DEF Serving
      <3> QED
        BY <1>a, <1>s, <3>1, <3>2, <3>3, <3>4, <3>5 DEF daemonVars
    <2> QED
      BY <1>5, <2>1, <2>2, <2>3 DEF Submit
  <1>6. ASSUME NEW j \in Jobs, HooksDoneBusy(j)
        PROVE  FALSE
    <2>1. /\ sess[j] \in Sessions /\ pending[sess[j]] \in Seq(Jobs)
          /\ pending'[sess[j]] = Append(pending[sess[j]], j)
      BY <1>0, <1>6 DEF HooksDoneBusy, Enqueue
    <2>2. Append(pending[sess[j]], j) # <<>>
      BY <2>1
    <2> QED
      BY <1>4, <2>1, <2>2
  \* A call that goes on.
  <1>g. ASSUME NEW j \in Jobs, NEW p, pc' = [pc EXCEPT ![j] = p], UNCHANGED <<kind, daemon>>, p # "hooks",
               Engaged(j)' => pc[j] # "unborn" /\ Engaged(j),
               pc[j] \in Serving => p \in Serving,
               "stop" \in requested' => "stop" \in requested \/ \E i \in Jobs : Serves(i, "stop")',
               "reload" \in requested' => "reload" \in requested \/ \E i \in Jobs : Serves(i, "config")',
               "restart" \in requested' => "restart" \in requested \/ \E i \in Jobs : Serves(i, "update")'
        PROVE  Alone' /\ (daemon' = "up" => Asked')
    <2>1. pc'[j] = p /\ \A i \in Jobs \ {j} : pc'[i] = pc[i]
      BY <1>0, <1>g
    <2>2. \A i \in Jobs : Engaged(i)' => pc[i] # "unborn" /\ Engaged(i)
      BY <1>g, <2>1 DEF Engaged, Serving
    <2>3. \A i \in Jobs : pc'[i] = "hooks" => pc[i] = "hooks"
      BY <1>g, <2>1
    <2>4. \A i \in Jobs : pc[i] \in Serving => pc'[i] \in Serving
      BY <1>g, <2>1
    <2> QED
      BY <1>a, <1>g, <1>s, <2>2, <2>3, <2>4
  <1>7. ASSUME NEW j \in Jobs, HooksDoneFree(j)
        PROVE  Alone' /\ (daemon' = "up" => Asked')
    <2>1. /\ pc[j] = "hooks" /\ pc' = [pc EXCEPT ![j] = "opening"]
          /\ UNCHANGED <<kind, daemon, requested>>
      BY <1>7 DEF HooksDoneFree, daemonVars
    <2>2. ~Engaged(j)'
      BY <1>3, <2>1 DEF Alone, Engaged
    <2> QED
      BY <1>g, <2>1, <2>2 DEF Serving
  <1>8. ASSUME NEW j \in Jobs, CaptureDone(j)
        PROVE  Alone' /\ (daemon' = "up" => Asked')
    <2>1. /\ pc[j] = "capture" /\ pc' = [pc EXCEPT ![j] = "opening"]
          /\ UNCHANGED <<kind, daemon, requested>>
      BY <1>8 DEF CaptureDone, daemonVars
    <2>2. Engaged(j)' => Engaged(j)
      BY <2>1 DEF Engaged
    <2> QED
      BY <1>g, <2>1, <2>2 DEF Serving
  <1>9. ASSUME NEW j \in Jobs, BeginTurn(j)
        PROVE  Alone' /\ (daemon' = "up" => Asked')
    <2>1. /\ pc[j] = "opening" /\ pc' = [pc EXCEPT ![j] = "turn"]
          /\ UNCHANGED <<kind, daemon>>
          /\ requested' = IF kind[j] = "stop" THEN requested \cup {"stop"} ELSE requested
      BY <1>9 DEF BeginTurn
    <2>2. Engaged(j)' => Engaged(j)
      BY <2>1 DEF Engaged
    <2>3. kind[j] = "stop" => Serves(j, "stop")'
      BY <1>0, <2>1 DEF Serves, Serving
    <2> QED
      BY <1>g, <2>1, <2>2, <2>3 DEF Serving
  <1>10. ASSUME NEW j \in Jobs, RequestEffect(j)
         PROVE  Alone' /\ (daemon' = "up" => Asked')
    <2>1. /\ pc[j] = "turn" /\ UNCHANGED <<pc, kind, daemon>>
          /\ \/ kind[j] = "config" /\ requested' = requested \cup {"reload"}
             \/ kind[j] = "update" /\ requested' = requested \cup {"restart"}
      BY <1>10 DEF RequestEffect, jobVars
    <2>2. pc' = [pc EXCEPT ![j] = "turn"]
      BY <1>0, <2>1
    <2>3. (kind[j] = "config" => Serves(j, "config")') /\ (kind[j] = "update" => Serves(j, "update")')
      BY <2>1 DEF Serves, Serving
    <2>4. Engaged(j)' => Engaged(j)
      BY <2>1 DEF Engaged
    <2> QED
      BY <1>g, <2>1, <2>2, <2>3, <2>4 DEF Serving
  <1>11. ASSUME NEW j \in Jobs, EndTurn(j)
         PROVE  Alone' /\ (daemon' = "up" => Asked')
    <2>1. /\ pc[j] = "turn" \/ pc[j] = "failing"
          /\ pc' = [pc EXCEPT ![j] = "ending"]
          /\ UNCHANGED <<kind, daemon, requested>>
      BY <1>11 DEF EndTurn, daemonVars
    <2>2. pc[j] = "turn"
      BY <1>0, <1>3, <2>1 DEF Calm
    <2>3. Engaged(j)' => Engaged(j)
      BY <2>1, <2>2 DEF Engaged, Serving
    <2> QED
      BY <1>g, <2>1, <2>2, <2>3 DEF Serving
  <1>12. ASSUME NEW j \in Jobs, ResetSession(j)
         PROVE  Alone' /\ (daemon' = "up" => Asked')
    <2>1. pc[j] = "turn" /\ kind[j] = "reset" /\ UNCHANGED <<daemon, requested>> /\ sess[j] \in Sessions
      BY <1>0, <1>12 DEF ResetSession, daemonVars
    <2>2. PICK n \in Jobs :
            /\ caller[n] = j
            /\ Release(sess[j], [pc EXCEPT ![j] = "nested", ![n] = "hooks"], state)
            /\ kind' = [kind EXCEPT ![n] = "startup"]
      BY <1>12 DEF ResetSession
    <2>3. n # j /\ pc[n] = "unborn"
      BY <1>0, <2>1, <2>2, NoneAssumption DEF CallerOK
    <2>4. pc' = [pc EXCEPT ![j] = "nested", ![n] = "hooks"]
      BY <1>r, <2>1, <2>2
    <2>5. /\ \A i \in Jobs \ {j, n} : pc'[i] = pc[i] /\ kind'[i] = kind[i]
          /\ pc'[j] = "nested" /\ pc'[n] = "hooks" /\ kind'[n] = "startup"
      BY <1>0, <2>2, <2>3, <2>4
    <2>6. \A i \in Jobs : Engaged(i)' => pc[i] # "unborn" /\ Engaged(i)
      BY <2>5 DEF Engaged, Serving
    <2>7. \A i \in Jobs : pc'[i] = "hooks" => pc[i] = "hooks" \/ kind'[i] = "startup"
      BY <2>5
    <2>8. \A i \in Jobs : pc[i] \in Serving /\ kind[i] \in {"stop", "config", "update"} => pc'[i] \in Serving
      BY <2>1, <2>3, <2>5 DEF Serving
    <2> QED
      BY <1>a, <1>s, <2>1, <2>6, <2>7, <2>8
  <1>13. ASSUME NEW j \in Jobs, LeaveTurn(j)
         PROVE  Alone' /\ (daemon' = "up" => Asked')
    <2>1. /\ pc[j] = "ending" /\ UNCHANGED <<kind, daemon, requested>> /\ sess[j] \in Sessions
          /\ \/ pc' = [pc EXCEPT ![j] = "closing"]
             \/ Release(sess[j], [pc EXCEPT ![j] = "closing"], state)
      BY <1>0, <1>13 DEF LeaveTurn, daemonVars
    <2>2. pc' = [pc EXCEPT ![j] = "closing"]
      BY <1>r, <2>1
    <2>3. Engaged(j)' => Engaged(j)
      BY <2>1 DEF Engaged, Serving
    <2> QED
      BY <1>g, <2>1, <2>2, <2>3 DEF Serving
  <1>14. ASSUME NEW j \in Jobs, Close(j)
         PROVE  Alone' /\ (daemon' = "up" => Asked')
    <2> DEFINE p == IF HasContinuation(j) THEN "settled" ELSE "done"
               q == IF j \in throws THEN "failing" ELSE "ending"
               pcs == Resumed(j, [pc EXCEPT ![j] = p], q)
    <2>1. /\ pc[j] = "closing" /\ UNCHANGED <<kind, daemon, requested>> /\ sess[j] \in Sessions
          /\ Release(sess[j], pcs, state)
      BY <1>0, <1>14 DEF Close, daemonVars
    <2>2. pc' = pcs
      BY <1>r, <2>1
    <2>3. caller[j] # None =>
            /\ pc[caller[j]] = "nested" /\ kind[caller[j]] = "reset"
            /\ kind[j] = "startup" /\ caller[j] \in Jobs
      BY <1>0, <2>1 DEF CallerOK, Nesting
    <2>4. kind[j] # "startup" => p = "settled"
      BY <1>3, <2>3 DEF HasContinuation
    <2>5. \A i \in Jobs \ {j} : \/ pc'[i] = pc[i]
                                \/ pc[i] = "nested" /\ pc'[i] = "ending" /\ kind[i] = "reset"
      BY <1>0, <1>3, <2>2, <2>3 DEF Resumed
    <2>6. pc'[j] = p
      BY <1>0, <2>1, <2>2, <2>3 DEF Resumed
    <2>7. \A i \in Jobs : Engaged(i)' => pc[i] # "unborn" /\ Engaged(i)
      BY <2>1, <2>5, <2>6 DEF Engaged, Serving
    <2>8. \A i \in Jobs : pc'[i] = "hooks" => pc[i] = "hooks"
      BY <2>1, <2>5, <2>6
    <2>9. \A i \in Jobs : pc[i] \in Serving /\ kind[i] \in {"stop", "config", "update"} => pc'[i] \in Serving
      BY <2>1, <2>4, <2>5, <2>6 DEF Serving
    <2> QED
      BY <1>a, <1>s, <2>1, <2>7, <2>8, <2>9
  \* A caller serves a request and is no longer there for others.
  <1>15. ASSUME NEW j \in Jobs, ServeRequests(j)
         PROVE  Alone' /\ (daemon' = "up" => Asked')
    <2>1. /\ pc[j] = "settled" /\ pc' = [pc EXCEPT ![j] = "done"] /\ UNCHANGED <<kind, sess, chan>>
          /\ requested' = RequestsAfter(Served(chan[j])) /\ daemon' = DaemonAfter(Served(chan[j]))
      BY <1>15 DEF ServeRequests
    <2>2. pc'[j] = "done" /\ \A i \in Jobs \ {j} : pc'[i] = pc[i]
      BY <1>0, <2>1
    <2>3. Alone'
      <3>1. \A i \in Jobs : Engaged(i)' => pc[i] # "unborn" /\ Engaged(i)
        BY <2>1, <2>2 DEF Engaged, Serving
      <3>2. \A i \in Jobs : pc'[i] = "hooks" => pc[i] = "hooks"
        BY <2>2
      <3> QED
        BY <1>a, <3>1, <3>2
    <2>4. SUFFICES ASSUME daemon' = "up" PROVE Asked'
      BY <2>3
    <2>5. daemon = "up" /\ Served(chan[j]) \in {"none", "reload"} /\ Asked
      BY <1>3, <2>1, <2>4 DEF DaemonAfter, Served
    <2>6. requested' = requested \ {Served(chan[j])}
      BY <2>1, <2>5 DEF RequestsAfter
    <2>7. \A i \in Jobs, k \in {"stop", "config", "update"} : Serves(i, k) /\ i # j => Serves(i, k)'
      BY <2>1, <2>2 DEF Serves, Serving
    <2>8. "stop" \in requested => kind[j] # "stop"
      BY <1>2, <2>5 DEF Served, AwaitedOnly
    <2>9. "reload" \notin requested' /\ ("restart" \in requested' /\ Serves(j, "update") => "reload" \in requested)
      <3>1. CASE "reload" \in requested
        BY <2>5, <2>6, <3>1 DEF Served
      <3>2. CASE "reload" \notin requested
        <4>1. kind[j] = "update" => chan[j] # "cli" \/ "stop" \notin requested
          BY <2>5 DEF Served
        <4> QED
          BY <2>5, <2>6, <3>2, <4>1 DEF Served, Serves
      <3> QED
        BY <3>1, <3>2
    <2>10. "restart" \in requested' =>
             \/ \E i \in Jobs : Serves(i, "update")'
             \/ \E i, k \in Jobs : kind[i] = "update" /\ kind[k] = "config" /\ sess[i] # sess[k]
      <3>1. SUFFICES ASSUME "restart" \in requested', \A i \in Jobs : ~Serves(i, "update")',
                            ~ \E i, k \in Jobs : kind[i] = "update" /\ kind[k] = "config" /\ sess[i] # sess[k]
                     PROVE  FALSE
        OBVIOUS
      <3>2. Serves(j, "update")
        BY <2>5, <2>6, <2>7, <3>1 DEF Asked
      <3>3. PICK k \in Jobs : Serves(k, "config")
        BY <2>5, <2>9, <3>1, <3>2 DEF Asked
      <3>4. Engaged(j) /\ Engaged(k) /\ sess[j] = sess[k]
        BY <3>1, <3>2, <3>3 DEF Serves, Engaged
      <3> QED
        BY <1>3, <3>2, <3>3, <3>4 DEF Alone, Serves
    <2>11. "stop" \in requested' => \E i \in Jobs : Serves(i, "stop")'
      BY <2>5, <2>6, <2>7, <2>8 DEF Asked, Serves
    <2> QED
      BY <2>1, <2>9, <2>10, <2>11 DEF Asked
  <1>16. ASSUME NEW a \in Agents, EndConsolidation(a)
         PROVE  Alone' /\ (daemon' = "up" => Asked')
    <2>1. UNCHANGED <<kind, daemon, requested>> /\ \E st : Release(Main, pc, st)
      BY <1>16 DEF EndConsolidation, daemonVars
    <2>2. pc' = pc
      BY <1>0, <1>r, <2>1
    <2>3. \A i \in Jobs : Engaged(i)' => pc[i] # "unborn" /\ Engaged(i)
      BY <2>1, <2>2 DEF Engaged, Serving
    <2> QED
      BY <1>a, <1>s, <2>1, <2>2, <2>3
  <1>17. ASSUME \/ \E r \in Sessions : Abort(r)
                \/ SkipConsolidation
                \/ \E a \in Agents : StartConsolidation(a)
                \/ UNCHANGED vars
         PROVE  Alone' /\ (daemon' = "up" => Asked')
    <2>1. UNCHANGED <<pc, kind, daemon, requested>>
      BY <1>17 DEF Abort, SkipConsolidation, StartConsolidation, vars, jobVars, daemonVars
    <2>2. \A i \in Jobs : Engaged(i)' => pc[i] # "unborn" /\ Engaged(i)
      BY <2>1 DEF Engaged, Serving
    <2> QED
      BY <1>a, <1>s, <2>1, <2>2
  <1> QED
    BY <1>5, <1>6, <1>7, <1>8, <1>9, <1>10, <1>11, <1>12, <1>13, <1>14, <1>15, <1>16, <1>17
    DEF Next, Step

LEMMA AskedInitial == Init => AskedInv
  BY DEF Init, AskedInv, Alone, Engaged, Serving, Asked

\* The requests of a process that is gone are gone with it.
LEMMA AskedStep ==
  ASSUME LockInv, CalmInv, AskedInv, [Next]_vars
  PROVE  AskedInv'
  <1>1. \A j \in Jobs : pc'[j] = "unborn" => kind'[j] = "message"
    BY CallsKeep DEF AskedInv
  <1>2. CASE Exit \/ Crash
    <2>1. /\ daemon' = "down" /\ requested' = {} /\ \A j \in Jobs : pc'[j] \in {"unborn", "done", "lost"}
      BY <1>2 DEF Exit, Crash, Vanish
    <2>2. Alone'
      BY <2>1 DEF Alone, Engaged, Serving
    <2> QED
      BY <1>1, <2>1, <2>2 DEF AskedInv
  <1>3. CASE Boot
    <2>1. /\ requested' = {} /\ daemon' = "up"
          /\ UNCHANGED <<pc, kind, sess, chan, flushed, throws, pending>>
      BY <1>3 DEF Boot, AskedInv, jobVars
    <2>2. AwaitedOnly' => AwaitedOnly
      BY <2>1 DEF AwaitedOnly, Clean
    <2>3. Alone => Alone'
      BY <2>1 DEF Alone, Engaged
    <2> QED
      BY <1>1, <2>1, <2>2, <2>3 DEF AskedInv, Asked
  <1>4. CASE ~Exit /\ ~Crash /\ ~Boot
    <2>1. daemon' = "down" => daemon = "down" /\ requested' = requested
      <3>1. ASSUME NEW j \in Jobs, Submit(j) PROVE daemon' # "down"
        BY <3>1 DEF Submit, SubmitBusy, SubmitFree, SubmitStartup, Alive, DaemonAfter, daemonVars
      <3>2. ASSUME NEW j \in Jobs, HooksDoneBusy(j) \/ ServeRequests(j) PROVE daemon' # "down"
        BY <3>2 DEF HooksDoneBusy, ServeRequests, Alive, DaemonAfter
      <3>3. ASSUME NEW j \in Jobs,
                   \/ RequestEffect(j) \/ HooksDoneFree(j) \/ CaptureDone(j) \/ BeginTurn(j)
                   \/ EndTurn(j) \/ ResetSession(j) \/ LeaveTurn(j) \/ Close(j)
            PROVE  daemon' # "down"
        BY <3>3 DEF RequestEffect, HooksDoneFree, CaptureDone, BeginTurn, EndTurn, ResetSession,
                    LeaveTurn, Close, Alive, daemonVars
      <3>4. ASSUME \/ \E s \in Sessions : Abort(s)
                   \/ SkipConsolidation
                   \/ \E a \in Agents : StartConsolidation(a) \/ EndConsolidation(a)
                   \/ UNCHANGED vars
            PROVE  UNCHANGED <<daemon, requested>>
        BY <3>4 DEF Abort, SkipConsolidation, StartConsolidation, EndConsolidation, daemonVars, vars
      <3> QED
        BY <1>4, <3>1, <3>2, <3>3, <3>4 DEF Next, Step
    <2>2. AwaitedOnly' => Alone' /\ (daemon' = "up" => Asked')
      BY <1>4, AskedNext
    <2> QED
      BY <1>1, <2>1, <2>2 DEF AskedInv
  <1> QED
    BY <1>2, <1>3, <1>4

\* When every input was awaited and none threw, what the turns asked of the
\* daemon (restartRequested, stopRequested, channelsReloadRequested) is served
\* once they are over, but for a restart behind another session's reload.
THEOREM RequestsAreServed == Spec => []RequestsServed
  <1> DEFINE IInv == LockInv /\ CalmInv /\ AskedInv
  <1>1. Init => IInv
    BY CalmInit, AskedInitial
  <1>2. IInv /\ [Next]_vars => IInv'
    BY CalmStep, AskedStep
  <1>3. IInv => RequestsServed
    <2>1. SUFFICES ASSUME IInv, daemon = "up", flushed = {}, throws = {},
                          \A j \in Jobs : kind[j] = "stop" => chan[j] = "cli",
                          \A j \in Jobs : pc[j] \notin InFlight \cup {"queued"}
                   PROVE  \/ requested = {}
                          \/ /\ requested = {"restart"}
                             /\ \E i, j \in Jobs : kind[i] = "update" /\ kind[j] = "config" /\ sess[i] # sess[j]
      BY DEF RequestsServed
    <2>2. /\ pending \in [Sessions -> Seq(Jobs)] /\ QueueExact
          /\ requested \in SUBSET {"stop", "reload", "restart"}
      BY <2>1 DEF LockInv, TypeOK
    <2>3. \A s \in Sessions : pending[s] = <<>>
      <3>1. SUFFICES ASSUME NEW s \in Sessions, pending[s] # <<>> PROVE FALSE
        OBVIOUS
      <3>2. pending[s] \in Seq(Jobs)
        BY <2>2
      <3>3. pending[s][1] \in Jobs /\ 1 \in DOMAIN pending[s]
        BY <3>1, <3>2
      <3> QED
        BY <2>1, <2>2, <3>3 DEF QueueExact, Waits
    <2>4. Asked
      BY <2>1, <2>3 DEF AskedInv, AwaitedOnly, Clean
    <2>5. \A j \in Jobs, k \in {"stop", "config", "update"} : ~Serves(j, k)
      BY <2>1 DEF Serves, Serving, InFlight, Holding
    <2> QED
      BY <2>2, <2>4, <2>5 DEF Asked
  <1> QED
    BY <1>1, <1>2, <1>3, PTL DEF Spec
=============================================================================
