---------------------------- MODULE SessionTurns ----------------------------
(***************************************************************************)
(* The turn scheduler of MonolitoV2Runtime (src/core/runtime/runtime.ts)   *)
(* and the part of the daemon that acts on what a turn asked for.          *)
(*                                                                         *)
(* A JOB is one call of processMessage or processSessionStartup.  It goes  *)
(* through the awaits of the handler: between two of them the handler runs *)
(* to completion, so each action below is the code between two awaits.     *)
(* The value of pc[j] is the await the call is suspended at:               *)
(*   "unborn"    not submitted (one whose caller is set is reserved for    *)
(*               the startup that a /new will run)                         *)
(*   "hooks"     processSessionStartup, SessionStart hooks: no lock yet    *)
(*   "queued"    an entry of pendingUserMessages                           *)
(*   "capture"   processMessage, silent screenshot: lock held              *)
(*   "opening"   processMessage, transitionState("running")                *)
(*   "turn"      runTurnWithContext or runStartupTurn, model and tools     *)
(*   "nested"    /new awaiting the startup it runs                         *)
(*   "failing"   /new in the catch block: that startup threw               *)
(*   "ending"    the finally of the turn is the next thing to run          *)
(*   "closing"   the finally of processMessage / processSessionStartup is  *)
(*   "settled"   the promise resolved: the caller's continuation is next   *)
(*   "done", "lost" (the process died under it)                            *)
(* The awaits in Micro are on promises that are already resolved, and so    *)
(* are those on hooks when none is configured and those of a /stop that is   *)
(* not answered over Telegram: node resumes such calls before it looks at    *)
(* timers or sockets (see Quiet).                                          *)
(***************************************************************************)
EXTENDS Naturals, Sequences

CONSTANTS
  Jobs,       \* identities of the calls
  Sessions,   \* session ids
  Main,       \* MAIN_SESSION_ID
  Agents,     \* slots for runs of the MemoryAgent that overlap
  None,
  Kinds,      \* kinds of input users submit
  Channels,   \* where they submit them: "cli" (IPC socket), "telegram"
  Hooked,     \* lifecycle events with hook commands in CONF_POLICY
  MaxBoots    \* bound on daemon restarts

AllKinds == {"message", "config", "update", "stop", "reset", "startup"}
AllChannels == {"cli", "telegram"}
AllEvents == {"SessionStart", "SessionEnd"}

ASSUME MainAssumption == Main \in Sessions
ASSUME NoneAssumption == None \notin Jobs
ASSUME KindsAssumption == Kinds \subseteq AllKinds
ASSUME ChannelsAssumption == Channels \subseteq AllChannels
ASSUME HookedAssumption == Hooked \subseteq AllEvents
ASSUME BootsAssumption == MaxBoots \in Nat

VARIABLES
  pc, kind, sess, chan,
  caller,      \* the /new whose handler awaits this startup, or None
  flushed,     \* jobs started by flushPendingUserMessage: nobody awaits them
  aborted,     \* jobs whose AbortController was aborted
  throws,      \* jobs whose promise is going to reject
  active,      \* activeSessions: the per-session lock
  pending,     \* pendingUserMessages
  controller,  \* abortControllers
  context,     \* sessionDeliveryContexts: the Telegram job remembered, or None
  state,       \* the state persisted in the session's meta.json
  everQueued,  \* history: the sessions in which some input had to wait
  timer,       \* memoryConsolidationTimer is armed
  agent,       \* isMemoryAgentRunning, per slot
  failures,    \* _memoryConsolidationFailures, capped at 2
  requested,   \* stopRequested, channelsReloadRequested, restartRequested
  daemon, boots

jobVars == <<pc, kind, sess, chan, caller, flushed, aborted, throws>>
sessionVars == <<active, pending, controller, context, state, everQueued>>
agentVars == <<timer, agent, failures>>
daemonVars == <<requested, daemon, boots>>
vars == <<jobVars, sessionVars, agentVars, daemonVars>>

Micro == {"opening", "ending", "closing", "settled"}
Holding == {"capture", "opening", "turn", "nested", "failing", "ending", "closing"}
InFlight == Holding \cup {"hooks", "settled"}
PCs == InFlight \cup {"unborn", "queued", "done", "lost"}

-----------------------------------------------------------------------------
(* State formulae and helpers of the handlers.                             *)

Alive == daemon \in {"up", "stopping", "restarting"}

Resumable(j) ==
  \/ pc[j] \in Micro
  \/ pc[j] = "hooks" /\ "SessionStart" \notin Hooked
  \/ pc[j] = "turn" /\ kind[j] = "reset" /\ "SessionEnd" \notin Hooked
  \/ pc[j] = "turn" /\ kind[j] = "stop" /\ chan[j] = "cli" /\ sess[j] = Main

\* The microtask queue is empty: only then does node take the next socket
\* read, timer or I/O completion.
Quiet == \A j \in Jobs : ~Resumable(j)

\* A call that nobody has made yet and that no /new has reserved.
Fresh(j) == pc[j] = "unborn" /\ caller[j] = None

\* Seeded bug: the channel name is stored where its delivery context belongs.
RememberedName(j, ch) == IF ch = "telegram" THEN ch ELSE None

\* rememberDeliveryContext: a call with no delivery deletes the entry.
Remembered(j, ch) == IF ch = "telegram" THEN j ELSE None

\* Where a call that finds the lock free suspends first.
FirstAwait(k) ==
  CASE k = "startup" -> {"hooks"}
    [] k \in {"message", "config"} -> {"capture", "opening"}
    [] OTHER -> {"opening"}

\* Seeded bug: a startup takes the lock before its hooks, and then finds it taken.
LockEagerly(k, locks, s) == locks \cup {s}

\* processMessage takes the lock before its first await; a startup only
\* after its hooks.
LockOnStart(k, locks, s) ==
  IF k = "startup" THEN locks \ {s} ELSE locks \cup {s}

\* transitionState(sessionId, "running") is the last thing before "opening".
MarkRunning(st, s, p) == IF p = "opening" THEN [st EXCEPT ![s] = "running"] ELSE st

\* Seeded bug: no session is recovered.
RecoveredNone(st) == st

\* recoverRunningSessions
Recovered(st) == [s \in Sessions |-> IF st[s] = "running" THEN "idle" ELSE st[s]]

\* Seeded bug: the queue is replaced by the entry instead of extended with it.
EnqueueAlone(s, j) == [pending EXCEPT ![s] = <<j>>]

\* The push to pendingUserMessages of processMessage and processSessionStartup.
Enqueue(s, j) == [pending EXCEPT ![s] = Append(@, j)]

\* Seeded bug: the controller of an ended turn stays registered.
KeepController(s) == controller

\* abortControllers.delete: whosever controller the session has.
ForgetController(s) == [controller EXCEPT ![s] = None]

-----------------------------------------------------------------------------
(* releaseSessionLock = delete the lock, flushPendingUserMessage, re-arm   *)
(* the consolidation timer.  The flushed entry is handled up to its first  *)
(* await before releaseSessionLock returns.  pcs and st are pc and state    *)
(* after the caller's own step.                                            *)

\* Seeded bug: the lock is deleted but the queue is not flushed.
ReleaseOnly(s, pcs, st) ==
  /\ active' = active \ {s}
  /\ pc' = pcs
  /\ state' = st
  /\ UNCHANGED <<pending, flushed>>

Release(s, pcs, st) ==
  \/ /\ pending[s] = <<>>
     /\ active' = active \ {s}
     /\ pc' = pcs
     /\ state' = st
     /\ UNCHANGED <<pending, flushed>>
  \/ /\ pending[s] # <<>>
     /\ LET h == Head(pending[s])
        IN  /\ pending' = [pending EXCEPT ![s] = Tail(@)]
            /\ flushed' = flushed \cup {h}
            /\ active' = LockOnStart(kind[h], active, s)
            /\ \E p \in FirstAwait(kind[h]) :
                 /\ pc' = [pcs EXCEPT ![h] = p]
                 /\ state' = MarkRunning(st, s, p)

ContextAfterRelease(s) ==
  IF pending[s] = <<>> THEN context
  ELSE LET h == Head(pending[s])
       IN  [context EXCEPT ![s] = Remembered(h, chan[h])]

\* Seeded bug: nothing re-arms the timer.
TimerNotRearmed(s) == pending[s] = <<>> /\ timer

\* The flushed handler cancels the timer; releaseSessionLock then re-arms it
\* for the main session unless entries are left.
TimerAfterRelease(s) ==
  IF pending[s] = <<>> THEN timer \/ s = Main
  ELSE s = Main /\ Tail(pending[s]) = <<>>

-----------------------------------------------------------------------------
(* What the caller of processMessage does when the promise resolves: the   *)
(* IPC handler of the daemon serves one request, a stop first; the         *)
(* Telegram dispatcher never looks at the stop flag.                       *)

\* Seeded bug: the IPC handler, like the Telegram one, forgets the stop flag.
ServedButStop(ch) ==
  CASE "reload" \in requested -> "reload"
    [] "restart" \in requested /\ "reload" \notin requested -> "restart"
    [] OTHER -> "none"

Served(ch) ==
  CASE "stop" \in requested /\ ch = "cli" -> "stop"
    [] "reload" \in requested /\ ~("stop" \in requested /\ ch = "cli") -> "reload"
    [] "restart" \in requested /\ "reload" \notin requested
         /\ ~("stop" \in requested /\ ch = "cli") -> "restart"
    [] OTHER -> "none"

StopsNow(r) == r = "stop" /\ daemon # "stopping"

RequestsAfter(r) == IF r = "stop" THEN {} ELSE requested \ {r}

\* scheduleSelfStop and scheduleSelfRestart.
DaemonAfter(r) ==
  CASE r = "stop" -> "stopping"
    [] r = "restart" /\ daemon = "up" -> "restarting"
    [] OTHER -> daemon

\* scheduleSelfStop runs stop(), whose runtime.close() recovers sessions.
StateAfter(r, st) == IF StopsNow(r) THEN Recovered(st) ELSE st
TimerAfter(r, t) == t /\ ~StopsNow(r)

-----------------------------------------------------------------------------
Init ==
  /\ pc = [j \in Jobs |-> "unborn"]
  /\ kind = [j \in Jobs |-> "message"]
  /\ sess = [j \in Jobs |-> Main]
  /\ chan = [j \in Jobs |-> "cli"]
  /\ caller = [j \in Jobs |-> None]
  /\ flushed = {} /\ aborted = {} /\ throws = {}
  /\ active = {}
  /\ pending = [s \in Sessions |-> <<>>]
  /\ controller = [s \in Sessions |-> None]
  /\ context = [s \in Sessions |-> None]
  /\ state = [s \in Sessions |-> "idle"]
  /\ everQueued = {}
  /\ timer = TRUE
  /\ agent = [a \in Agents |-> "off"]
  /\ failures = 0
  /\ requested = {}
  /\ daemon = "up"
  /\ boots = 0

-----------------------------------------------------------------------------
(* Submissions.                                                            *)

\* The fields of a submitted call; a /new reserves the startup it will run.
Describe(j, s, k, ch) ==
  /\ kind' = [kind EXCEPT ![j] = k]
  /\ sess' = [sess EXCEPT ![j] = s]
  /\ chan' = [chan EXCEPT ![j] = ch]
  /\ IF k = "reset"
     THEN \E n \in Jobs \ {j} : Fresh(n) /\ caller' = [caller EXCEPT ![n] = j]
     ELSE UNCHANGED caller

\* processMessage while the session is locked: queue the text and return, so
\* that the caller's continuation runs at once.
SubmitBusy(j, s, k, ch) ==
  /\ Alive /\ Quiet /\ Fresh(j)
  /\ s \in active
  /\ Describe(j, s, k, ch)
  /\ pc' = [pc EXCEPT ![j] = "queued"]
  /\ pending' = Enqueue(s, j)
  /\ everQueued' = everQueued \cup {s}
  /\ context' = [context EXCEPT ![s] = Remembered(j, ch)]
  /\ timer' = FALSE
  /\ LET r == Served(ch)
     IN  /\ requested' = RequestsAfter(r)
         /\ daemon' = DaemonAfter(r)
         /\ state' = StateAfter(r, state)
  /\ UNCHANGED <<flushed, aborted, throws, active, controller, agent, failures, boots>>

\* processMessage while the session is free: take the lock and run up to the
\* screenshot or, the message appended and the state "running", to the turn.
SubmitFree(j, s, k, ch) ==
  /\ Alive /\ Quiet /\ Fresh(j)
  /\ s \notin active
  /\ Describe(j, s, k, ch)
  /\ active' = LockOnStart(k, active, s)
  /\ \E p \in FirstAwait(k) :
       /\ pc' = [pc EXCEPT ![j] = p]
       /\ state' = MarkRunning(state, s, p)
  /\ context' = [context EXCEPT ![s] = Remembered(j, ch)]
  /\ timer' = FALSE
  /\ UNCHANGED <<flushed, aborted, throws, pending, controller, everQueued,
                 agent, failures, daemonVars>>

\* processSessionStartup up to its hooks, for the session.startup request.
SubmitStartup(j, s) ==
  /\ Alive /\ Quiet /\ Fresh(j)
  /\ "startup" \in Kinds
  /\ Describe(j, s, "startup", "cli")
  /\ pc' = [pc EXCEPT ![j] = "hooks"]
  /\ context' = [context EXCEPT ![s] = None]
  /\ timer' = FALSE
  /\ UNCHANGED <<flushed, aborted, throws, active, pending, controller, state,
                 everQueued, agent, failures, daemonVars>>

Submit(j) ==
  \/ \E s \in Sessions, k \in Kinds \ {"startup"}, ch \in Channels :
       SubmitBusy(j, s, k, ch) \/ SubmitFree(j, s, k, ch)
  \/ \E s \in Sessions : SubmitStartup(j, s)

\* abortSession
Abort(s) ==
  /\ Alive /\ Quiet
  /\ controller[s] # None
  /\ controller[s] \notin aborted
  /\ aborted' = aborted \cup {controller[s]}
  /\ UNCHANGED <<pc, kind, sess, chan, caller, flushed, throws, sessionVars,
                 agentVars, daemonVars>>

-----------------------------------------------------------------------------
(* The steps of a call.                                                    *)

\* A finished startup resumes the /new that awaits it, if there is one.
Resumed(j, pcs, p) ==
  IF caller[j] = None THEN pcs ELSE [pcs EXCEPT ![caller[j]] = p]

\* Seeded bug: the lock is not looked at again after the hooks.
HooksDoneUnchecked(j) ==
  /\ Alive /\ pc[j] = "hooks"
  /\ Resumable(j) \/ Quiet
  /\ active' = active \cup {sess[j]}
  /\ pc' = [pc EXCEPT ![j] = "opening"]
  /\ state' = [state EXCEPT ![sess[j]] = "running"]
  /\ UNCHANGED <<kind, sess, chan, caller, flushed, aborted, throws, pending,
                 controller, context, everQueued, agentVars, daemonVars>>

\* The hooks are done and the session is free: take the lock, open the turn.
HooksDoneFree(j) ==
  /\ Alive /\ pc[j] = "hooks"
  /\ Resumable(j) \/ Quiet
  /\ sess[j] \notin active
  /\ active' = active \cup {sess[j]}
  /\ pc' = [pc EXCEPT ![j] = "opening"]
  /\ state' = [state EXCEPT ![sess[j]] = "running"]
  /\ UNCHANGED <<kind, sess, chan, caller, flushed, aborted, throws, pending,
                 controller, context, everQueued, agentVars, daemonVars>>

\* The hooks are done but another call took the lock meanwhile: queue the
\* startup and return.  Only session.startup has a continuation to run.
HooksDoneBusy(j) ==
  /\ Alive /\ pc[j] = "hooks"
  /\ Resumable(j) \/ Quiet
  /\ sess[j] \in active
  /\ pending' = Enqueue(sess[j], j)
  /\ everQueued' = everQueued \cup {sess[j]}
  /\ pc' = Resumed(j, [pc EXCEPT ![j] = "queued"], "ending")
  /\ caller' = [caller EXCEPT ![j] = None]
  /\ LET r == IF caller[j] = None /\ j \notin flushed THEN Served("cli") ELSE "none"
     IN  /\ requested' = RequestsAfter(r)
         /\ daemon' = DaemonAfter(r)
         /\ state' = StateAfter(r, state)
         /\ timer' = TimerAfter(r, timer)
  /\ UNCHANGED <<kind, sess, chan, flushed, aborted, throws, active, controller,
                 context, agent, failures, boots>>

\* The silent screenshot ends, with or without a picture.
CaptureDone(j) ==
  /\ Alive /\ Quiet /\ pc[j] = "capture"
  /\ pc' = [pc EXCEPT ![j] = "opening"]
  /\ state' = [state EXCEPT ![sess[j]] = "running"]
  /\ UNCHANGED <<kind, sess, chan, caller, flushed, aborted, throws, active,
                 pending, controller, context, everQueued, agentVars, daemonVars>>

\* runTurn / runStartupTurn up to its first await: register the controller.
\* runTurn remembers the delivery again; /stop raises its flag here.
BeginTurn(j) ==
  /\ Alive /\ pc[j] = "opening"
  /\ pc' = [pc EXCEPT ![j] = "turn"]
  /\ controller' = [controller EXCEPT ![sess[j]] = j]
  /\ context' = IF kind[j] = "startup" THEN context
                ELSE [context EXCEPT ![sess[j]] = Remembered(j, chan[j])]
  /\ requested' = IF kind[j] = "stop" THEN requested \cup {"stop"} ELSE requested
  /\ UNCHANGED <<kind, sess, chan, caller, flushed, aborted, throws, active,
                 pending, state, everQueued, agentVars, daemon, boots>>

\* tool_manage_config asks for a channel reload, /update for a restart.
RequestEffect(j) ==
  /\ Alive /\ Quiet /\ pc[j] = "turn"
  /\ \/ kind[j] = "config" /\ requested' = requested \cup {"reload"}
     \/ kind[j] = "update" /\ requested' = requested \cup {"restart"}
  /\ UNCHANGED <<jobVars, sessionVars, agentVars, daemon, boots>>

\* The ways a turn ends: the state it leaves the session in, and whether the
\* promise rejects.  An operator abort rejects the call of a model turn, and
\* so does any exception of a startup; the other errors are reported to the
\* user in the catch block.
StartupRejects(j, st) == pc[j] = "turn" /\ kind[j] = "startup" /\ st = "error"

EndsAs(j, st, rejects) ==
  \/ ~rejects /\ (pc[j] = "failing" => st = "error")
  \/ /\ rejects
     /\ \/ pc[j] = "failing" /\ st = "idle"
        \/ StartupRejects(j, st)
        \/ pc[j] = "turn" /\ kind[j] \in {"message", "config"} /\ j \in aborted /\ st = "idle"

EndTurn(j) ==
  /\ Alive
  /\ \/ pc[j] = "turn" /\ kind[j] # "reset"
     \/ pc[j] = "failing"
  /\ Resumable(j) \/ Quiet
  /\ \E st \in {"idle", "error"}, rejects \in BOOLEAN :
       /\ EndsAs(j, st, rejects)
       /\ state' = [state EXCEPT ![sess[j]] = st]
       /\ throws' = IF rejects THEN throws \cup {j} ELSE throws
  /\ pc' = [pc EXCEPT ![j] = "ending"]
  /\ UNCHANGED <<kind, sess, chan, caller, flushed, aborted, active, pending,
                 controller, context, everQueued, agentVars, daemonVars>>

\* /new and /reset: the SessionEnd hooks are done and the session is wiped;
\* release the lock in the middle of the turn and run a startup, up to its
\* own hooks.
ResetSession(j) ==
  /\ Alive /\ pc[j] = "turn" /\ kind[j] = "reset"
  /\ Resumable(j) \/ Quiet
  /\ \E n \in Jobs :
       /\ caller[n] = j
       /\ Release(sess[j], [pc EXCEPT ![j] = "nested", ![n] = "hooks"], state)
       /\ kind' = [kind EXCEPT ![n] = "startup"]
       /\ sess' = [sess EXCEPT ![n] = sess[j]]
       /\ chan' = [chan EXCEPT ![n] = chan[j]]
       /\ context' = [context EXCEPT ![sess[j]] = Remembered(n, chan[j])]
  /\ timer' = FALSE
  /\ UNCHANGED <<caller, aborted, throws, controller, everQueued, agent,
                 failures, daemonVars>>

\* The finally of runTurnWithContext: release the lock, then forget whatever
\* controller the session has.  That of runStartupTurn only forgets it.
LeaveTurn(j) ==
  /\ Alive /\ pc[j] = "ending"
  /\ controller' = ForgetController(sess[j])
  /\ IF kind[j] = "startup"
     THEN /\ pc' = [pc EXCEPT ![j] = "closing"]
          /\ UNCHANGED <<active, pending, flushed, state, context, timer>>
     ELSE /\ Release(sess[j], [pc EXCEPT ![j] = "closing"], state)
          /\ context' = ContextAfterRelease(sess[j])
          /\ timer' = TimerAfterRelease(sess[j])
  /\ UNCHANGED <<kind, sess, chan, caller, aborted, throws, everQueued, agent,
                 failures, daemonVars>>

\* Whether the promise of j has a continuation that looks at the requests.
HasContinuation(j) ==
  j \notin flushed /\ caller[j] = None /\ (j \in throws => chan[j] = "telegram")

\* The finally of processMessage / processSessionStartup: release the lock.
Close(j) ==
  /\ Alive /\ pc[j] = "closing"
  /\ LET p == IF HasContinuation(j) THEN "settled" ELSE "done"
         q == IF j \in throws THEN "failing" ELSE "ending"
     IN  Release(sess[j], Resumed(j, [pc EXCEPT ![j] = p], q), state)
  /\ caller' = [caller EXCEPT ![j] = None]
  /\ context' = ContextAfterRelease(sess[j])
  /\ timer' = TimerAfterRelease(sess[j])
  /\ UNCHANGED <<kind, sess, chan, aborted, throws, controller, everQueued,
                 agent, failures, daemonVars>>

\* The continuation: handlePostTurnSideEffects and its copies.
ServeRequests(j) ==
  /\ Alive /\ pc[j] = "settled"
  /\ pc' = [pc EXCEPT ![j] = "done"]
  /\ LET r == Served(chan[j])
     IN  /\ requested' = RequestsAfter(r)
         /\ daemon' = DaemonAfter(r)
         /\ state' = StateAfter(r, state)
         /\ timer' = TimerAfter(r, timer)
  /\ UNCHANGED <<kind, sess, chan, caller, flushed, aborted, throws, active,
                 pending, controller, context, everQueued, agent, failures, boots>>

-----------------------------------------------------------------------------
(* The MemoryAgent.                                                        *)

\* The inactivity timer fires while the main session is locked, or within the
\* backoff after two failures: the run is skipped and nothing re-arms the timer.
SkipConsolidation ==
  /\ Alive /\ Quiet /\ timer
  /\ Main \in active \/ failures = 2
  /\ timer' = FALSE
  /\ UNCHANGED <<jobVars, sessionVars, agent, failures, daemonVars>>

\* It fires while the main session is free (and any backoff is over).
StartConsolidation(a) ==
  /\ Alive /\ Quiet /\ timer
  /\ Main \notin active
  /\ agent[a] = "off"
  /\ timer' = FALSE
  /\ active' = active \cup {Main}
  /\ agent' = [agent EXCEPT ![a] = "running"]
  /\ state' = [state EXCEPT ![Main] = "running"]
  /\ UNCHANGED <<jobVars, pending, controller, context, everQueued, failures,
                 daemonVars>>

\* The run ends: success, recoverable failure or failure; the finally block
\* sets the session idle and releases the lock.
EndConsolidation(a) ==
  /\ Alive /\ Quiet
  /\ agent[a] = "running"
  /\ agent' = [agent EXCEPT ![a] = "off"]
  /\ failures' \in {0, failures, IF failures < 2 THEN failures + 1 ELSE 2}
  /\ Release(Main, pc, [state EXCEPT ![Main] = "idle"])
  /\ context' = ContextAfterRelease(Main)
  /\ timer' = TimerAfterRelease(Main)
  /\ UNCHANGED <<kind, sess, chan, caller, aborted, throws, controller,
                 everQueued, daemonVars>>
-----------------------------------------------------------------------------
(* The process.                                                            *)

\* The process is gone and with it everything it kept in memory.
Vanish ==
  /\ daemon' = "down"
  /\ pc' = [j \in Jobs |-> IF pc[j] \in {"unborn", "done"} THEN pc[j] ELSE "lost"]
  /\ caller' = [j \in Jobs |-> None]
  /\ aborted' = {} /\ throws' = {}
  /\ active' = {}
  /\ pending' = [s \in Sessions |-> <<>>]
  /\ controller' = [s \in Sessions |-> None]
  /\ context' = [s \in Sessions |-> None]
  /\ timer' = FALSE
  /\ agent' = [a \in Agents |-> "off"]
  /\ failures' = 0
  /\ requested' = {}
  /\ UNCHANGED <<kind, sess, chan, flushed, everQueued, boots>>

\* process.exit after stop(), or under systemd the SIGTERM it sends.
Exit ==
  /\ daemon \in {"stopping", "restarting"}
  /\ state' = Recovered(state)
  /\ Vanish

Crash ==
  /\ Alive
  /\ boots < MaxBoots
  /\ UNCHANGED state
  /\ Vanish

\* MonolitoV2Daemon.start and the constructor of the runtime.
Boot ==
  /\ daemon = "down"
  /\ boots < MaxBoots
  /\ daemon' = "up"
  /\ boots' = boots + 1
  /\ state' = Recovered(state)
  /\ timer' = TRUE
  /\ UNCHANGED <<jobVars, active, pending, controller, context, everQueued,
                 agent, failures, requested>>

-----------------------------------------------------------------------------
Step(j) ==
  \/ HooksDoneFree(j) \/ HooksDoneBusy(j) \/ CaptureDone(j) \/ BeginTurn(j)
  \/ EndTurn(j) \/ ResetSession(j) \/ LeaveTurn(j) \/ Close(j) \/ ServeRequests(j)

Next ==
  \/ \E j \in Jobs : Submit(j) \/ RequestEffect(j) \/ Step(j)
  \/ \E s \in Sessions : Abort(s)
  \/ SkipConsolidation
  \/ \E a \in Agents : StartConsolidation(a) \/ EndConsolidation(a)
  \/ Exit \/ Crash \/ Boot

Spec == Init /\ [][Next]_vars

\* Turns end (TURN_ABSOLUTE_MAX_MS, the agent's 200 s), hooks end (15 s), the
\* screenshot ends, node serves every ready callback, a daemon told to stop
\* exits.  Nothing forces a user, a crash or a restart.
Fairness ==
  /\ \A j \in Jobs : WF_vars(Step(j))
  /\ WF_vars(SkipConsolidation)
  /\ \A a \in Agents : WF_vars(StartConsolidation(a)) /\ WF_vars(EndConsolidation(a))
  /\ WF_vars(Exit)

FairSpec == Spec /\ Fairness

-----------------------------------------------------------------------------
(* Properties.                                                             *)

TypeOK ==
  /\ pc \in [Jobs -> PCs]
  /\ kind \in [Jobs -> AllKinds]
  /\ sess \in [Jobs -> Sessions]
  /\ chan \in [Jobs -> AllChannels]
  /\ caller \in [Jobs -> Jobs \cup {None}]
  /\ flushed \in SUBSET Jobs /\ aborted \in SUBSET Jobs /\ throws \in SUBSET Jobs
  /\ active \in SUBSET Sessions
  /\ pending \in [Sessions -> Seq(Jobs)]
  /\ controller \in [Sessions -> Jobs \cup {None}]
  /\ context \in [Sessions -> Jobs \cup {None}]
  /\ state \in [Sessions -> {"idle", "running", "error"}]
  /\ everQueued \in SUBSET Sessions
  /\ timer \in BOOLEAN
  /\ agent \in [Agents -> {"off", "running"}]
  /\ failures \in 0..2
  /\ requested \in SUBSET {"stop", "reload", "restart"}
  /\ daemon \in {"up", "stopping", "restarting", "down"}
  /\ boots \in 0..MaxBoots

Once(q) == \A i, k \in DOMAIN q : q[i] = q[k] => i = k
Waits(j, q) == \E i \in DOMAIN q : q[i] = j

\* An input that had to wait sits in its own session's queue exactly once
\* until it is started: neither lost nor run twice.
QueueExact ==
  /\ \A s \in Sessions : Once(pending[s])
  /\ \A j \in Jobs, s \in Sessions :
       Waits(j, pending[s]) <=> pc[j] = "queued" /\ sess[j] = s

\* A non-empty queue never waits for nobody: the session is locked, or a
\* startup is in its hooks and will take the lock.
NoStrandedQueue ==
  \A s \in Sessions :
    pending[s] # <<>> /\ s \notin active =>
      \E j \in Jobs : pc[j] = "hooks" /\ sess[j] = s

\* A lock never leaks: whenever a session is locked, somebody is running in it
\* whose finally block will release it.
LockHasHolder ==
  \A s \in active :
    \/ \E j \in Jobs : pc[j] \in Holding /\ sess[j] = s
    \/ s = Main /\ \E a \in Agents : agent[a] = "running"

\* An abort never reaches a turn of another session or one that is over.
ControllerLive ==
  \A s \in Sessions, j \in Jobs :
    controller[s] = j =>
      sess[j] = s /\ pc[j] \in {"turn", "nested", "failing", "ending"}

\* At most one startup is reserved for, or awaited by, a /new; it is unborn
\* until the /new has wiped the session and waits for it.
CallerOK ==
  \A n \in Jobs : caller[n] # None =>
    /\ n # caller[n]
    /\ pc[caller[n]] # "unborn"
    /\ pc[n] = "unborn" \/ pc[caller[n]] = "nested"
    /\ \A m \in Jobs : caller[m] = caller[n] => m = n

\* The locks and the queues: the inductive invariant of the scheduler.
LockInv == TypeOK /\ CallerOK /\ QueueExact /\ NoStrandedQueue /\ LockHasHolder

\* While the daemon runs, a session that is persisted as running has a call
\* in flight (or about to be flushed) that will set it idle.
RunningIsLive ==
  \A s \in Sessions :
    state[s] = "running" /\ daemon # "down" =>
      \/ \E j \in Jobs : pc[j] \in InFlight /\ sess[j] = s
      \/ s = Main /\ \E a \in Agents : agent[a] = "running"

TurnsOf(s) == {j \in Jobs : pc[j] \in {"capture", "opening", "turn"} /\ sess[j] = s}

\* Turns of one session overlap, with each other or with the MemoryAgent, only
\* in a session where an input had to wait or a startup threw.
Undisturbed(s) ==
  s \notin everQueued /\ \A j \in throws : ~(kind[j] = "startup" /\ sess[j] = s)

ExclusiveUntilQueued ==
  \A s \in Sessions : Undisturbed(s) =>
    /\ \A j, k \in TurnsOf(s) : j = k
    /\ s = Main /\ TurnsOf(s) # {} => \A a \in Agents : agent[a] = "off"

MainQuiet ==
  /\ \A j \in Jobs : sess[j] = Main => pc[j] \notin InFlight \cup {"queued"}
  /\ \A a \in Agents : agent[a] = "off"

\* While the main session is quiet and the MemoryAgent is not backing off, its
\* inactivity timer is armed, unless a call of another session has cancelled it.
IdleArmed ==
  (\A j \in Jobs : sess[j] = Main) /\ daemon = "up" /\ MainQuiet /\ failures < 2 => timer

\* What is kept of the turns outside of them matches the turns there are: the
\* state on disk, the abort controllers and the inactivity timer.
StateMatchesTurns == RunningIsLive /\ ControllerLive /\ IdleArmed

\* A queued input is eventually started and its turn ends.
QueuedIsServed ==
  \A j \in Jobs : (pc[j] = "queued") ~> (pc[j] \in {"done", "lost"})

\* When every input was awaited by its caller, none threw and no /stop came
\* from Telegram, what the turns asked for is served once they are over: but a
\* caller serves one request, and the restart of an /update is left when a turn
\* of another session has asked for channel reloads meanwhile.
RequestsServed ==
  /\ daemon = "up" /\ flushed = {} /\ throws = {}
  /\ \A j \in Jobs : kind[j] = "stop" => chan[j] = "cli"
  /\ \A j \in Jobs : pc[j] \notin InFlight \cup {"queued"}
  => \/ requested = {}
     \/ /\ requested = {"restart"}
        /\ \E i, j \in Jobs : kind[i] = "update" /\ kind[j] = "config" /\ sess[i] # sess[j]

\* A /stop whose caller awaits its turn on the IPC socket stops the daemon.
AwaitedStopStops ==
  \A j \in Jobs :
    (pc[j] = "turn" /\ kind[j] = "stop" /\ chan[j] = "cli" /\ j \notin flushed)
      ~> (daemon # "up")

\* The daemon that was told to stop stops.
StopTakesEffect == ("stop" \in requested) ~> (daemon # "up")
=============================================================================
