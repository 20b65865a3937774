----------------------------- MODULE TurnReply -----------------------------
(***************************************************************************)
(* What a turn does around the agent loop: the limits on its time, the list *)
(* of tasks, the attempts of the top-level Ralph loop, the reply the user   *)
(* gets and the research checkpoint an interrupted turn leaves.             *)
(*                                                                         *)
(* The runtime keeps ONE task timer (activeTaskItemTimer) and one timing     *)
(* context for all sessions: a turn that begins replaces them, a turn that  *)
(* ends disposes of whichever it finds. Time is abstract: a timer that is    *)
(* armed may fire. The ids of the tasks are those of the proactive tasks or  *)
(* numbers that a TodoWrite draws afresh for each item.                     *)
(***************************************************************************)
EXTENDS Naturals, FiniteSets

CONSTANTS
  Turns,        \* turns, in the order the turns of a session begin
  MaxAttempts,  \* TOP_LEVEL_RALPH_MAX_ATTEMPTS
  MaxEmpty,     \* MAX_EMPTY_REPLY_RETRIES
  MaxEvents,    \* bound on the tools, lists, demands and aborts of a behaviour
  MaxBeside     \* the same once turns of two sessions have run beside each other

NoTurn == 0
NoTask == 0
First == 1      \* the proactive task for the location or the configuration
Search == 2
Answer == 3
Proactive == {First, Search, Answer}

VARIABLES
  phase,       \* of a turn: "new", "model", "deliver" or "ended"
  kind,        \* of the session of a turn: "main", "other" or "agent"
  reason,      \* of the turn's abort signal: "none", "item", "limit", "operator"
  timer,       \* the turn's TaskItemTimerController
  current,     \* activeTaskItemTimer
  research,    \* whether activeTurnTimingContext.steps has research; it is set and
               \* forgotten together with the timer
  tasks,       \* of a session: [id, status]
  fresh,       \* ids TodoWrite has used
  unsynced,    \* TodoWrites whose list the timer has not seen
  attempt, empties,
  demand,      \* a rule of the gate asks for a tool: "none" or "tool"
  tools,       \* what the attempt has run: "met", "research", "effect"
  checkpoint,  \* of a session: turns whose evidence it holds, whether it has completed
               \* items, and consumed
  reply,       \* what the user was told
  overlapped,  \* history: turns that ran together with one of the other session
  injected,    \* history: the evidence that the requests of a turn carried
  promised,    \* history: turns whose evidence the user was told is kept, in a session
               \* in which no turn has answered since
  worked,      \* history: turns that completed a task
  silent,      \* history: turns that have cause to end without a word
  events       \* history: the number of events

timing == <<reason, timer, current, research>>
lists == <<tasks, fresh, unsynced>>
loop == <<attempt, empties, demand, tools>>
history == <<overlapped, injected, promised, worked, silent>>
vars == <<phase, kind, timing, lists, loop, checkpoint, reply, history, events>>
Event ==
  /\ events < IF overlapped = {} THEN MaxEvents ELSE MaxBeside
  /\ events' = events + 1


Sessions == {"main", "other", "agent"}
Session(t) == kind[t]
IsAgent(t) == kind[t] = "agent"
Doing(list) == {x \in list : x.status = "in_progress"}
With(list, id, status) ==
  {IF x.id = id THEN [x EXCEPT !.status = status] ELSE x : x \in list}

-----------------------------------------------------------------------------
(* TaskItemTimerController.                                                *)

IdleTimer == [absolute |-> FALSE, active |-> "off", mode |-> "none", list |-> FALSE,
              snapshot |-> {}, item |-> NoTask]

ClearActive(tm) == [tm EXCEPT !.active = "off", !.item = NoTask]

ArmItem(tm, task) == [tm EXCEPT !.active = "item", !.mode = "item", !.item = task.id]

(* Seeded bug: the absolute limit is armed only when there is no task. *)
TimerBeginTurnEither(list) ==
  LET tm == [IdleTimer EXCEPT !.list = list # {}, !.snapshot = list]
  IN IF Doing(list) = {} THEN [tm EXCEPT !.absolute = TRUE]
     ELSE ArmItem(tm, CHOOSE x \in Doing(list) : TRUE)

TimerBeginTurn(list) ==
  LET tm == [IdleTimer EXCEPT !.absolute = TRUE, !.list = list # {}, !.snapshot = list]
  IN IF Doing(list) = {} THEN tm ELSE ArmItem(tm, CHOOSE x \in Doing(list) : TRUE)

OnWorkActivity(tm) ==
  IF tm.mode = "none" /\ ~tm.list
  THEN [ClearActive(tm) EXCEPT !.active = "fallback", !.mode = "fallback"]
  ELSE tm

(* Seeded bug: a list with no task in progress leaves the timer of the last. *)
SyncKeepsTimer(tm, list) ==
  LET seen == [tm EXCEPT !.list = list # {}, !.snapshot = list]
      new  == {x \in Doing(list) : x.id # tm.item}
  IN IF new # {} THEN ArmItem(seen, CHOOSE x \in new : TRUE) ELSE seen

SyncAfterTodoWrite(tm, list) ==
  LET seen == [tm EXCEPT !.list = list # {}, !.snapshot = list]
      new  == {x \in Doing(list) : x.id # tm.item}
  IN IF new # {} THEN ArmItem(seen, CHOOSE x \in new : TRUE)
     ELSE IF Doing(list) = {} /\ tm.mode = "item"
     THEN [ClearActive(seen) EXCEPT !.mode = "none"]
     ELSE seen

\* The tasks the timer reports as completed: those it saw in progress.
ItemsCompleted(tm, list) ==
  {x \in list : x.status = "completed" /\ [id |-> x.id, status |-> "in_progress"] \in tm.snapshot}

Disposed(tm) == [ClearActive(tm) EXCEPT !.absolute = FALSE]

\* The first reason of a signal stays: what fires later changes nothing.
Fire(t, why) == reason[t] = "none" /\ reason' = [reason EXCEPT ![t] = why]

AbsoluteFires(t) ==
  /\ timer[t].absolute
  /\ Fire(t, "limit")
  /\ timer' = [timer EXCEPT ![t].absolute = FALSE]
  /\ UNCHANGED <<phase, kind, current, research, lists, loop, checkpoint, reply, history, events>>

ActiveFires(t) ==
  /\ timer[t].active # "off"
  /\ Fire(t, IF timer[t].active = "item" THEN "item" ELSE "limit")
  /\ timer' = [timer EXCEPT ![t].active = "off"]
  /\ UNCHANGED <<phase, kind, current, research, lists, loop, checkpoint, reply, history, events>>

\* The hard timeout of a sub-agent's turn, or the operator's stop.
Abort(t, why) ==
  /\ phase[t] = "model"
  /\ why = "operator" \/ IsAgent(t)
  /\ Event
  /\ Fire(t, why)
  /\ UNCHANGED <<phase, kind, timer, current, research, lists, loop, checkpoint, reply, history>>

-----------------------------------------------------------------------------
(* Checkpoints.                                                            *)

NoCheckpoint == [holds |-> {}, items |-> FALSE, consumed |-> TRUE]

ReadCheckpoint(s) == IF checkpoint[s].consumed THEN {} ELSE checkpoint[s].holds
CompletedItems(s) == ~checkpoint[s].consumed /\ checkpoint[s].items

(* Seeded bug: the evidence of the turn replaces what there is. *)
SavedAlone(t) ==
  [holds |-> {t}, items |-> CompletedItems(Session(t)), consumed |-> FALSE]

SavedFromTurn(t) ==
  [holds |-> ReadCheckpoint(Session(t)) \cup {t}, items |-> CompletedItems(Session(t)),
   consumed |-> FALSE]

(* A turn without research leaves the checkpoint as it is; if that has       *)
(* completed items, the turn speaks for them (SaidWithoutText).              *)
MergeOnAbort(t) == IF "research" \in tools[t] THEN SavedFromTurn(t) ELSE checkpoint[Session(t)]

Consume(s) == checkpoint' = [checkpoint EXCEPT ![s].consumed = TRUE]

-----------------------------------------------------------------------------
Init ==
  /\ phase = [t \in Turns |-> "new"]
  /\ kind \in {k \in [Turns -> Sessions] : k[1] = "main"}
  /\ reason = [t \in Turns |-> "none"]
  /\ timer = [t \in Turns |-> IdleTimer]
  /\ current = NoTurn
  /\ research = FALSE
  /\ tasks = [s \in Sessions |-> {}]
  /\ fresh = {}
  /\ unsynced = {}
  /\ attempt = [t \in Turns |-> 1]
  /\ empties = [t \in Turns |-> 0]
  /\ demand = [t \in Turns |-> "none"]
  /\ tools = [t \in Turns |-> {}]
  /\ checkpoint = [s \in Sessions |-> NoCheckpoint]
  /\ reply = [t \in Turns |-> "nothing"]
  /\ overlapped = {}
  /\ injected = [t \in Turns |-> {}]
  /\ promised = {}
  /\ worked = {}
  /\ silent = {}
  /\ events = 0

Running(t) == phase[t] \in {"model", "deliver"}
Beside(t) == {u \in Turns : Running(u) /\ Session(u) # Session(t)}

(* The tasks of a request that needs the live web: the first that can be     *)
(* worked on is in progress.                                               *)
Seeded(list, ready) ==
  {x \in list : x.id \notin Proactive} \cup
    (IF ready THEN {} ELSE {[id |-> First, status |-> "in_progress"]}) \cup
    {[id |-> Search, status |-> IF ready THEN "in_progress" ELSE "pending"],
     [id |-> Answer, status |-> "pending"]}

(* The first open one is worked on unless one is.                           *)
Promoted(list) ==
  IF \E x \in list : x.id \in Proactive /\ x.status = "in_progress" THEN list
  ELSE LET open == {i \in Proactive : [id |-> i, status |-> "pending"] \in list}
           next == IF First \in open THEN First ELSE IF Search \in open THEN Search ELSE Answer
       IN IF open = {} THEN list ELSE With(list, next, "in_progress")

(* The user answered where they are: resolveProactiveLocationFromUserMessage. *)
Located(list) ==
  IF \E x \in list : x.id = First /\ x.status # "completed"
  THEN Promoted(With(list, First, "completed")) ELSE list

(* The turn begins with the list as it is: the timer sees it before the      *)
(* proactive tasks are seeded. The requests carry the checkpoint if the       *)
(* message asks to go on, or soon shares its topic                          *)
(* (shouldInjectResearchCheckpoint); of an agent's turn, too.               *)
BeginTurn(t) ==
  /\ phase[t] = "new"
  /\ \A u \in Turns : Session(u) = Session(t) => (phase[u] = "ended" <=> u < t) /\ ~Running(u)
  /\ phase' = [phase EXCEPT ![t] = "model"]
  /\ overlapped' = overlapped \cup Beside(t) \cup (IF Beside(t) = {} THEN {} ELSE {t})
  /\ \E carried \in {{}, ReadCheckpoint(Session(t))} :
       injected' = [injected EXCEPT ![t] = carried]
  /\ IF IsAgent(t) THEN UNCHANGED <<timing, tasks, demand, events>>
     ELSE \E list \in {tasks[Session(t)], Located(tasks[Session(t)])} :
          LET s == Session(t) IN
          /\ timer' = [timer EXCEPT ![t] = TimerBeginTurn(list)]
          /\ current' = t
          /\ research' = FALSE
          /\ \/ /\ tasks' = [tasks EXCEPT ![s] = list]
                /\ UNCHANGED <<demand, events>>
             \/ /\ Event /\ UNCHANGED demand
                /\ \E ready \in BOOLEAN : tasks' = [tasks EXCEPT ![s] = Seeded(list, ready)]
             \/ /\ Event
                /\ tasks' = [tasks EXCEPT ![s] = list]
                /\ demand' = [demand EXCEPT ![t] = "tool"]
          /\ UNCHANGED reason
  /\ UNCHANGED <<kind, fresh, unsynced, attempt, empties, tools, checkpoint, reply, promised,
                 worked, silent>>

-----------------------------------------------------------------------------
(* Tools.                                                                  *)

\* Every tool but a TodoList tells the current timer that work goes on.
WorkActivity ==
  timer' = IF current = NoTurn THEN timer ELSE [timer EXCEPT ![current] = OnWorkActivity(@)]

Advanced(list, tool) ==
  CASE tool = "research" -> With(With(With(list, First, "completed"), Search, "completed"),
                                 Answer, "in_progress")
    [] tool = "met"      -> Promoted(With(list, First, "completed"))
    [] OTHER             -> list

(* A tool runs: the one that the gate asks for (or the configuration of the  *)
(* search), a search on the web, or one with an effect.                     *)
ToolRuns(t, tool) ==
  /\ phase[t] = "model" /\ reason[t] = "none"
  /\ tool \notin tools[t] /\ Event
  /\ tool = "met" => demand[t] = "tool" \/ First \in {x.id : x \in tasks[Session(t)]}
  /\ WorkActivity
  /\ tools' = [tools EXCEPT ![t] = @ \cup {tool}]
  /\ tasks' = IF IsAgent(t) THEN tasks ELSE [tasks EXCEPT ![Session(t)] = Advanced(@, tool)]
  /\ UNCHANGED <<phase, kind, reason, current, research, fresh, unsynced, attempt, empties,
                 demand, checkpoint, reply, history>>

(* TodoWrite replaces the list: one item at most is in progress, each has a *)
(* new id, and what the list was is superseded.                            *)
TodoWrite(t, done, doing) ==
  /\ phase[t] = "model" /\ reason[t] = "none" /\ Event
  /\ t \notin unsynced /\ (done \/ doing)
  /\ LET n == 2 * Cardinality(fresh) + 4
         items == (IF done THEN {[id |-> n, status |-> "completed"]} ELSE {}) \cup
                  (IF doing THEN {[id |-> n + 1, status |-> "in_progress"]} ELSE {})
     IN /\ tasks' = [tasks EXCEPT ![Session(t)] = items]
        /\ fresh' = fresh \cup {n}
  /\ worked' = IF done THEN worked \cup {t} ELSE worked
  /\ unsynced' = unsynced \cup {t}
  /\ WorkActivity
  /\ UNCHANGED <<phase, kind, reason, current, research, loop, checkpoint, reply,
                 overlapped, injected, promised, silent>>

(* After the hooks of the tool, the list goes to the current timer, whoever  *)
(* wrote it. What the timer saw in progress and finds completed is committed *)
(* to the checkpoint, if the steps it has are of research.                 *)
TodoSynced(t) ==
  /\ t \in unsynced
  /\ unsynced' = unsynced \ {t}
  /\ IF current = NoTurn THEN UNCHANGED <<timer, checkpoint>>
     ELSE LET list == tasks[Session(t)]
              s == Session(current)
          IN /\ timer' = [timer EXCEPT ![current] = SyncAfterTodoWrite(@, list)]
             /\ checkpoint' = IF ItemsCompleted(timer[current], list) # {} /\ research
                              THEN [checkpoint EXCEPT ![s] =
                                      [holds |-> ReadCheckpoint(s) \cup {current},
                                       items |-> TRUE, consumed |-> FALSE]]
                              ELSE checkpoint
  /\ UNCHANGED <<phase, kind, reason, current, research, tasks, fresh, loop, reply, history, events>>

-----------------------------------------------------------------------------
(* An attempt ends.                                                        *)

\* What runAgentLoop may return (AgentLoop); "output" is whether it counted tokens.
Results ==
  {[text |-> x, error |-> FALSE, stop |-> "completed", output |-> o] : x \in BOOLEAN, o \in BOOLEAN}
    \cup {[text |-> FALSE, error |-> e, stop |-> IF e THEN "max_duration" ELSE "aborted",
           output |-> FALSE] : e \in BOOLEAN}
    \cup {[text |-> FALSE, error |-> TRUE, stop |-> "completed", output |-> FALSE]}

Cut(r) == r.error \/ r.stop \in {"max_duration", "aborted"}

Blocked(t) == demand[t] = "tool" /\ "met" \notin tools[t]

\* finalizeProactiveWebTasksBeforeRalph
Finalized(list, t, r) ==
  IF r.text /\ ("research" \in tools[t] \/ [id |-> Search, status |-> "completed"] \in list)
  THEN With(list, Answer, "completed") ELSE list

(* Seeded bug: the retries of an empty reply are not counted. *)
CountedNot(n) == n

Counted(n) == n + 1

\* An empty reply is tried again if the attempt had no effect.
EmptyAgain(t, r) ==
  /\ ~Blocked(t) /\ ~r.text /\ ~Cut(r) /\ ~IsAgent(t)
  /\ "effect" \notin tools[t]
  /\ empties[t] < MaxEmpty

BlockedAgain(t) == Blocked(t) /\ attempt[t] < MaxAttempts

Again(t, r) == reason[t] = "none" /\ (EmptyAgain(t, r) \/ BlockedAgain(t))

Exhausted(t) == Blocked(t) /\ attempt[t] >= MaxAttempts /\ reason[t] = "none"

(* The steps the timing context gets are those of the attempt, whoever's   *)
(* context it is.                                                          *)
Recorded(t) ==
  research' = (current # NoTurn /\ "research" \in tools[t])

\* The aborted loop returns "aborted"; nothing else does.
Returned(t, r) ==
  phase[t] = "model" /\ t \notin unsynced /\ (r.stop = "aborted" <=> reason[t] # "none")

\* The limits keep the number of the attempt within MaxAttempts + MaxEmpty.
AttemptEnds(t, r) ==
  /\ Returned(t, r) /\ Again(t, r)
  /\ empties' = IF Blocked(t) THEN empties ELSE [empties EXCEPT ![t] = Counted(@)]
  /\ attempt' = [attempt EXCEPT ![t] = (@ % (MaxAttempts + MaxEmpty)) + 1]
  /\ tools' = [tools EXCEPT ![t] = {}]
  /\ tasks' = IF IsAgent(t) THEN tasks ELSE [tasks EXCEPT ![Session(t)] = Finalized(@, t, r)]
  /\ Recorded(t)
  /\ UNCHANGED <<phase, kind, reason, timer, current, fresh, unsynced, demand, checkpoint,
                 reply, history, events>>

\* Every task of the list is completed, and there is one.
TasksClean(list) == list # {} /\ \A x \in list : x.status = "completed"

\* An interruption that is recorded: the turn ran out of time.
TimedOut(t, r) == r.stop = "max_duration" \/ reason[t] \in {"item", "limit"}

(* What the user is told when there is no text of the model: of a turn that  *)
(* ran out of time, that its evidence is kept, or the one of completed items *)
(* of an earlier turn that is still there.                                 *)
SaidWithoutText(t, r, list) ==
  CASE r.error /\ TasksClean(list) -> "done"
    [] ~Cut(r) -> IF "effect" \in tools[t] \/ r.output THEN "said" ELSE "nothing"
    [] OTHER -> IF TimedOut(t, r) /\ ("research" \in tools[t] \/ CompletedItems(Session(t)))
                THEN "kept" ELSE "said"

(* Seeded bug: the message that the attempts are used up is not used. *)
SaidAsUsual(t, r, list) == IF r.text THEN "said" ELSE SaidWithoutText(t, r, list)

Said(t, r, list) ==
  IF Exhausted(t) \/ r.text THEN "said" ELSE SaidWithoutText(t, r, list)

(* An answer, or the message that the attempts are used up, consumes the     *)
(* checkpoint, whether or not the model was given it.                       *)
Reply(t, r) ==
  /\ Returned(t, r) /\ ~Again(t, r)
  /\ LET list == IF IsAgent(t) THEN tasks[Session(t)] ELSE Finalized(tasks[Session(t)], t, r)
         said == Said(t, r, list)
     IN /\ reply' = [reply EXCEPT ![t] = said]
        /\ tasks' = [tasks EXCEPT ![Session(t)] = list]
        /\ silent' = IF ~r.text /\ ~Cut(r) /\ ~Exhausted(t) /\ ~r.output
                     THEN silent \cup {t} ELSE silent
        /\ CASE (Exhausted(t) \/ r.text) /\ ~r.error ->
                  /\ Consume(Session(t))
                  /\ promised' = {u \in promised : Session(u) # Session(t)}
             [] said = "kept" ->
                  /\ checkpoint' = [checkpoint EXCEPT ![Session(t)] = MergeOnAbort(t)]
                  /\ promised' = promised \cup MergeOnAbort(t).holds
             [] OTHER -> UNCHANGED <<checkpoint, promised>>
  /\ phase' = [phase EXCEPT ![t] = "deliver"]
  /\ Recorded(t)
  /\ UNCHANGED <<kind, reason, timer, current, fresh, unsynced, loop, overlapped, injected, worked,
                 events>>

(* Something before the reply throws: the user is told, unless the operator *)
(* stopped the turn.                                                       *)
Throws(t) ==
  /\ phase[t] = "model" /\ t \notin unsynced
  /\ phase' = [phase EXCEPT ![t] = "deliver"]
  /\ reply' = [reply EXCEPT ![t] = IF reason[t] = "operator" THEN "nothing" ELSE "said"]
  /\ silent' = IF reason[t] = "operator" THEN silent \cup {t} ELSE silent
  /\ UNCHANGED <<kind, timing, lists, loop, checkpoint, overlapped, injected, promised,
                 worked, events>>

(* The turn is left: the timer that is current then is disposed of. What is *)
(* left of the turn's own has nothing to stop, and its locals are gone.     *)
Leave(t) ==
  /\ phase[t] = "deliver"
  /\ phase' = [phase EXCEPT ![t] = "ended"]
  /\ timer' = [u \in Turns |-> CASE u = t -> IdleTimer
                                 [] u # t /\ u = current -> Disposed(timer[u])
                                 [] OTHER -> timer[u]]
  /\ current' = NoTurn
  /\ research' = FALSE
  /\ reason' = [reason EXCEPT ![t] = "none"]
  /\ attempt' = [attempt EXCEPT ![t] = 1]
  /\ empties' = [empties EXCEPT ![t] = 0]
  /\ demand' = [demand EXCEPT ![t] = "none"]
  /\ tools' = [tools EXCEPT ![t] = {}]
  /\ UNCHANGED <<kind, lists, checkpoint, reply, history, events>>

Next ==
  \E t \in Turns :
    \/ BeginTurn(t) \/ Throws(t) \/ Leave(t) \/ TodoSynced(t)
    \/ AbsoluteFires(t) \/ ActiveFires(t)
    \/ \E why \in {"operator", "limit"} : Abort(t, why)
    \/ \E tool \in {"met", "research", "effect"} : ToolRuns(t, tool)
    \/ \E done, doing \in BOOLEAN : TodoWrite(t, done, doing)
    \/ \E r \in Results : AttemptEnds(t, r) \/ Reply(t, r)

(* Tools return, the loop returns (AgentLoop) and the runtime goes on.     *)
GoesOn(t) ==
  \/ TodoSynced(t) \/ Leave(t)
  \/ \E r \in Results : AttemptEnds(t, r) \/ Reply(t, r)

Spec == Init /\ [][Next]_vars /\ WF_vars(\E t \in Turns : GoesOn(t))

-----------------------------------------------------------------------------
(* The types. *)
TypeOK ==
  /\ phase \in [Turns -> {"new", "model", "deliver", "ended"}]
  /\ reason \in [Turns -> {"none", "item", "limit", "operator"}]
  /\ current \in Turns \cup {NoTurn}
  /\ attempt \in [Turns -> 1..(MaxAttempts + MaxEmpty)]
  /\ unsynced \subseteq {t \in Turns : phase[t] = "model"}
  /\ \A s \in Sessions : \A x, y \in tasks[s] : x.id = y.id => x = y
  /\ \A s \in Sessions : checkpoint[s].holds \subseteq Turns

(* A turn that runs by itself has a limit on its time: the absolute timer    *)
(* is armed, or it has fired.                                              *)
LimitStands ==
  \A t \in Turns :
    phase[t] = "model" /\ ~IsAgent(t) /\ t \notin overlapped
    => timer[t].absolute \/ reason[t] # "none"

(* A turn by itself is not stopped for a task of the model's list that is    *)
(* no longer in progress.                                                  *)
ItemIsOpen ==
  \A t \in Turns :
    ( /\ phase[t] = "model" /\ t \notin overlapped /\ t \notin unsynced
      /\ timer[t].active = "item" /\ timer[t].item \notin Proactive )
    => [id |-> timer[t].item, status |-> "in_progress"] \in tasks[Session(t)]

(* A turn that was cut, that failed or that used up its attempts says so:   *)
(* only one the operator stopped, or one whose model said nothing at all, is *)
(* silent.                                                                 *)
NeverSilent ==
  \A t \in Turns : phase[t] = "ended" /\ reply[t] = "nothing" => t \in silent

(* The evidence the user was told is kept stays in the checkpoint of its      *)
(* session until a later turn of that session has answered or has used up    *)
(* its attempts: cut, failed and silent turns, stops and other sessions take *)
(* nothing from it.                                                        *)
KeptUntilAnswered == \A t \in promised : t \in ReadCheckpoint(Session(t))

(* A turn that tells the user that the tasks of its list are done has        *)
(* completed one itself.                                                   *)
DoneByThisTurn == \A t \in Turns : reply[t] = "done" => t \in worked

(* Whatever the model answers, a turn does not try for ever.               *)
TurnEnds == \A t \in Turns : phase[t] = "model" ~> phase[t] = "ended"

-----------------------------------------------------------------------------
(* What the message of an interrupted turn says ("La evidencia quedo guardada *)
(* [...] lo sintetizo sin volver a buscar", researchCheckpoint.ts) the code   *)
(* does not keep: any later answer consumes the evidence, though it was about *)
(* something else and no request carried it.                               *)
KeptUntilSynthesized ==
  [][\A t \in promised \ promised' :
       \E u \in Turns : phase[u] = "model" /\ phase'[u] = "deliver" /\ t \in injected[u]]_vars
=============================================================================
