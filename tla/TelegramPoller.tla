--------------------------- MODULE TelegramPoller ---------------------------
(***************************************************************************)
(* How updates of the Telegram Bot API reach the program: the long poller  *)
(* (src/core/channels/telegramPoller.ts), the handler and the reloads of   *)
(* the channel (src/core/channels/channelManager.ts), with restarts and    *)
(* crashes of the daemon.                                                  *)
(*                                                                         *)
(* Telegram keeps an update until a getUpdates with a greater offset       *)
(* confirms it.  A poller begins with offset 0 and its offset lives in     *)
(* memory.  stop() only sets a flag: a stopped poller still handles the    *)
(* answer it waits for, and the batch it is in.                            *)
(*                                                                         *)
(* pc[w]: "off"; "idle" before the next getUpdates; "asking" while one is  *)
(* in flight; "batch" before the next update; "handling" inside onUpdate,  *)
(* after its synchronous effects and before its last await resolves.       *)
(***************************************************************************)
EXTENDS Naturals

CONSTANTS
  MaxUpdates,  \* bound on the updates the user sends
  Kinds,       \* what they are: a subset of AllKinds
  Pollers,     \* poller instances of one process
  None,
  MaxReloads,  \* bound on the reloads that turns and other clients cause
  MaxCrashes

\* A text; /channels; the buttons Set Chats, Clear Chats and On/Off.
AllKinds == {"text", "menu", "ask", "clear", "toggle"}

ASSUME BoundsAssumption == {MaxUpdates, MaxReloads, MaxCrashes} \subseteq Nat
ASSUME KindsAssumption == Kinds \subseteq AllKinds
ASSUME NoneAssumption == None \notin Pollers

Updates == 1 .. MaxUpdates

VARIABLES
  sent, kind,      \* the updates Telegram has received so far, and their kinds
  confirmed,       \* those it will not deliver again
  pc, offset, stopped,
  cur, last,       \* the rest of the batch of a poller, an interval of ids
  done,            \* history: the updates an instance has handled
  doing,           \* what the handler makes of the current update
  active,          \* activePoller
  input,           \* pendingTelegramInputs waits for the chat's next message
  enabled,         \* telegram.enabled in the configuration
  phase,           \* the daemon is "up", "restarting" or "down"
  rows,            \* telegram updates on disk: "none", "stored", "processed"
  handled,         \* history: how often an update was handled, up to 2
  reloads, crashes

telegram == <<sent, kind, confirmed>>
loops    == <<pc, offset, stopped, cur, last, done, doing>>
bounds   == <<reloads, crashes>>
vars == <<telegram, loops, active, input, enabled, phase, rows, handled, bounds>>

TypeOK ==
  /\ sent \in 0 .. MaxUpdates /\ confirmed \in 0 .. sent
  /\ kind \in [Updates -> AllKinds]
  /\ pc \in [Pollers -> {"off", "idle", "asking", "batch", "handling"}]
  /\ offset \in [Pollers -> 0 .. sent + 1]
  /\ stopped \in [Pollers -> BOOLEAN]
  /\ cur \in [Pollers -> 0 .. sent + 1] /\ last \in [Pollers -> 0 .. sent]
  /\ done \in [Pollers -> SUBSET Updates]
  /\ doing \in [Pollers -> AllKinds \cup {"reply"}]
  /\ active \in Pollers \cup {None}
  /\ input \in BOOLEAN /\ enabled \in BOOLEAN
  /\ phase \in {"up", "restarting", "down"}
  /\ rows \in [Updates -> {"none", "stored", "processed"}]
  /\ handled \in [Updates -> 0 .. 2]
  /\ reloads \in 0 .. MaxReloads /\ crashes \in 0 .. MaxCrashes

Each(x) == [w \in Pollers |-> x]

Init ==
  /\ sent = 0 /\ confirmed = 0
  /\ kind = [u \in Updates |-> "text"]
  /\ pc = Each("off") /\ offset = Each(0) /\ stopped = Each(FALSE)
  /\ cur = Each(0) /\ last = Each(0) /\ done = Each({}) /\ doing = Each("text")
  /\ active = None /\ input = FALSE
  /\ enabled = TRUE /\ phase = "down"
  /\ rows = [u \in Updates |-> "none"]
  /\ handled = [u \in Updates |-> 0]
  /\ reloads = 0 /\ crashes = 0

-----------------------------------------------------------------------------
(* Telegram.                                                               *)

Send(k) ==
  /\ sent < MaxUpdates
  /\ sent' = sent + 1
  /\ kind' = [kind EXCEPT ![sent + 1] = k]
  /\ UNCHANGED <<confirmed, loops, active, input, enabled, phase, rows, handled, bounds>>

\* A getUpdates arrives, and confirms what is below its offset.
Poll(w) ==
  /\ pc[w] = "idle" /\ ~stopped[w]
  /\ pc' = [pc EXCEPT ![w] = "asking"]
  /\ confirmed' = IF offset[w] > confirmed + 1 THEN offset[w] - 1 ELSE confirmed
  /\ UNCHANGED <<sent, kind, offset, stopped, cur, last, done, doing, active, input,
                 enabled, phase, rows, handled, bounds>>

\* The answer: every update that is not confirmed.
Answer(w) ==
  /\ pc[w] = "asking" /\ confirmed < sent
  /\ pc' = [pc EXCEPT ![w] = "batch"]
  /\ cur' = [cur EXCEPT ![w] = confirmed + 1]
  /\ last' = [last EXCEPT ![w] = sent]
  /\ UNCHANGED <<telegram, offset, stopped, done, doing, active, input, enabled,
                 phase, rows, handled, bounds>>

\* Mutant of NoAnswer: a network error ends the loop.
NoAnswerEnds(w) ==
  /\ pc[w] = "asking"
  /\ pc' = [pc EXCEPT ![w] = "off"]
  /\ UNCHANGED <<telegram, offset, stopped, cur, last, done, doing, active, input,
                 enabled, phase, rows, handled, bounds>>

\* No update, a time-out, a network error or a 409: poll again later.
NoAnswer(w) ==
  /\ pc[w] = "asking"
  /\ pc' = [pc EXCEPT ![w] = "idle"]
  /\ UNCHANGED <<telegram, offset, stopped, cur, last, done, doing, active, input,
                 enabled, phase, rows, handled, bounds>>

-----------------------------------------------------------------------------
(* startChannels and stopChannels.  The parameter `at` is where the caller *)
(* leaves the pollers.                                                     *)

\* stopChannels
StopChannels(at) ==
  /\ pc' = at
  /\ stopped' = [w \in Pollers |-> stopped[w] \/ w = active]
  /\ active' = None

\* Mutant of ReloadChannels: startChannels without stopChannels.
ReloadOnTop(at, on) ==
  \/ ~on /\ StopChannels(at)
  \/ /\ on
     /\ \E n \in Pollers :
          /\ pc[n] = "off"
          /\ pc' = [at EXCEPT ![n] = "idle"]
          /\ stopped' = [stopped EXCEPT ![n] = FALSE]
          /\ active' = n

\* reloadChannels: stopChannels, and a poller with offset 0 if Telegram is on.
ReloadChannels(at, on) ==
  \/ ~on /\ StopChannels(at)
  \/ /\ on
     /\ \E n \in Pollers :
          /\ pc[n] = "off"
          /\ pc' = [at EXCEPT ![n] = "idle"]
          /\ stopped' = [w \in Pollers |-> w # n /\ (stopped[w] \/ w = active)]
          /\ active' = n

\* scheduleSelfRestart stops the channels at once; the process exits later.
ScheduleRestart(at) ==
  \/ /\ phase = "up" /\ phase' = "restarting"
     /\ StopChannels(at)
  \/ /\ phase = "restarting" /\ pc' = at
     /\ UNCHANGED <<phase, stopped, active>>

\* What the process kept in memory is gone.
Exits ==
  /\ phase' = "down"
  /\ pc' = Each("off") /\ offset' = Each(0) /\ stopped' = Each(FALSE)
  /\ cur' = Each(0) /\ last' = Each(0) /\ done' = Each({}) /\ doing' = Each("text")
  /\ active' = None /\ input' = FALSE

-----------------------------------------------------------------------------
(* One update in the loop of pollOnce.                                     *)

\* While Set Chats waits, the chat's next message is taken as its reply.
IsReply(u) == input /\ kind[u] \in {"text", "menu"}

\* persistRawUpdate, then onUpdate with its synchronous effects.  A valid reply
\* is saved with the settings the poller was started with: Telegram on.
Begin(w) ==
  LET u == cur[w]
      Does(what) == doing' = [doing EXCEPT ![w] = what]
  IN /\ pc[w] = "batch"
     /\ pc' = [pc EXCEPT ![w] = "handling"]
     /\ rows' = [rows EXCEPT ![u] = IF @ = "none" THEN "stored" ELSE @]
     /\ \/ /\ ~IsReply(u)
           /\ Does(kind[u])
           /\ input' = (input \/ kind[u] = "ask")
           /\ enabled' = (enabled # (kind[u] = "toggle"))
        \/ /\ IsReply(u) /\ kind[u] = "text"
           /\ Does("reply") /\ input' = FALSE /\ enabled' = TRUE
        \/ /\ IsReply(u)
           /\ Does("text") /\ input' = FALSE /\ UNCHANGED enabled
     /\ UNCHANGED <<telegram, offset, stopped, cur, last, done, active, phase, handled, bounds>>

\* Mutant of Advance: the offset is the id of the update, not the next one.
AdvanceStays(w) ==
  LET u == cur[w] IN
  /\ rows' = [rows EXCEPT ![u] = "processed"]
  /\ handled' = [handled EXCEPT ![u] = IF @ < 2 THEN @ + 1 ELSE @]
  /\ done' = [done EXCEPT ![w] = @ \cup {u}]
  /\ offset' = [offset EXCEPT ![w] = u]
  /\ cur' = [cur EXCEPT ![w] = IF u < last[w] THEN u + 1 ELSE 0]
  /\ last' = [last EXCEPT ![w] = IF u < last[w] THEN @ ELSE 0]

\* Mutant of Advance: the offset passes one update more.
AdvanceTwo(w) ==
  LET u == cur[w] IN
  /\ rows' = [rows EXCEPT ![u] = "processed"]
  /\ handled' = [handled EXCEPT ![u] = IF @ < 2 THEN @ + 1 ELSE @]
  /\ done' = [done EXCEPT ![w] = @ \cup {u}]
  /\ offset' = [offset EXCEPT ![w] = u + 2]
  /\ cur' = [cur EXCEPT ![w] = IF u < last[w] THEN u + 1 ELSE 0]
  /\ last' = [last EXCEPT ![w] = IF u < last[w] THEN @ ELSE 0]

\* onUpdate resolves: markProcessed, then the offset passes the update.
Advance(w) ==
  LET u == cur[w] IN
  /\ rows' = [rows EXCEPT ![u] = "processed"]
  /\ handled' = [handled EXCEPT ![u] = IF @ < 2 THEN @ + 1 ELSE @]
  /\ done' = [done EXCEPT ![w] = @ \cup {u}]
  /\ offset' = [offset EXCEPT ![w] = u + 1]
  /\ cur' = [cur EXCEPT ![w] = IF u < last[w] THEN u + 1 ELSE 0]
  /\ last' = [last EXCEPT ![w] = IF u < last[w] THEN @ ELSE 0]

After(w) == [pc EXCEPT ![w] = IF cur[w] < last[w] THEN "batch" ELSE "idle"]

\* What follows the last await: the menu edits and replies may have failed,
\* which is logged and skips the restart or the reload.
Finish(w) ==
  /\ pc[w] = "handling"
  /\ Advance(w)
  /\ \/ doing[w] \in {"clear", "toggle"} /\ ScheduleRestart(After(w))
     \/ doing[w] = "reply" /\ ReloadChannels(After(w), enabled) /\ UNCHANGED phase
     \/ pc' = After(w) /\ UNCHANGED <<stopped, active, phase>>
  /\ UNCHANGED <<telegram, doing, input, enabled, bounds>>

\* Mutant of Throw: "the offset is still advanced", telegramPoller.ts:255.
ThrowAdvances(w) ==
  /\ pc[w] = "handling" /\ doing[w] = "menu"
  /\ pc' = [pc EXCEPT ![w] = "idle"]
  /\ cur' = [cur EXCEPT ![w] = 0] /\ last' = [last EXCEPT ![w] = 0]
  /\ offset' = [offset EXCEPT ![w] = cur[w] + 1]
  /\ UNCHANGED <<telegram, stopped, done, doing, active, input, enabled,
                 phase, rows, handled, bounds>>

\* Mutant of Throw: the loop goes on with the next update.
ThrowSkips(w) ==
  /\ pc[w] = "handling" /\ doing[w] = "menu"
  /\ pc' = After(w)
  /\ cur' = [cur EXCEPT ![w] = IF @ < last[w] THEN @ + 1 ELSE 0]
  /\ UNCHANGED <<telegram, offset, stopped, last, done, doing, active, input, enabled,
                 phase, rows, handled, bounds>>

\* Only the menu of /channels is sent without a catch: onUpdate throws, and so
\* does pollOnce, before it advances the offset; a 404 stops the channels.
Throw(w) ==
  /\ pc[w] = "handling" /\ doing[w] = "menu"
  /\ \/ pc' = [pc EXCEPT ![w] = "idle"] /\ UNCHANGED <<stopped, active>>
     \/ ~stopped[w] /\ StopChannels([pc EXCEPT ![w] = "idle"])
  /\ cur' = [cur EXCEPT ![w] = 0] /\ last' = [last EXCEPT ![w] = 0]
  /\ UNCHANGED <<telegram, offset, done, doing, input, enabled, phase, rows, handled, bounds>>

\* 401 or 404: the poller stops itself, and onError the channels.
Rejected(w) ==
  /\ pc[w] = "asking" /\ ~stopped[w]
  /\ StopChannels([pc EXCEPT ![w] = "idle"])
  /\ UNCHANGED <<telegram, offset, cur, last, done, doing, input, enabled, phase,
                 rows, handled, bounds>>

\* sequentialPoll ends.
Leave(w) ==
  /\ pc[w] = "idle" /\ stopped[w]
  /\ pc' = [pc EXCEPT ![w] = "off"]
  /\ offset' = [offset EXCEPT ![w] = 0]
  /\ done' = [done EXCEPT ![w] = {}]
  /\ doing' = [doing EXCEPT ![w] = "text"]
  /\ stopped' = [stopped EXCEPT ![w] = FALSE]
  /\ UNCHANGED <<telegram, cur, last, active, input, enabled, phase, rows, handled, bounds>>

Loop(w) ==
  \/ Poll(w) \/ Answer(w) \/ NoAnswer(w) \/ Rejected(w) \/ Leave(w)
  \/ Begin(w) \/ Finish(w) \/ Throw(w)

-----------------------------------------------------------------------------
(* The daemon.                                                             *)

\* A turn or the CLI writes the channel settings and the channels are reloaded.
Configure(on) ==
  /\ phase = "up" /\ reloads < MaxReloads
  /\ reloads' = reloads + 1
  /\ enabled' = on
  /\ ReloadChannels(pc, on)
  /\ UNCHANGED <<telegram, offset, cur, last, done, doing, input, phase, rows, handled, crashes>>

Boot ==
  /\ phase = "down" /\ phase' = "up"
  /\ ReloadChannels(pc, enabled)
  /\ UNCHANGED <<telegram, offset, cur, last, done, doing, input, enabled, rows, handled, bounds>>

Exit ==
  /\ phase = "restarting"
  /\ Exits
  /\ UNCHANGED <<telegram, enabled, rows, handled, bounds>>

Crash ==
  /\ phase # "down" /\ crashes < MaxCrashes
  /\ crashes' = crashes + 1
  /\ Exits
  /\ UNCHANGED <<telegram, enabled, rows, handled, reloads>>

Next ==
  \/ \E k \in Kinds : Send(k)
  \/ \E w \in Pollers : Loop(w)
  \/ \E on \in BOOLEAN : Configure(on)
  \/ Boot \/ Exit \/ Crash

Spec == Init /\ [][Next]_vars

\* Timers fire and the process gets on with its restarts; the network works
\* again and again, so that a call that is retried succeeds in the end.
FairSpec ==
  /\ Spec
  /\ WF_vars(Boot) /\ WF_vars(Exit)
  /\ \A w \in Pollers :
       /\ WF_vars(Poll(w)) /\ WF_vars(Begin(w)) /\ WF_vars(Leave(w))
       /\ SF_vars(Answer(w)) /\ SF_vars(Finish(w))

-----------------------------------------------------------------------------
(* Properties.                                                             *)

\* Telegram forgets an update only when it was handled and its row marked:
\* neither errors, nor overlapping pollers, nor crashes lose one.
ConfirmedIsHandled ==
  \A u \in 1 .. confirmed : handled[u] > 0 /\ rows[u] = "processed"

\* Updates reach the program in the order they were sent: an update is begun
\* only when every earlier one was handled at least once.
InOrder ==
  \A w \in Pollers : pc[w] = "handling" =>
    \A u \in 1 .. cur[w] - 1 : handled[u] > 0

\* telegramPoller.ts:335: an instance handles an update once, whatever fails.
OncePerPoller ==
  \A w \in Pollers : pc[w] = "handling" => cur[w] \notin done[w]

\* At most one poller is not stopped, and stopChannels can reach it: two
\* would answer each other's polls with 409.
OneLivePoller ==
  \A w \in Pollers : pc[w] # "off" /\ ~stopped[w] => w = active

\* While the daemon is up with Telegram on, every update is handled in the end.
Delivered ==
  \A u \in Updates :
    u <= sent ~> handled[u] > 0 \/ phase # "up" \/ active = None

\* docs/channels-and-telegram.md:76: a change of the Telegram settings restarts
\* the daemon; a button that was pressed once does it once.
OneRestart ==
  \A u \in Updates : kind[u] \in {"clear", "toggle"} /\ crashes = 0 => handled[u] <= 1
=============================================================================
