------------------------------ MODULE ToolGate ------------------------------
(***************************************************************************)
(* The way of a Bash call through executeTool: the permission check, the    *)
(* confirmation of what is destructive or needs sudo, the run and the loop   *)
(* that repairs a failed command; and the three places a confirmation is     *)
(* seen: pendingPermissions of the runtime, the prompt of the terminal and   *)
(* the message with buttons in a Telegram chat.                             *)
(*                                                                         *)
(* What a command is, for the regular expressions of permissions.ts, is      *)
(* given by sets of commands. What a hook or the evaluating model says is    *)
(* external, and any of its answers may come.                               *)
(***************************************************************************)
EXTENDS Naturals, FiniteSets

CONSTANTS
  Calls,         \* tool calls
  Commands,      \* commands a call may run
  Destructive,   \* commands isDestructiveAction flags
  NeedsSudo,     \* commands requiresSudoPrivilege flags
  SafeReads,     \* commands isSafeReadOnlyBash lets pass
  AdHoc,         \* commands that call a model or speech service by hand
  DenyRule,      \* commands the first matching rule of CONF_POLICY denies
  AskRule,       \* commands it has the model decide about
  Hooked,        \* commands a PreToolUse hook decides about
  Modes,         \* what CONF_POLICY may say its mode is
  MaxRepairs     \* COMMAND_REPAIR_MAX_ATTEMPTS

Routes == {"terminal", "telegram", "nobody"}   \* who sees the confirmation
Nobody == "none"

VARIABLES
  mode,       \* the mode of CONF_POLICY
  sudoMode,   \* /etc/sudoers.d/monolito-temp is there
  call,       \* of a call: "idle", "waiting", "sudo", "ready", "running",
              \* "repair", "done", "denied", "failed"
  command,    \* the command of a call
  route,      \* who its confirmation goes to
  ground,     \* why it may run: "policy", "hook", "unguarded" or "consent"
  decision,   \* what its confirmation resolved to
  tried,      \* commands it has run or tried to repair with
  ran,        \* history: commands that ran, as [call, command, ground]
  pending,    \* calls with an entry in pendingPermissions
  prompt,     \* the call of the terminal's prompt
  chat,       \* the call in pendingTelegramPermissions
  message     \* of a call: its Telegram message, "none", "sending", "open",
              \* "allowed", "denied", or "other" when it names another call

policy == <<mode, sudoMode>>
views == <<pending, prompt, chat, message>>
run == <<call, command, route, ground, decision, tried, ran>>
vars == <<policy, run, views>>

(* normalizePolicyConfig: whatever else is written there counts as this mode. *)
NormalizePolicyMode(raw) ==
  IF raw \in {"default", "acceptEdits", "bypassPermissions"} THEN raw ELSE "acceptEdits"

Init ==
  /\ mode \in {NormalizePolicyMode(raw) : raw \in Modes}
  /\ sudoMode = FALSE
  /\ call = [c \in Calls |-> "idle"]
  /\ command = [c \in Calls |-> CHOOSE m \in Commands : TRUE]
  /\ route \in [Calls -> Routes]
  /\ ground = [c \in Calls |-> "policy"]
  /\ decision = [c \in Calls |-> Nobody]
  /\ tried = [c \in Calls |-> {}]
  /\ ran = {}
  /\ pending = {}
  /\ prompt = Nobody
  /\ chat = Nobody
  /\ message = [c \in Calls |-> "none"]

-----------------------------------------------------------------------------
(* checkToolPermission.                                                    *)

Result(behavior, why) == [behavior |-> behavior, why |-> why]

RequiresSudo(m) == m \in NeedsSudo
IsDestructive(m) == m \in Destructive
IsAdHoc(m) == m \in AdHoc
IsSafeReadOnlyBash(m) == m \in SafeReads /\ ~IsDestructive(m) /\ ~IsAdHoc(m)

(* evaluateMode, for Bash.                                                 *)
ModeAllows(m) ==
  \/ mode = "bypassPermissions"
  \/ ~IsAdHoc(m) /\ (mode = "default" => IsSafeReadOnlyBash(m))

(* evaluateRules and evaluateSemanticPermission: the first rule that matches  *)
(* decides, or has the model decide; without one the mode does.             *)
Decisions(m) ==
  CASE m \in DenyRule -> {"deny"}
    [] m \in AskRule -> {"allow", "deny"}
    [] OTHER -> {IF ModeAllows(m) THEN "allow" ELSE "deny"}

(* The guards ask about what would be allowed, unless nothing is guarded.   *)
Unguarded == mode = "bypassPermissions" \/ sudoMode

Guard(m) ==
  CASE Unguarded -> Result("allow", "unguarded")
    [] RequiresSudo(m) -> Result("ask", "sudo")
    [] IsDestructive(m) -> Result("ask", "destructive")
    [] OTHER -> Result("allow", "policy")

(* The first hook that answers allow or deny decides; one that fails, says    *)
(* something else or nothing, shell command or prompt, leaves it to the rules. *)
HookDecisions(m) ==
  {Result(b, "hook") : b \in IF m \in Hooked THEN {"allow", "deny"} ELSE {}}

(* A hook that says allow or deny is not followed by any rule or guard.     *)
CheckToolPermission(m) ==
  {IF d = "allow" THEN Guard(m) ELSE Result("deny", "policy") : d \in Decisions(m)}
    \cup HookDecisions(m)

-----------------------------------------------------------------------------
(* The confirmation.                                                       *)

(* A chat gets a message with buttons, and its entry is the call's.          *)
AskInChat(c) ==
  /\ chat' = IF route[c] = "telegram" THEN c ELSE chat
  /\ message' = IF route[c] = "telegram" THEN [message EXCEPT ![c] = "sending"] ELSE message

(* destructive.confirm: the terminal shows it if it is about its session,    *)
(* over another one.                                                       *)
Ask(c) ==
  /\ pending' = pending \cup {c}
  /\ prompt' = IF route[c] = "terminal" THEN c ELSE prompt
  /\ AskInChat(c)

ExecuteTool(c, m) ==
  /\ call[c] = "idle"
  /\ command' = [command EXCEPT ![c] = m]
  /\ tried' = [tried EXCEPT ![c] = {m}]
  /\ \E result \in CheckToolPermission(m) :
       CASE result.behavior = "allow" ->
              /\ call' = [call EXCEPT ![c] = "ready"]
              /\ ground' = [ground EXCEPT ![c] = result.why]
              /\ UNCHANGED views
         [] result.behavior = "deny" ->
              /\ call' = [call EXCEPT ![c] = "denied"]
              /\ UNCHANGED <<ground, views>>
         [] result.behavior = "ask" ->
              /\ call' = [call EXCEPT ![c] = "waiting"]
              /\ ground' = [ground EXCEPT ![c] = result.why]
              /\ Ask(c)
  /\ UNCHANGED <<policy, route, decision, ran>>

(* Seeded bug: an answer starts the call whether or not it still waits. *)
DecideAgain(c, d) ==
  /\ decision' = [decision EXCEPT ![c] = d]
  /\ call' = [call EXCEPT ![c] = IF d = "deny" THEN "denied" ELSE "ready"]
  /\ ground' = [ground EXCEPT ![c] = "consent"]

(* What the turn does when the promise is resolved; a promise resolves once. *)
(* A command the sudo guard asked about waits for pkexec. The rule that       *)
(* "save always" appends to CONF_POLICY is left out: its pattern is compared  *)
(* with the whole input, which it never matches.                            *)
Decide(c, d) ==
  IF call[c] # "waiting" THEN UNCHANGED <<decision, call, ground>>
  ELSE /\ decision' = [decision EXCEPT ![c] = d]
       /\ call' = [call EXCEPT ![c] = CASE d = "deny" -> "denied"
                                        [] d # "deny" /\ ground[c] = "sudo" -> "sudo"
                                        [] OTHER -> "ready"]
       /\ ground' = [ground EXCEPT ![c] = "consent"]

Resolve(c, d) == Decide(c, d)

(* Seeded bug: nobody waits for what nobody was asked. *)
AskedSomebody(c) == call[c] = "waiting" /\ route[c] # "nobody"

(* The timer of the confirmation denies it. The entry, the prompt and the    *)
(* message stay.                                                           *)
Asked(c) == call[c] = "waiting"

ConfirmTimeout(c) ==
  /\ Asked(c)
  /\ Resolve(c, "deny")
  /\ UNCHANGED <<mode, sudoMode, command, route, tried, ran, views>>

(* permission.resolved: the terminal drops its prompt, the chat its entry,    *)
(* and the message is edited if it is known by then.                         *)
Resolved(c, d) ==
  /\ pending' = pending \ {c}
  /\ prompt' = IF prompt = c THEN Nobody ELSE prompt
  /\ chat' = IF chat = c THEN Nobody ELSE chat
  /\ message' = IF chat = c /\ message[c] = "open"
                THEN [message EXCEPT ![c] = IF d = "deny" THEN "denied" ELSE "allowed"]
                ELSE message

(* resolvePendingPermission from the terminal's key.                        *)
Key(d) ==
  /\ prompt # Nobody
  /\ IF prompt \in pending
     THEN Resolve(prompt, d) /\ Resolved(prompt, d)
     ELSE prompt' = Nobody /\ UNCHANGED <<decision, call, ground, pending, chat, message>>
  /\ UNCHANGED <<mode, sudoMode, command, route, tried, ran>>

(* A button pressed in the chat. The entry the chat still has belongs to      *)
(* another call: it is dropped, and the message then describes that one.     *)
Press(c, d) ==
  /\ message[c] # "none" /\ message[c] # "sending"
  /\ IF c \in pending
     THEN /\ Resolve(c, d)
          /\ pending' = pending \ {c}
          /\ prompt' = IF prompt = c THEN Nobody ELSE prompt
          /\ chat' = Nobody
          /\ message' = [message EXCEPT ![c] =
               CASE chat = c /\ @ = "open" -> IF d = "deny" THEN "denied" ELSE "allowed"
                 [] chat # c /\ chat # Nobody -> "other"
                 [] OTHER -> @]
     ELSE /\ chat' = Nobody
          /\ UNCHANGED <<decision, call, ground, pending, prompt, message>>
  /\ UNCHANGED <<mode, sudoMode, command, route, tried, ran>>

(* The message is there: its id is noted if the chat still has its entry.    *)
(* Without the id, it stays open for good.                                 *)
MessageSent(c) ==
  /\ message[c] = "sending"
  /\ message' = [message EXCEPT ![c] = "open"]
  /\ UNCHANGED <<policy, run, pending, prompt, chat>>

(* pkexec turns the sudo mode on, for every command, or fails.              *)
ActivateSudo(c) ==
  /\ call[c] = "sudo"
  /\ \/ sudoMode' = TRUE /\ call' = [call EXCEPT ![c] = "ready"]
     \/ sudoMode' = sudoMode /\ call' = [call EXCEPT ![c] = "failed"]
  /\ UNCHANGED <<mode, command, route, ground, decision, tried, ran, views>>

(* The tool that turns it off.                                             *)
DeactivateSudo ==
  /\ sudoMode
  /\ sudoMode' = FALSE
  /\ UNCHANGED <<mode, run, views>>

-----------------------------------------------------------------------------
(* The run.                                                                *)

Run(c) ==
  /\ call[c] = "ready"
  /\ call' = [call EXCEPT ![c] = "running"]
  /\ ran' = ran \cup {[call |-> c, command |-> command[c], ground |-> ground[c]]}
  /\ UNCHANGED <<policy, command, route, ground, decision, tried, views>>

Finish(c) ==
  /\ call[c] = "running"
  /\ call' \in {[call EXCEPT ![c] = s] : s \in {"done", "repair"}}
  /\ UNCHANGED <<policy, command, route, ground, decision, tried, ran, views>>

(* Seeded bug: a repaired command is taken for the one that was permitted. *)
RepairUnchecked(m) == {[behavior |-> "allow", why |-> "consent"]}

RepairCheck(m) == CheckToolPermission(m)

(* What the model proposes is a command that was not tried yet, or nothing    *)
(* that looks like one (extractRepairedCommand).                            *)
Candidates(c) == Commands \ tried[c]

(* tryRepairBashFailure: a candidate that was not tried yet runs if it is     *)
(* allowed without a question.                                             *)
Repair(c) ==
  /\ call[c] = "repair"
  /\ \/ /\ Cardinality(tried[c]) <= MaxRepairs
        /\ \E m \in Candidates(c) :
             /\ tried' = [tried EXCEPT ![c] = @ \cup {m}]
             /\ \E result \in RepairCheck(m) :
                  IF result.behavior = "allow"
                  THEN /\ call' = [call EXCEPT ![c] = "ready"]
                       /\ command' = [command EXCEPT ![c] = m]
                       /\ ground' = [ground EXCEPT ![c] = result.why]
                  ELSE call' = [call EXCEPT ![c] = "failed"] /\ UNCHANGED <<command, ground>>
     \/ /\ call' = [call EXCEPT ![c] = "failed"]
        /\ UNCHANGED <<command, ground, tried>>
  /\ UNCHANGED <<policy, route, decision, ran, views>>

Next ==
  \/ \E c \in Calls, m \in Commands : ExecuteTool(c, m)
  \/ \E c \in Calls : \/ ConfirmTimeout(c) \/ MessageSent(c) \/ ActivateSudo(c)
                      \/ Run(c) \/ Finish(c) \/ Repair(c)
  \/ \E d \in {"allow", "ask", "deny"} : Key(d)
  \/ \E c \in Calls, d \in {"allow", "deny"} : Press(c, d)
  \/ DeactivateSudo

(* Timers fire; nobody has to answer.                                      *)
TimersFire == \E c \in Calls : ConfirmTimeout(c)

Spec == Init /\ [][Next]_vars /\ WF_vars(TimersFire)

-----------------------------------------------------------------------------
(* The types. *)
TypeOK ==
  /\ mode \in {"default", "acceptEdits", "bypassPermissions"} /\ sudoMode \in BOOLEAN
  /\ call \in [Calls -> {"idle", "waiting", "sudo", "ready", "running", "repair", "done", "denied", "failed"}]
  /\ decision \in [Calls -> {Nobody, "allow", "ask", "deny"}]
  /\ pending \subseteq Calls /\ prompt \in Calls \cup {Nobody} /\ chat \in Calls \cup {Nobody}
  /\ \A c \in Calls : call[c] = "waiting" => c \in pending
  /\ \A c \in Calls : Cardinality(tried[c]) <= MaxRepairs + 1

(* A command that is destructive or needs sudo runs only on a hook's word,    *)
(* with the guards off, or because somebody allowed this very command in      *)
(* time. The consent to one never carries over to the command that repairs   *)
(* it.                                                                     *)
Consented ==
  \A r \in ran :
    r.command \in Destructive \cup NeedsSudo =>
      \/ r.ground \in {"hook", "unguarded"}
      \/ /\ r.ground = "consent"
         /\ decision[r.call] \in {"allow", "ask"}
         /\ \A s \in ran : s.call = r.call /\ s.ground = "consent" => s = r

(* A call that was denied, by the user or by its timer, never runs, however   *)
(* late an Allow comes.                                                    *)
DeniedStays ==
  [][\A c \in Calls :
       call[c] = "denied" => call'[c] = "denied" /\ \A r \in ran' \ ran : r.call # c]_vars

(* A confirmation never hangs its turn.                                     *)
EndsOf(c) == call[c] = "waiting" ~> call[c] # "waiting"
ConfirmEnds == \A c \in Calls : EndsOf(c)

(* channelManager.ts: a press after the timeout is told that nothing happened. *)
(* The entry of a confirmation that timed out is still there, so the press    *)
(* reports that the agent will proceed.                                     *)
TellsTheTruth == \A c \in Calls : message[c] = "allowed" => call[c] # "denied"
=============================================================================
