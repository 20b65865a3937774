---------------------------- MODULE ShellCommand ----------------------------
(***************************************************************************)
(* The Bash tool: a command runs as a login shell, which may start others  *)
(* that outlive it and keep its output open.  A foreground call waits for  *)
(* the output to close; its timer kills the shell only, and an abort of    *)
(* the turn kills a running shell and answers at once, closing the log     *)
(* that output may still be written to.  In the background the shell is    *)
(* detached and the call answers with its pid, but the turn's abort signal *)
(* stays tied to it.  Without the log of an instance the call goes through *)
(* execFile, whose timeout and bound on the output also close the output.  *)
(***************************************************************************)
EXTENDS Naturals, Sequences

CONSTANTS Commands      \* the calls of one turn

Modes == {"logged", "plain", "background"}
None == "none"
Killed == "killed"      \* the exit code of a shell that was killed is null
Timeout == "timeout"    \* killed by execFile's timeout, which marks the error

VARIABLES
    gate,       \* what permissionGate decides about each command
    mode,       \* how it runs
    shell,      \* None, "running", or how it ended: "zero", "other", Killed, Timeout
    left,       \* whether something it started holds its output open
    timer,      \* "off", "set" or "rang"
    result,     \* of the call: its code (or None, "denied", "pid") and interrupted
    aborted,    \* the turn's abort signal
    down        \* a chunk came after the log was closed: an unhandled 'error'

vars == <<gate, mode, shell, left, timer, result, aborted, down>>

Code(code, interrupted) == [code |-> code, interrupted |-> interrupted]
Unanswered == Code(None, FALSE)
Waiting(c) == shell[c] # None /\ result[c] = Unanswered

(***************************************************************************)
(* The permission gate                                                     *)
(***************************************************************************)
\* What a text is split into: each segment by its command and redirections
Segments == {"cd", "git", "list", "write", "empty", "unparsed"}
ReadOnly(segment) == segment = "list"

\* A rule has an action and the segments it matches
Matched(rules, action, segment) == \E r \in rules : r.action = action /\ segment \in r.matches

\* acceptEditsMode is never asked for
EvaluateSegment(segment, rules) ==
    IF ReadOnly(segment) THEN "allow"
    ELSE IF segment \in {"empty", "unparsed"} THEN "ask"
    ELSE IF Matched(rules, "deny", segment) THEN "deny"
    ELSE IF rules = {} \/ Matched(rules, "allow", segment) THEN "allow" ELSE "ask"

EvaluatePipeline(segments, rules) ==
    LET decisions == {EvaluateSegment(segments[i], rules) : i \in DOMAIN segments}
    IN IF "deny" \in decisions THEN "deny" ELSE IF "ask" \in decisions THEN "ask" ELSE "allow"

\* cd, and git as the next segment with a command
DetectCdGitChain(segments) ==
    \E i, j \in DOMAIN segments :
        /\ i < j /\ segments[i] = "cd" /\ segments[j] = "git"
        /\ \A k \in i + 1 .. j - 1 : segments[k] \in {"empty", "unparsed"}

\* A text with a finding of a high severity is denied; the chain comes before
\* what the rules say
GateBashCommand(text, rules) ==
    IF text.severe THEN "deny"
    ELSE IF DetectCdGitChain(text.segments) THEN "ask"
    ELSE EvaluatePipeline(text.segments, rules)

Texts == [severe : BOOLEAN, segments : [1..1 -> Segments] \cup [1..2 -> Segments]]

\* CONF_POLICY is an object and would be read as a text: no rule reaches the gate
Rules == {}

Init == /\ gate \in [Commands -> {GateBashCommand(t, Rules) : t \in Texts}]
        /\ mode = [c \in Commands |-> None]
        /\ shell = [c \in Commands |-> None]
        /\ left = [c \in Commands |-> FALSE]
        /\ timer = [c \in Commands |-> "off"]
        /\ result = [c \in Commands |-> Unanswered]
        /\ aborted = FALSE /\ down = FALSE

Answer(c, r) == result' = [result EXCEPT ![c] = r]

\* Only deny is heeded: what the gate would ask about runs
Denies(c) ==
    /\ mode[c] = None /\ gate[c] = "deny"
    /\ mode' = [mode EXCEPT ![c] = "denied"] /\ Answer(c, Code("denied", FALSE))
    /\ UNCHANGED <<gate, shell, left, timer, aborted, down>>

\* A call of an aborted turn is answered before it gets here
Runs(c) ==
    /\ mode[c] = None /\ gate[c] # "deny" /\ ~aborted
    /\ \E m \in Modes :
          /\ mode' = [mode EXCEPT ![c] = m]
          /\ timer' = [timer EXCEPT ![c] = IF m = "background" THEN "off" ELSE "set"]
          /\ IF m = "background" THEN Answer(c, Code("pid", FALSE)) ELSE UNCHANGED result
    /\ shell' = [shell EXCEPT ![c] = "running"]
    /\ UNCHANGED <<gate, left, aborted, down>>

\* The command starts something that keeps the output open
Forks(c) == /\ shell[c] = "running" /\ ~left[c]
            /\ left' = [left EXCEPT ![c] = TRUE]
            /\ UNCHANGED <<gate, mode, shell, timer, result, aborted, down>>

LeftEnds(c) == /\ left[c]
               /\ left' = [left EXCEPT ![c] = FALSE]
               /\ UNCHANGED <<gate, mode, shell, timer, result, aborted, down>>

Goes(c, how) == shell' = [shell EXCEPT ![c] = how]

Exits(c) == /\ shell[c] = "running"
            /\ \E how \in {"zero", "other"} : Goes(c, how)
            /\ UNCHANGED <<gate, mode, left, timer, result, aborted, down>>

\* Seeded bug: the timer only notes that the time is over.
NotKilled(c) == UNCHANGED <<shell, left>>

\* child.kill("SIGKILL") reaches the shell only; execFile closes the output too
KillsShell(c) ==
    /\ IF shell[c] = "running"
       THEN Goes(c, IF mode[c] = "plain" THEN Timeout ELSE Killed)
       ELSE UNCHANGED shell
    /\ left' = IF mode[c] = "plain" THEN [left EXCEPT ![c] = FALSE] ELSE left

Rings(c) == /\ timer[c] = "set"
            /\ timer' = [timer EXCEPT ![c] = "rang"]
            /\ KillsShell(c)
            /\ UNCHANGED <<gate, mode, result, aborted, down>>

\* execFile: the output passes maxBuffer
Overflows(c) == /\ mode[c] = "plain" /\ shell[c] = "running"
                /\ Goes(c, Killed)
                /\ left' = [left EXCEPT ![c] = FALSE]
                /\ UNCHANGED <<gate, mode, timer, result, aborted, down>>

\* Seeded bug: a shell that was killed counts as one without an error.
CodeOrZero(c) == Code(IF shell[c] = "other" THEN "other" ELSE "zero", FALSE)

\* exitCode is null of a killed shell; execFile calls interrupted only its timeout
CodeOf(c) == Code(IF shell[c] = Timeout THEN Killed ELSE shell[c],
                  shell[c] = Timeout \/ (shell[c] = Killed /\ mode[c] = "logged"))

\* The output is closed: "close", or the callback of execFile
Closes(c) ==
    /\ Waiting(c) /\ shell[c] # "running" /\ ~left[c]
    /\ Answer(c, CodeOf(c))
    /\ timer' = [timer EXCEPT ![c] = "off"]
    /\ UNCHANGED <<gate, mode, shell, left, aborted, down>>

\* The abort signal is heard for every running shell, those in the background
\* too.  A call that waits for such a shell answers at once
Aborts ==
    /\ ~aborted /\ aborted' = TRUE
    /\ LET killed == {c \in Commands : shell[c] = "running"}
           cut == {c \in killed : Waiting(c)}
       IN /\ shell' = [c \in Commands |-> IF c \in killed THEN Killed ELSE shell[c]]
          /\ result' = [c \in Commands |->
                IF c \in cut THEN Code(Killed, mode[c] = "logged") ELSE result[c]]
          /\ timer' = [c \in Commands |-> IF c \in cut THEN "off" ELSE timer[c]]
    /\ UNCHANGED <<gate, mode, left, down>>

\* A chunk of the output of a call that was answered by the abort
LateChunk(c) == /\ mode[c] = "logged" /\ aborted /\ result[c].code = Killed
                /\ left[c]
                /\ down' = TRUE
                /\ UNCHANGED <<gate, mode, shell, left, timer, result, aborted>>

Next ==
    /\ ~down
    /\ \/ Aborts
       \/ \E c \in Commands :
             \/ Denies(c) \/ Runs(c) \/ Forks(c) \/ LeftEnds(c) \/ Exits(c)
             \/ Rings(c) \/ Overflows(c) \/ Closes(c) \/ LateChunk(c)

\* Timers ring and closed outputs are noticed; a command owes nobody its end
Spec == Init /\ [][Next]_vars /\ \A c \in Commands : WF_vars(Rings(c)) /\ WF_vars(Closes(c))

(***************************************************************************)
(* Properties                                                              *)
(***************************************************************************)
\* The commands, their shells and their results are of their kinds.
TypeOK ==
    /\ \A c \in Commands :
          /\ mode[c] \in Modes \cup {None, "denied"}
          /\ shell[c] \in {None, "running", "zero", "other", Killed, Timeout}
          /\ timer[c] \in {"off", "set", "rang"}
          /\ result[c].code \in {None, "denied", "pid", "zero", "other", Killed}
    /\ aborted \in BOOLEAN /\ down \in BOOLEAN

\* The call reports code zero only of a shell that ended so by itself, however
\* timer, abort and exit met; a logged call whose shell was killed says so.
HonestCode ==
    \A c \in Commands :
        /\ result[c].code = "zero" => shell[c] = "zero"
        /\ result[c].code = Killed /\ mode[c] = "logged" => result[c].interrupted

\* A foreground call ends, unless what its command left behind keeps the output
\* open: neither the timer nor an abort reaches that.
EndsOf(c) == Waiting(c) ~> ~Waiting(c) \/ left[c] \/ down
CallEnds == \A c \in Commands : EndsOf(c)

\* A segment that a rule denies is not run.
DeniedIsDenied ==
    \A t \in Texts, rules \in SUBSET [action : {"allow", "deny"}, matches : SUBSET {"git", "list"}] :
        \A i \in DOMAIN t.segments :
            Matched(rules, "deny", t.segments[i]) => GateBashCommand(t, rules) = "deny"

\* The timeout bounds a foreground call.
TimeoutBounds == \A c \in Commands : timer[c] = "rang" ~> ~Waiting(c) \/ down

\* Aborting a turn does not take the daemon down.
AbortIsHarmless == ~down
=============================================================================
