------------------------------ MODULE MCTools -------------------------------
(***************************************************************************)
(* The tools of a turn, what permits them and what the turn makes of them, *)
(* checked one at a time: they share no state, so a behaviour of this      *)
(* module is a behaviour of the one component that "part" names.           *)
(***************************************************************************)
EXTENDS Naturals, Sequences, FiniteSets

CONSTANTS
    Parts,            \* the components that are checked
    GateCalls,        \* the calls of the gate
    GateCommands,     \* their commands, and of these
    Destructive,      \* those that look destructive,
    NeedsSudo,        \* those that ask for sudo,
    SafeReads,        \* those that only read,
    AdHoc,            \* those that run code,
    DenyRule,         \* those a rule denies,
    AskRule,          \* those a rule has the model judge,
    Hooked,           \* and those a hook judges
    GateModes,        \* the permission modes
    MaxRepairs,       \* repairs of a command (bound)
    Turns,            \* the turns around the agent loop
    MaxAttempts,      \* their attempts,
    MaxEmpty,         \* retries of an empty reply,
    MaxEvents,        \* events (bound),
    MaxBeside,        \* and events of turns that overlap (bound)
    FileCalls,        \* the calls of the file tools
    FileSessions,     \* and their sessions
    MaxBlocks,        \* largest file (bound)
    MaxRead,          \* largest file that is read
    MaxMtime,         \* time stamps (bound)
    Wings,            \* boot files other than memory.md
    Titles,           \* titles of its sections
    MaxSecs,          \* sections that fit in memory.md
    MaxWrites,        \* writes of it (bound)
    WebCalls,         \* the calls of the web tools
    Urls,             \* the pages they fetch
    MaxRedirects,     \* redirects of a fetch,
    MaxRetries,       \* retries of an image search
    MaxEntries,       \* entries of the cache,
    MaxBytes,         \* their bytes
    Ttl,              \* and their time to live
    Sizes,            \* sizes of pages
    MaxTime,          \* ticks of the clock (bound)
    ScheduleCalls,    \* the calls of schedule_task
    OneShots,         \* one-shot reminders
    MaxJobs,          \* recurring jobs (bound)
    MaxEdits,         \* edits of the crontab by the user (bound)
    ShellCommands,    \* the calls of Bash
    SpokenSessions,   \* the sessions of the voice mode
    MaxPlays          \* players started (bound)

\* 0 is no turn, and a request has at least one attempt (topLevelRalphGate.ts).
ASSUME TurnAssumption ==
    /\ Turns \subseteq Nat \ {0}
    /\ MaxAttempts \in Nat \ {0} /\ MaxEmpty \in Nat
\* Counters and limits are numbers, time starts at 1, there is a session
\* and a page, and the cache has room for more than one entry.
ASSUME GateAssumption == MaxRepairs \in Nat
ASSUME FileAssumption ==
    /\ FileSessions # {}
    /\ MaxBlocks \in Nat \ {0} /\ MaxRead \in Nat /\ MaxMtime \in Nat \ {0}
ASSUME MemoryAssumption == MaxWrites \in Nat /\ MaxSecs \in Nat
ASSUME WebAssumption ==
    /\ Urls # {} /\ Sizes \subseteq Nat
    /\ {MaxRedirects, MaxRetries, MaxEntries, MaxBytes, Ttl, MaxTime} \subseteq Nat
    /\ MaxEntries > 1
ASSUME ScheduleAssumption == MaxJobs \in Nat

VARIABLES
    part,   \* the component of this behaviour
    gateMode, sudoMode, gateCall, command, route, ground, decision, tried,
    ran, pending, prompt, chat, message,
    phase, kind, reason, turnTimer, current, research, tasks, fresh, unsynced,
    attempt, empties, demand, tools, checkpoint, reply, overlapped, injected,
    promised, worked, silent, events,
    content, fileMtime, readState, history, filePc, session, taken,
    fileResult, replaced, dirty, overtaken, blind,
    wings, memory, memoryMtime, by, writes, sameRoot, memoryCache, stat, asWas,
    webCache, bytes, webPc, action, url, tries, webResult, sources, now,
    latest,
    crontab, scheduleCall, jobs, scheduleSaid, raced, shots, notes, edits,
    boots,
    gate, shellMode, shell, left, shellTimer, shellResult, aborted, down,
    voiceMode, spokenPc, source, spokenSaid, made, unrecorded, active, player

Gate == INSTANCE ToolGate WITH
    Calls <- GateCalls, Commands <- GateCommands, Modes <- GateModes,
    mode <- gateMode, call <- gateCall
Turn == INSTANCE TurnReply WITH
    timer <- turnTimer
File == INSTANCE FileTools WITH
    Calls <- FileCalls, Sessions <- FileSessions, mtime <- fileMtime,
    pc <- filePc, result <- fileResult
Memory == INSTANCE MemoryFiles WITH
    mtime <- memoryMtime, cache <- memoryCache
Web == INSTANCE WebTools WITH
    Calls <- WebCalls, cache <- webCache, pc <- webPc, result <- webResult
Schedule == INSTANCE Schedule WITH
    Calls <- ScheduleCalls, call <- scheduleCall, said <- scheduleSaid
Shell == INSTANCE ShellCommand WITH
    Commands <- ShellCommands, mode <- shellMode, timer <- shellTimer,
    result <- shellResult
Spoken == INSTANCE VoiceReply WITH
    Sessions <- SpokenSessions, pc <- spokenPc, said <- spokenSaid

gateVars == <<gateMode, sudoMode, gateCall, command, route, ground, decision,
              tried, ran, pending, prompt, chat, message>>
turnVars == <<phase, kind, reason, turnTimer, current, research, tasks, fresh,
              unsynced, attempt, empties, demand, tools, checkpoint, reply,
              overlapped, injected, promised, worked, silent, events>>
fileVars == <<content, fileMtime, readState, history, filePc, session, taken,
              fileResult, replaced, dirty, overtaken, blind>>
memoryVars == <<wings, memory, memoryMtime, by, writes, sameRoot, memoryCache,
                stat, asWas>>
webVars == <<webCache, bytes, webPc, action, url, tries, webResult, sources,
             now, latest>>
scheduleVars == <<crontab, scheduleCall, jobs, scheduleSaid, raced, shots,
                  notes, edits, boots>>
shellVars == <<gate, shellMode, shell, left, shellTimer, shellResult, aborted,
               down>>
spokenVars == <<voiceMode, spokenPc, source, spokenSaid, made, unrecorded,
                active, player>>
vars == <<part, gateVars, turnVars, fileVars, memoryVars, webVars, scheduleVars, shellVars, spokenVars>>

\* What a component may start in differently matters only when it runs.
Init ==
    /\ part \in Parts
    /\ Gate!Init /\ (part # "gate" => gateMode = "acceptEdits" /\ route = [c \in GateCalls |-> "nobody"])
    /\ Turn!Init /\ (part # "turn" => kind = [t \in Turns |-> "main"])
    /\ File!Init /\ (part # "file" => content = <<>>)
    /\ Memory!Init /\ (part # "memory" => sameRoot)
    /\ Web!Init
    /\ Schedule!Init /\ (part # "schedule" => crontab = <<>>)
    /\ Shell!Init /\ (part # "shell" => gate = [c \in ShellCommands |-> "allow"])
    /\ Spoken!Init

\* A step of one component: the others stay as they are.
Only(p) ==
    /\ part = p /\ UNCHANGED part
    /\ IF p = "gate" THEN TRUE ELSE UNCHANGED gateVars
    /\ IF p = "turn" THEN TRUE ELSE UNCHANGED turnVars
    /\ IF p = "file" THEN TRUE ELSE UNCHANGED fileVars
    /\ IF p = "memory" THEN TRUE ELSE UNCHANGED memoryVars
    /\ IF p = "web" THEN TRUE ELSE UNCHANGED webVars
    /\ IF p = "schedule" THEN TRUE ELSE UNCHANGED scheduleVars
    /\ IF p = "shell" THEN TRUE ELSE UNCHANGED shellVars
    /\ IF p = "spoken" THEN TRUE ELSE UNCHANGED spokenVars

Next ==
    \/ Only("gate") /\ Gate!Next
    \/ Only("turn") /\ Turn!Next
    \/ Only("file") /\ File!Next
    \/ Only("memory") /\ Memory!Next
    \/ Only("web") /\ Web!Next
    \/ Only("schedule") /\ Schedule!Next
    \/ Only("shell") /\ Shell!Next
    \/ Only("spoken") /\ Spoken!Next

\* What goes on by itself, in each component as in its own Spec.
GoesOn ==
    \/ Only("gate") /\ Gate!TimersFire
    \/ Only("turn") /\ \E t \in Turns : Turn!GoesOn(t)

Spec ==
    /\ Init
    /\ [][Next]_vars
    /\ WF_vars(GoesOn)
    /\ \A c \in WebCalls :
           /\ WF_vars(Only("web") /\ Web!Goes(c))
    /\ \A c \in OneShots :
           /\ WF_vars(Only("schedule") /\ Schedule!Fires(c))
    /\ \A c \in ShellCommands :
           /\ WF_vars(Only("shell") /\ Shell!Rings(c))
           /\ WF_vars(Only("shell") /\ Shell!Closes(c))

-----------------------------------------------------------------------------
\* Every variable of every component has its type.
TypesOK == Gate!TypeOK /\ Turn!TypeOK /\ File!TypeOK /\ Memory!TypeOK
           /\ Web!TypeOK /\ Schedule!TypeOK /\ Shell!TypeOK /\ Spoken!TypeOK

\* A destructive command runs only with the consent to this very command, a
\* hook's word or the guards off (checkToolPermission, tryRepairBashFailure).
Consented == Gate!Consented

\* A call that was denied never runs, however late an Allow comes.
DeniedStays == Gate!DeniedStays

\* A confirmation never hangs its turn; of one call, for they are
\* interchangeable.
ConfirmEnds == Gate!EndsOf(CHOOSE c \in GateCalls : TRUE)

\* A turn without another beside it keeps its own time limit
\* (taskItemTimer.ts).
LimitStands == Turn!LimitStands

\* The timer of a lone turn runs for an item that is still open.
ItemIsOpen == Turn!ItemIsOpen

\* A turn ends without a word only when it has cause to.
NeverSilent == Turn!NeverSilent

\* The evidence the user was told is kept stays until a later turn of the
\* session has answered (researchCheckpoint.ts, runtime.ts).
KeptUntilAnswered == Turn!KeptUntilAnswered

\* A turn ends: attempts, empty replies and demands are counted (the Ralph
\* loop).
TurnEnds == Turn!TurnEnds

\* What an edit or a write replaced is in the history of the file
\* (trackEdit).
FileRecoverable == File!Recoverable

\* A write to a file that changed since its session read it is warned about,
\* unless it changed while it was read (isFileStale).
FileWarnsWhenChanged == File!WarnsWhenChanged

\* The boot block from the cache is the one the files give now, as long as
\* they are where the fingerprint looks (turnPrepCache.ts).
MemoryCachedIsCurrent == Memory!CachedIsCurrent

\* Filing a fact changes one section of memory.md (upsertMemorySection).
MemoryFilingTouchesOne == Memory!FilingTouchesOne

\* The byte count of the web cache is the sum of its entries (lru-cache.ts).
WebCountHolds == Web!CountHolds

\* A page from the cache is at most its time to live old.
WebCachedIsFresh == Web!CachedIsFresh

\* The entry used last is evicted last.
WebLastUsedStays == Web!LastUsedStays

\* A call of a web tool ends: redirects and retries are counted.
WebCallEnds == Web!CallEnds

\* A job runs in the time zone that was asked for (shell.ts, crontab).
ScheduleOwnZone == Schedule!OwnZone

\* A job that was reported as scheduled is in the crontab unless calls
\* overlapped.
ScheduleSaidIsThere == Schedule!SaidIsThere

\* A one-shot reminder fires unless the machine restarts, or the unit it was
\* scheduled in.
ScheduleShotsFire == Schedule!ShotsFire

\* Bash answers the code of the shell it ran.
ShellHonestCode == Shell!HonestCode

\* A call of Bash whose shell ends, or whose timer rings while the shell
\* runs, ends; of one command, for they are interchangeable.
ShellCallEnds == Shell!EndsOf(CHOOSE c \in ShellCommands : TRUE)

\* Two spoken answers never sound at once (activeAudioProcess).
OnePlays == Spoken!OnePlays

\* An answer is not given both as speech and as text, unless appending it
\* failed.
SaidOnce == Spoken!SaidOnce

\* An answer that could not be made into speech is given as text.
ReadAtLeast == Spoken!ReadAtLeast

\* What was replaced, cached, counted, kept or scheduled is where it is said
\* to be, whoever else wrote meanwhile; and every variable has its type.
NothingLost ==
    /\ TypesOK
    /\ KeptUntilAnswered
    /\ FileRecoverable
    /\ MemoryCachedIsCurrent
    /\ WebCountHolds
    /\ ScheduleOwnZone
    /\ ScheduleSaidIsThere

\* A turn keeps its own limits and what it tells the user, in text, by voice
\* or as an exit code, is told once and is so.
TurnAnswers ==
    /\ LimitStands
    /\ ItemIsOpen
    /\ NeverSilent
    /\ ShellHonestCode
    /\ OnePlays
    /\ SaidOnce
    /\ ReadAtLeast

\* What no step of a tool may do: run what was denied, write unwarned over
\* what changed since it was read, touch another section, serve or evict the
\* wrong page.
StepsKeep ==
    /\ DeniedStays
    /\ FileWarnsWhenChanged
    /\ MemoryFilingTouchesOne
    /\ WebCachedIsFresh
    /\ WebLastUsedStays

\* Confirmations, turns and calls end, and reminders fire.
ToolsEnd ==
    /\ ConfirmEnds
    /\ TurnEnds
    /\ WebCallEnds
    /\ ScheduleShotsFire
    /\ ShellCallEnds
=============================================================================
