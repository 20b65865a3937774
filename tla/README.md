# Formal verification of Monolito V2

Monolito V2 is a personal agent: a daemon (node, one thread) that holds
conversations with its user over a Unix socket (the CLI and its TUI) and over
Telegram, runs a model with tools, and keeps everything it remembers in files.
This directory models its core in TLA+, checks the models with TLC and proves
theorems about them with TLAPS. Paths below are relative to the repository.

## 1. Inventory

For each component: its state, its operations, whom it talks to, what is hard
about it, and what makes it correct.

| component | state | operations | interacts through | hard behaviour | correct when |
|---|---|---|---|---|---|
| **Turn scheduler** `core/runtime/runtime.ts` | `activeSessions`, `pendingUserMessages`, `abortControllers`, `sessionDeliveryContexts`, session state on disk, one consolidation timer | `processMessage`, `processSessionStartup`, `runTurn`, `abortSession`, `/new`, `/stop` | called by the daemon and the Telegram channel, calls the agent loop | calls interleave at every `await`; a turn releases its lock twice; startups await hooks before they look at the lock | no input lost, doubled or stranded; no lock leaked; turns of one session do not overlap; idle means the timer is armed |
| **MemoryAgent** same file | cursor file, failure count, `isMemoryAgentRunning` | `runMemoryConsolidation` | inactivity timer, the main session's lock, the session store | messages that arrive while it runs; backoff; failure between two writes | never beside a turn; never skips or repeats a message |
| **Daemon dispatch** `core/runtime/daemon.ts` | subscribers, `restartInFlight`, `stopInFlight` | one handler per request, post-turn side effects | socket, scheduler flags | flags served by whichever promise resolves next | what a turn requested is served |
| **Daemon ownership** `daemon.ts`, `apps/daemon.ts` | owner file, pid, lock and socket files, intentional-stop flag | `acquireOwnership`, `terminateDuplicateDaemons`, ownership monitor, restart, stop | files shared by processes, signals, systemd | several processes, crashes, stale files | one daemon owns the socket |
| **Update lock** `core/runtime/updateLock.ts` | `run/update.lock` | `acquireUpdateLock`, `release` | file shared by processes | a file seen half-written, stale removal races, release of another's lock | one update at a time |
| **Confirm gate** `runtime.ts` `executeTool`, `core/runtime/permissions.ts`, `channelManager.ts` | `pendingPermissions`, `pendingTelegramPermissions`, sudo mode | ask, answer from TUI or Telegram, 30 s timeout, repair of a failed command | events, callback queries | an answer that races the timeout; two prompts in one chat; a repaired command that is another one | what is dangerous runs with the consent to it; denied stays denied |
| **Telegram poller** `core/channels/telegramPoller.ts` | update offset, state file, processed rows | poll loop, handlers, restart | Telegram Bot API | redelivery, crash between handling and saving the offset, reload inside a handler | no update lost, none handled twice |
| **Streaming and files to Telegram** `telegramStreamDelivery.ts`, `core/tools/domains/telegram.ts` | preview message, debounce timer; the file of what was sent | deltas, flush, finish; send once | Bot API | calls that overlap, are lost or come late; a crash between upload and mark | the final text arrives once; one message per send |
| **Session store** `core/storage/fileStorage.ts`, `core/context/` | meta.json, messages, memory.md, positions | append, reset, compact, summarise, flush, recover | called by everybody, synchronously | a crash between two files; work on rows read before an await | ids unique, order kept, nothing vanishes silently |
| **Memory files** `memory*.ts`, `turnPrepCache.ts` | boot files, sections of memory.md, the cached block | upsert, boot writes, reset, cache | other programs on the same files | a file changes between stat and read | one section changes; the cache is current |
| **Agent loop** `core/runtime/modelAdapter.ts` | messages of the turn, steps, retry counters | model call, tool batches, recovery | providers, `executeTool`, Ralph gate | retries, timeouts, aborts, loops | ends; every tool call has one result |
| **Reply of a turn** `runtime.ts`, `topLevelRalphGate.ts`, `taskItemTimer.ts`, `researchCheckpoint.ts` | tasks, attempts, one timer and one timing context for all sessions, checkpoint | attempts, demands, timers, final text | agent loop, todo tool | the shared timer, a cut turn, tasks of an earlier turn | a limit on every turn; no silent end; evidence kept until an answer |
| **Voice mode and voice input** `runtime.ts`, `globalHotkey.ts`, `core/stt/` | mode of a session, the one player; pressed keys, recorder, container | speak, play; record, deploy, transcribe | child processes, docker, Telegram | processes that end late; deployments that remove each other's container | one voice at a time; microphone only while held |
| **Daemon client, MCP and LSP clients, Grok login** `apps/cli/`, `core/mcp/`, `core/lsp/`, `grokAuth.ts` | pending requests by id, buffers, the cached client, the token file | request, response, exit, reset, refresh | sockets, pipes, HTTP | late, missing or reordered answers; death of the peer; two that start the same | every request settles by its own answer; no stray server |
| **File, web and shell tools** `core/tools/` | read times, history; the page cache; crontab; processes | read, write, edit; fetch, search; schedule; run | file system, network, shell | a file changed between read and write; evictions; two that edit one crontab; an abort while a command's children hold the output | nothing lost that was replaced or scheduled; every call ends |
| **Model and channel settings** `modelConfig.ts`, `modelRegistry.ts`, `modelMenu.ts`, `channelManager.ts`, `media.ts` | profiles, `CONF_SYSTEM`, environment, `CONF_CHANNELS`, voices | menu, bootstrap, list/sync/purge/rename | daemon and every command line write the same files | values read before an await are written back | one active profile; no deletion unconfirmed, but for edits of the assistant |
| **Command line** `apps/cli/session.ts` | composer, busy flag, one prompt, one queued line, menus | Enter, events, wait for a turn | IPC socket | events of others' turns, a lost connection | waits end with their own turn; busy ends |
| **Providers, guards on texts, exposure, rendering, utilities** | none or local | pure transformations | agent loop | edge cases of data | section 8 |

A turn's own computation, the network and the contents of messages are inputs
to these components; what the models follow is who may act when, on which
state, and what is left behind when an actor fails.

## 2. Plan

Order: what every input passes through first, then what decides which process
serves it, then the channels, then what a turn does inside, then what it calls.
All steps below are done, except the last.

| step | modules | models | run |
|---|---|---|---|
| 1 | `SessionTurns` | turn scheduler, `/new`, `/stop`, flags, MemoryAgent's lock, daemon dispatch | `turns_core`, `turns_live` |
| 2 | `UpdateLock` | `acquireUpdateLock`, `runUpdate`, the checkout | `update_lock` |
| 3 | `DaemonOwnership` | start, stop, monitor, restarts of daemon processes | `daemon_race` |
| 4 | `TelegramPoller` | long poll, confirmation, reloads, restarts, the settings menu | `telegram` |
| 5 | `AgentLoop` with `ToolBatchPlanner`, `ProviderMessages` | the iterations of a turn | `agent_loop`, `agent_results` |
| 6 | `SessionStore`, abstract specification `Conversation` | the files of the sessions, crashes between writes, the MemoryAgent's cursor | `session_store`, `store_isolated` |
| 7 | `IpcClient`, `McpClient`, `LspClient`, `GrokAuth`, `TelegramStream`, `TelegramFiles`, `VoiceInput` | clients of other processes and services | `services` |
| 8 | `ToolGate`, `TurnReply`, `FileTools`, `MemoryFiles`, `WebTools`, `Schedule`, `ShellCommand`, `VoiceReply` | what permits a tool, the tools that keep state, what the turn makes of them | `tools` |
| 9 | `Desk`, `ModelSettings`, `ChannelSettings` | the command line and the settings many write | `desk` |
| 10 | proofs | the safety of all steps | |
| next | more proofs | see below | |

Bounds: two or three actors of each kind, one crash, one restart. The project
keeps a dozen runs: small components that share no state are checked together
in a *suite* (section 4), and a violation that section 7 documents keeps its
configuration but not its place among the runs.

Theorems worth proving next: what the refinement of `SessionStore` is left with
when a flush is cut; and, with a prover that knows fairness, the liveness
properties. The modules are written for that: no recursive operators, bounds and
sets as constants, one action per operation.

## 3. Modules and how they correspond to the code

`PROJECT.json` maps every definition to its lines.

**`SessionTurns`** (`MCSessionTurns` adds TLC's symmetry). A *job* is one call
of `processMessage` or `processSessionStartup`; `pc[j]` names the `await` it is
suspended at, and an action is the code from one `await` to the next, since
node runs that without interruption. Submissions (`SubmitBusy`, `SubmitFree`,
`SubmitStartup`) are what the IPC handlers and the Telegram dispatcher call;
`HooksDone*`, `CaptureDone`, `BeginTurn`, `EndTurn`, `ResetSession`, `Resumed`,
`LeaveTurn` and `Close` are the pieces of the handlers. `Release` is
`releaseSessionLock` with all it does synchronously: it deletes the lock, takes
the next queued input and runs that up to its own first `await`. The settled
promise of a call is a state of its own ("settled"), because the caller's
continuation, which serves the stop, reload and restart flags, runs later.
`Quiet` says that node takes timers and sockets only when no callback is ready;
the order among ready callbacks is left open. `StartConsolidation` and
`EndConsolidation` are the MemoryAgent, with one slot per overlapping run.

**`UpdateLock`** (`MCUpdateLock`). A *call* is one `/update`. The acquisition
is modelled system call by system call (`Create`, `Write`, `Read`, `Unlink`),
because processes interleave there; `runUpdate` command by command (`Fetch`,
`Compare`, `Reset`, `Clean`, `Install`, `Check`, `Release`), each of which may
`Fail`. The checkout is reduced to what the comparisons tell apart: how many
commits of the remote are fetched, contained in HEAD and installed, and what
happened to a local commit. `mistaken` records that an acquisition removed a
lock file other than the one it had read.

**`DaemonOwnership`**. A process goes through `acquireOwnership`,
`terminateDuplicateDaemons` and `start`, one step per system call on the shared
files (`owner`, `sock`, `lockf`) or per signal; `stop()` is one step. The
monitor, signal handlers, self-restarts with their helper, and the graceful
restart are actions of a running daemon. `connect()` to a listening socket
succeeds in the kernel even when the process is busy; `server.close()` removes
the socket path whoever listens there by then; `ps` shows the systemd unit's
relative script path, so that units are not seen as duplicates.

**`TelegramPoller`**. A poller instance `w` follows `sequentialPoll` and
`pollOnce`: `Poll`, `Answer` or `NoAnswer`, then `Begin` and `Finish` (or
`Throw`) for each update. Telegram is `sent` and `confirmed`: it keeps what no
later offset has confirmed. `StopChannels`, `ReloadChannels` and
`ScheduleRestart` are what handlers, turns and the boot do to the pollers:
`stop()` only raises a flag, so the old poller finishes the batch it is in
beside the new one. The settings menu is modelled with its pending input
because its reply reloads the channels from within a handler, and its buttons
restart the daemon from within one.

**`AgentLoop`** with **`ToolBatchPlanner`** and **`ProviderMessages`**. One
attempt of a turn, from `runtime/modelAdapter.ts`. `pc` is where the
generator stands; `messages`, `steps`, `failures` (operationalFailures),
`compactions`, `retries` and `aborted` are its locals and its signal. A message
keeps its role, the calls of an assistant's and the id, tool and outcome of a
result; texts are dropped, so which reply is "malformed", and whether a request
is over the trigger, is open. `ran` and `old` are history: what was executed,
and what of it before the last message of role user.

`RunWave` is one `Promise.all`: the outcomes are chosen together, since nothing
in the loop happens before the last of them. `Collect` is the rest of the
iteration: results in the order of the calls, alerts, the TDD feedback.
`Compact` and `Recover` either keep the messages (trimmed results) or rebuild
them from a stored conversation and the loop's own messages.

`ToolBatchPlanner` is `planToolExecutionWaves`; a path is a sequence of
segments, so that "below" is the prefix order. `ProviderMessages` is what turns
`messages` into the request: merge, conversion and repair, one operator per
function. `WellPaired` says what the Anthropic API accepts.

**`SessionStore`** with **`Conversation`** (`MCSessionStore`). The store is
synchronous, but each file it writes is a write of its own. A handler puts its
writes in `pending`, `Write` carries out the first, and `Crash` may come between
two of them. What takes time keeps a snapshot of the rows it has read: `work`
for a summary and a flush, `agent` for the MemoryAgent, while other handlers
append, reset and compact. A row is the set of texts it stands for: one for a
message, many for a summary, none for a notice or a marker. `Conversation` is
what one session promises whatever its files: texts are shown in order, and each
is shown, filed in memory.md, or dropped by an operation that says so. The
refinement maps `told` to what was appended to the main session, `shown` to the
rows of messages.jsonl as a reader sees them (`Shown`), `kept` to what the flush
has filed and `dropped` to what it has counted; the property `IsConversation` is
`C!Spec`.

**Clients of other processes and services** (`MCServices`):

* **`IpcClient`**: `DaemonClient` and the daemon's side of its connections. A
  call waits in the client's map by id; the daemon runs one loop for each chunk
  of lines, so answers may be out of order; a connection ends when it likes and
  the client is told of it later.
* **`McpClient`**: the clients of one MCP server name and the map that keeps
  them. Two turns may both find it empty; `/mcp add`, a reset and the exit of a
  server come at any moment. A process that meets an unhandled `error` is down.
* **`LspClient`**: the shared promise of a language server, documents sent once,
  a timer for each request.
* **`GrokAuth`**: loads, refreshes and saves of the token file by several turns
  and logins. A save truncates and then writes; a refresh token is good once.
* **`TelegramStream`**: the preview message of a turn. A call to Telegram is
  made, applied and answered in separate steps, in any order with the others;
  it may be lost, late or refused. `deliverText` is its caller.
* **`TelegramFiles`**: sends of a path, which look it up in a file before an
  upload and mark it afterwards, and a crash in between.
* **`VoiceInput`**: the keys of the hotkey, the recorder, and deployments of the
  one transcription container by several uses.

**Tools, what permits them and what a turn makes of them** (`MCTools`):

* **`ToolGate`**: one Bash call through `executeTool`: decision by modes, rules
  and hooks, the guards, the confirmation with its three copies (pending entry,
  prompt of the terminal, message of the chat), its timer, the run, and the
  repair of a failed command, which is checked anew.
* **`TurnReply`**: the turn around the agent loop: attempts and demands of the
  top-level Ralph loop, the one task timer and timing context of all sessions,
  the task list with fresh or kept ids, the checkpoint, the reply. What the
  history keeps apart is what evidence the user was told is kept (`promised`) and
  which requests carried it (`injected`): the code consumes it after any answer.
* **`VoiceReply`**: the voice mode and the one player process of all sessions. A
  killed player ends later, and the runtime hears of that later still.
* **`FileTools`**: Read, Write and Edit cut at their awaits, the read times, the
  history of what was replaced, and other writers. A Read takes the content at
  one step and notes the time of the file at a later one; `blind` has the
  sessions whose last Read a change passed unseen in between.
* **`MemoryFiles`**: boot files, the sections of memory.md and the cached block
  of the prompt, with other programs writing between a stat and a read.
* **`WebTools`**: fetch and search with redirects, retries and fallbacks, and
  the cache with its limits in entries, bytes and age.
* **`Schedule`**: the crontab, read, changed and installed whole by calls that
  overlap, one-shot reminders, restarts and reboots. A reminder sleeps in a
  detached process: in the control group of the unit when the daemon is the
  unit's, whose restart ends it, or outside of any.
* **`ShellCommand`**: a command's shell, what it leaves behind, timer and abort;
  and, as operators over the classes of its segments, the permission gate
  (`GateBashCommand` and what it calls).

**The command line and the settings** (`MCDesk`):

* **`Desk`**: Enter, the events that set busy, the one prompt, the one queued
  line, the wait for a turn, the menus, the lost connection. `crossed` remembers
  the lines that were sent while another was on its way or queued.
* **`ModelSettings`**: the registry of profiles, `CONF_SYSTEM` and the daemon's
  environment, written by the daemon and by every menu. `SaveEdited` is what the
  assistant's `tool_manage_config` may do to `CONF_MODELS`: its "set" takes any
  path and its "write" any content, and the schema asks for a list of profiles
  only, so that any list may result; `skewed` remembers an ill-formed one.
* **`ChannelSettings`**: `CONF_CHANNELS` with its synchronous writers and those
  that write back after an await, and the voices at the provider.

**The suites** `MCServices`, `MCTools` and `MCDesk` instantiate these modules.
The components of a suite share no state, so a behaviour of the suite is a
behaviour of one of them: the variable `part` names it, `Only(p)` leaves the
variables of the others alone, and their fairness is that of each component's own
`Spec`: combined in `GoesOn` (`GoesOn1`, `GoesOn2`), or stated for each call where the
component states it so. Where components do interact, the part that the interaction is about is
in one module: the runtime's fallback in `TelegramStream`, the chat's buttons in
`ToolGate`, the flush's positions in `SessionStore`.

## 4. Runs

All bounds are constants of the .cfg files. Sizes are distinct states.

| run | instance | properties | states |
|---|---|---|---|
| `turns_core` | 3 calls of messages, startups, `/new` in two sessions; both hooks, two agent slots, one restart | `QueueExact`, `NoStrandedQueue`, `LockHasHolder`: no queued input is lost, doubled or stranded and no lock leaks; `ExclusiveUntilQueued`: turns overlap only in a session where an input had to wait or a startup threw; `StateMatchesTurns`: a running session has a turn (`RunningIsLive`), a turn has its controller (`ControllerLive`), an idle daemon has its timer (`IdleArmed`) | 3.28 M |
| `turns_live` | 2 calls of `/stop`, `/new`, channel reloads and `/update` in two sessions over both channels, fair | `QueuedIsServed`, `AwaitedStopStops`, `RequestsServed`: what awaited turns asked for is served, but for a restart behind a reload of another session | 0.80 M |
| `update_lock` | 3 calls, 2 processes, 1 crash, reused pids, 1 push, a local commit | `ExclusiveUnlessMistaken`, `NoLockLeftBehind`, `WedgedOnlyByRivals`, `CommitsKept`, `RestartsInstalled` | 2.03 M |
| `daemon_race` | 3 processes, one of them the systemd unit's, crashes, restarts, pids reused by other programs | `Converges`, `SettledStays`, `AloneTakesOver` | 0.41 M |
| `telegram` | 2 updates of all kinds, 2 pollers, 1 reload, 1 crash, restarts, fair | `ConfirmedIsHandled`, `InOrder`, `OncePerPoller`, `OneLivePoller`, `Delivered` | 0.14 M |
| `agent_loop` | 3 iterations, a lone `Read`, a lone `Bash`, a `Read` of everything beside a `Write`; 1 compaction, 1 rate limit, 1 overload, an abort | `RequestsFaithful` (types, `RequestsPaired`, `LoneResultsShown`), `StallBounded`, `NoOverlapInWave`, `EffectsReported`, `StopsAsking`, `Ends` | 0.29 M |
| `agent_results` | violation | `ResultsShown`: the second result of a reply does not reach the model | |
| `session_store` | one session, 4 texts, one of them long, 1 flush, summaries, snips, resets and crashes | `RowsSound` (types, `IdsUnique`), `CursorHonest`: the MemoryAgent's cursor counts no row it has not seen; `IsConversation`: the refinement | 1.34 M |
| `store_isolated` | violation, two sessions | `Isolated`: a summary of one session changes the rows of another | |
| `services` | the seven components of `MCServices`: 2 calls or uses, 2 connections or servers, 1 fault each | `AnswersMatch`, `NothingStrays`, `ServicesEnd` | 0.14 M |
| `tools` | the eight components of `MCTools`: 2 calls, 2 sessions or turns, 1 event beside | `Consented`, `NothingLost`, `TurnAnswers`, `StepsKeep`, `ToolsEnd` | 0.39 M |
| `desk` | the three components of `MCDesk`: 3 lines, or 2 and 1 turn of others, 1 prompt, 1 lost connection, 4 of these together; 1 menu beside the daemon, 2 profiles, 1 edit of them by the assistant or 1 await of the menu; 2 calls, 2 voices, 1 setting and 1 restart | `SettingsAndDeskHold`, `DeskGoesOn` | 1.58 M |

The properties of the suites are conjunctions of the properties of their
components; each part is stated in its own module and named again in the suite:

| property | parts |
|---|---|
| `AnswersMatch` | `IpcOwnAnswer` an answer resolves its own request; `IpcParsesAlone` on the only connection ever, no line is lost to the buffer; `LspNeverAhead` no document is queried before it is open; `GrokOwnLogin` a login stores what came with its own state; `StreamFinalOnce`, `StreamDownByFirstPreview`; `FilesSentOnce`, `FilesOneMessageEach`, `FilesSaidSentWasSent` |
| `NothingStrays` | `McpNoStrays`, `McpCurrentConfig` (both without overlapping turns), `LspOneServer`, `GrokTornOnlyWhileWritten`, `GrokRefreshable` (unless refreshes overlapped), `MicOnlyWhileHeld`, `VoiceNoHalfContainer` |
| `ServicesEnd` | `IpcSettles`, `McpAnswered`, `LspEnds`, `StreamFinishEnds`, `VoiceUseEnds` |
| `Consented` | what is dangerous and has run had the consent to that very command |
| `NothingLost` | `KeptUntilAnswered` evidence that the user was told is kept stays until a later turn of the session answers or gives up: cut, failed and silent turns, stops and other sessions take none; `FileRecoverable` what was replaced is in the history; `MemoryCachedIsCurrent`, `WebCountHolds`, `ScheduleOwnZone`, `ScheduleSaidIsThere` |
| `TurnAnswers` | `LimitStands` each turn has its own limit unless turns overlapped; `ItemIsOpen`, `NeverSilent`, `ShellHonestCode`, `OnePlays`, `SaidOnce`, `ReadAtLeast` |
| `StepsKeep` | `DeniedStays`, `FileWarnsWhenChanged` a write over what changed since the session's last Read is reported, unless the change came while that Read was under way; `MemoryFilingTouchesOne`, `WebCachedIsFresh`, `WebLastUsedStays` |
| `ToolsEnd` | `ConfirmEnds`, `TurnEnds`, `WebCallEnds`, `ScheduleShotsFire` a reminder fires, unless the machine boots or the unit it sleeps in restarts; `ShellCallEnds` |
| `SettingsAndDeskHold` | `OneActive` one active profile and every id once, as long as no edit of the assistant was itself ill-formed; `ProviderMatches`; `DefaultIsCloned`, `ClonedExist` (default voice and map agree with the provider, where every answer arrived); `PutBackByTheStale` only known writers put an old setting back; `WaitsForOwn` a wait ends well only after the turn of its own line, without turns of others and for a line that was not sent while another was on its way; `NothingStreams` |
| `DeskGoesOn` | `OnlyConfirmedGo` a profile goes only when the user of that very process has just confirmed its deletion, or by an edit of the assistant, unless the save overwrites a registry that changed since it was read; `BusyEnds` |

Beside the listed mutants, every part has an operator marked *Seeded bug* in its
module, the form of a definition that breaks it.

Why these bounds are enough to mean something: overlap of turns needs a running
one, a queued one and a third that meets the flushed one, hence three calls.
The startup that `/new` runs is a call of its own; the first four invariants also
hold with a fourth call in one session, without hooks and crashes (1.73 M
states), and `turns_live` holds for calls of all six kinds in one session
(0.41 M). The second session is what the requests of a turn need, which are
flags of the whole daemon. Removing a
lock by mistake needs a holder and two that read; a third call is also the rival
that `WedgedOnlyByRivals` counts. Three processes are a daemon and two that race
to replace it. Two updates give a batch with a rest to skip, and two pollers an
old one beside its successor. The stall guard acts on the third identical call,
so three iterations show it; a lone call and a reply of two waves are the two
ways results meet the repair of a request. Four texts give a summary with a head,
a middle and a tail. In the suites the hazards are races of two: two calls that
read the same file, crontab, token or map, one lost answer, one event of
somebody else; a third language query meets a server that two share, and three
pages meet a cache of two. A third line shows what two waits that cross do to
each other. `Sessions` of the store run is one session, since the
operations that touch several are what `store_isolated` shows.

`CHECK_DEADLOCK FALSE` stands where bounded calls, updates or crashes run out
and the modelled system has nothing left to do. Symmetry is used only in runs
without temporal properties. The inductive invariants of section 6 were also
checked by TLC as invariants before they were proved.

Some properties are deliberately weaker than one might wish. "At most one daemon
is running" is not an invariant: a three-way race of claims can let two
through, and the ownership monitor ends one of them, so `Converges` is what
holds. An update may be handled twice, by the poller that was stopped in
the middle of a batch and by its successor, or after a crash: delivery is at
least once, and `OncePerPoller` and `InOrder` are what holds. And where the code
has a race, the property says what is left without it, by a variable that
remembers the race (`overlap`, `raced`, `overlapped`, `blind`, `doubted`, `crossed`), or that
remembers an input which is itself wrong (`skewed`);
section 7 lists what happens with it.

## 5. Fairness

* `SessionTurns`: a started step of a call is taken. Turns end
  (`TURN_ABSOLUTE_MAX_MS`, and 200 s for the MemoryAgent), hooks end (15 s),
  node serves every ready callback, timers fire, a daemon told to stop exits.
  Nothing forces a user, a request of a turn, a crash or a restart. The
  liveness run has no hooks: hooks that take longer than the inactivity timer
  could make a queued startup meet the MemoryAgent again and again, which is a
  matter of durations.
* `DaemonOwnership`: a process takes its next step, a restart helper launches.
* `TelegramPoller`: weak fairness of the loop, the boot and the exit; strong
  fairness of `Answer` and `Finish`, that is, of calls to Telegram that are
  retried: the network works again and again. Without it `NoAnswer` for ever
  is a behaviour of the world. `Delivered` promises nothing while the daemon
  is not up or Telegram is switched off.
* `AgentLoop`: the loop takes its next step. Requests and tools answer or fail
  (the HTTP client and the tools have timeouts); the signal need not fire.
* `UpdateLock` is checked for safety only.
* In `MCServices` and `MCTools` a liveness property of interchangeable calls is
  checked of one of them.
* `IpcClient` (`Serves`): the daemon reads, handles and answers, and node
  delivers what has arrived; nothing makes a peer stay. `McpClient` (`Answers`):
  a server that runs answers, for the code has no timer of its own there, and
  the exit of a process is heard of. `LspClient` (`Timers`): timers fire and the
  exit of the server is heard of; no server has to answer.
* `TelegramStream` (`CallsEnd`, `GoesOn`): a request to Telegram ends (by its answer or
  by an error of the network) and its caller goes on; deltas and the end of the
  turn are not forced. `VoiceInput` (`Goes`, for each use): calls
  of docker and of the service return, as their timeouts make them.
* `ToolGate` (`TimersFire`): the 30 s of a confirmation; nothing else, so
  `ConfirmEnds` needs no user. `TurnReply` (some turn `GoesOn`): attempts end, since
  the agent loop does (`Ends`), and one of the turns goes on: so the property is that
  turns do not try for ever, not that each is served in time. `WebTools` (`Goes`, for each call): requests have
  timeouts. `Schedule` (`Fires`): a detached `sleep` ends;
  a restart of the unit it sleeps in, or of the machine, ends it before. `ShellCommand`
  (`Rings`, `Closes`): timers ring, and a shell that has ended closes what only
  it holds; no command is assumed to end.
* `Desk` (`Progress`): the daemon's turns and requests end and their events
  arrive while the connection lasts; users, menus and others are not forced.
* `SessionStore`, `GrokAuth`, `TelegramFiles`, `FileTools`, `MemoryFiles`,
  `VoiceReply`, `ModelSettings` and `ChannelSettings` are checked for safety
  only.

## 6. Proofs

For every value of the constants, under the assumptions named in the modules
(finite bounds are naturals, `None` is not a member of the sets). Only
`WedgedCorrect`, which counts calls, assumes that they are finitely many.

* `SessionTurns_proofs`: `TypeCorrect`; `LocksAndQueues`, the inductive
  invariant `LockInv`, of which `QueueCorrect` (`QueueExact`), `NobodyStranded`
  (`NoStrandedQueue`) and `NoLeakedLock` (`LockHasHolder`) are parts. They need
  each other: a release starts the head of a queue, so that head must be a
  waiting input of that very session (`QueueExact`); a lock handed over by
  `/new` must find its caller (`CallerOK`); a flush into a startup leaves a
  queue without a lock, which is why `NoStrandedQueue` speaks of startups in
  their hooks. `ReleaseLocks` proves the effect of `releaseSessionLock` once,
  for every place that calls it. `KeptCorrect` (`StateMatchesTurns`) stands on
  `KeptInv`: a state of "running" names who will set it idle, a controller
  belongs to its turn, and the inactivity timer is armed by the release itself,
  not by the continuation of the caller, so that nothing between the two can
  leave an idle session without it. `TurnsExclude` (`ExclusiveUntilQueued`)
  follows from two facts about an undisturbed session: of those who hold its
  lock at most one may still begin a turn, and beside that one nobody is left who
  releases a second time; hooks that are not configured end with the step that
  calls them, and the MemoryAgent takes the lock only where nobody has it.
  `RequestsAreServed` (`RequestsServed`) stands on `AskedInv`: where every input
  was awaited one call at a time is engaged in a session, and behind each request
  there is a call that is going to serve it when it resumes; only a restart may
  have been passed over, by the reload of another session.
* `Installation_proofs`, about the two protocols in which processes of one
  installation share files. `UpdateLock`: `TypeCorrect`; `ExclusionCorrect`
  (`ExclusiveUnlessMistaken`), from `IInv`, which says who owns the file at the
  lock's path, which calls are past their age, and that a call only judges a
  lock it has read while its creator cannot have grown old; `NothingLeftBehind`
  (`NoLockLeftBehind`); `CommitsCorrect` (`CommitsKept`, which does not need
  exclusion); `InstalledCorrect` (`RestartsInstalled`, which does: it uses
  `ExclusionCorrect`); `WedgedCorrect` (`WedgedOnlyByRivals`): each failed
  attempt has met one file, and the file of the second attempt was made after the
  first was unlinked, by another call.

  `DaemonOwnership`: `DaemonTypeCorrect`; `SettledCorrect` (`SettledStays`), an
  action property that follows from the types alone, step by step: a process
  that sees the claim of a live daemon with a live socket has no step that
  harms it. The module prefixes its `Init`, `Next` and `Spec`, since these proofs
  extend both.
* `TelegramPoller_proofs`: `TypeCorrect`; `NoneLost` (`ConfirmedIsHandled`),
  `NoneOvertaken` (`InOrder`) and `NoneRepeated` (`OncePerPoller`) from `Safe`:
  all that lies below what Telegram confirmed, below a poller's offset and
  below its place in a batch is handled and marked (`SettledInv`), and a poller
  never goes back behind its offset (`ForwardInv`). A poller is in a batch
  whose answer may be older than what is confirmed by now; this is why the
  place in the batch needs a clause of its own. `OneLive` (`OneLivePoller`) is
  inductive by itself.

* `AgentLoop_proofs`: `AbortStopsAsking` (`StopsAsking`), by cases on the steps:
  only the head of the retry loop sends, and it looks at the signal first;
  `TurnsBounded`: the iterations, the compactions and the retries of a request
  stay within their limits, which is the argument for `Ends` without the
  fairness. It needs to know where the loop may stand after its last iteration.
  `LoopInvariant` is the inductive invariant of the others: `Bounded`; types and
  the shape of the conversation (`LoopInv`: an assistant's calls are followed by
  their results, their ids belong to iterations that were, and only while tools
  run do calls wait); what ran is among the steps that are reported (`Reported`);
  and what ran since the last message of role user was asked for behind it, at
  most twice with one input (`Stall`). They need each other: a result is paired
  with its call by an id, which is its own because the ids of a reply are those
  of its iteration. `EffectsAlwaysReported`
  (`EffectsReported`), `StallAlwaysBounded` (`StallBounded`) and
  `RequestsAlwaysFaithful` (`RequestsFaithful`) follow from it, for any calls,
  paths and limits; `WavesNeverOverlap` (`NoOverlapInWave`) says what the planner
  returns for every list of calls. What the planner's and the conversions'
  recursive functions compute is proved by a least counterexample, a set of
  naturals (`WFMin` of the library), which needs no induction over an operator.

* `SessionStore_proofs`: `RowsSoundHolds` (`RowsSound`) from `Sound`: the rows of
  a session have ids of their own, below the next one. What a handler still has
  to write is part of the invariant, for a crash may come between any two writes:
  it has one of nine shapes (`PendingSound`), and each write turns one shape into
  the next. A message, for instance, takes its id in meta.json first, so until its
  line is written the id is above every row and below the next one.
  `CursorHonestHolds` (`CursorHonest`) from `Honest`: unless Main's rows were
  rewritten, all that stands in its file up to the cursor was heard by the
  MemoryAgent, all up to the last row of its batch was heard or is in the batch,
  and a line still to be written lies beyond both. The recursive function that
  both meet (`Without`) is proved about with a least counterexample.

  `IsConversationHolds` (`IsConversation`): the detailed store implements the
  abstract `Conversation`, under two hypotheses. `Alone` is the instance the run
  checks: one session, and no `/clear` or `/compact` while a summary is being made;
  without it a summary deletes rows of others (`store_isolated`) or rows that it
  has not read. `WholeFlush` says that a flush begins with the first row of its
  zone and goes to the last; it is about the behaviour, not the constants, since
  the position of the flush is durable and its batches are cut: the second flush of
  a session begins where the first ended, in another zone, and may delete what was
  never filed (section 7). The run has it because its bounds allow one flush and
  its batch is longer than any zone. For any number of texts, rows, messages and
  crashes, then, each write is one step of the conversation: a line is a message or
  a note, a shortened or counted file a stutter or `Count`, a fold `Summarise` or
  `Refer`, a deletion `Prune`, a section `File`, a line that a crash cuts off
  `SayInVain`. The invariant is `Kept`, of four parts: the writes to come are news,
  or stand for the rows they replace, or delete what the others, memory.md or the
  log hold (`KeptWrites`); a section whose number a row bears was filed of that row
  (`KeptFiles`: the numbers start again after a reset, but what the old sections say
  is no text of the new conversation); the zone a turn works on stands where it was
  read (`KeptZone`); and a flush has filed or given up what it went over
  (`KeptFlush`). `NothingVanishesHolds` draws the conclusion the abstract
  specification is for: every text told is shown, filed or let go.
* `MCServices_proofs` states its theorems for the suite's own `Spec`. A step of the
  suite is one of a component and leaves the variables of the others as they are
  (`IpcSteps`, `McpSteps` and so on), so that the invariant of each component is
  inductive for the suite. There is one theorem per component, that its invariant
  holds, and a lemma that the invariant gives what the run checks (`IpcMeans` and
  so on); `AnswersMatchHolds` (`AnswersMatch`) and `NothingStraysHolds`
  (`NothingStrays`) put them together. The constants are any sets and bounds that
  four assumptions allow: an actor's name is not that of another kind of actor
  (`GrokAssumption`, `ClientAssumption`, `ChatAssumption`, `VoiceAssumption`), bounds
  are naturals, a login has at least one token and a use at least one model.

  `IpcHolds`: what is sent back on a connection answers what the daemon has
  handled, whichever of its loops comes first; and on the only connection ever
  made the part in the buffer is the beginning of the line that comes next, or of
  one that the end of the connection cut off (`PartIsNext`).
  `McpHolds`: until something overlaps one turn at most initializes, and no client
  is in the map by then (`Alone`); a request is pending at the client its turn uses
  (`Pends`). `LspHolds`: the server that starts is the shared one, and one that is
  not shared any more has had a query rejected (`OneStarts`); what a client has
  sent was on disk when the query that waits was made (`Sent`).
  `GrokHolds`: the authorization server gives each version once, so whoever got it
  is the only one to have it until it is in the file (`GivenOnce`); as long as
  nobody died the last version is in the file or with who will save it (`Alive`).
  `StreamHolds`: without a race one call is under way (`OneAtATime`), and only the
  call that makes the preview can be the first; then `Story` follows the chat
  through a calm delivery: nothing, or one preview whose id is on its way to the
  stream or known to it (`RunningShows`); the final text in its place, in each
  state of the call that puts it there (`FinishShows`); the final text alone
  (`DoneShows`). A call that starts beside another, or that fails, ends the story,
  not `CallsInv`, which says whom an answer may still surprise and why only a
  preview's failure ends the daemon.
  `FilesHolds`: a path is marked exactly for the calls that reported to have sent
  it, as far as no torn file forgot it (`Marked`), and the log has one entry for
  each photo (`LoggedOnce`). `VoiceHolds`: the pressed keys are those held unless
  `xinput` missed one (`Microphone`), and a container that never answered belongs to a
  deployment that will remove it or see it answer (`Owned`).
* `MCTools_proofs` states its theorems for the suite's own `Spec`. A step of the
  suite is one of a component and leaves the variables of the others as they are
  (`GateSteps`, `FileSteps`, `WebSteps` and so on), so that the invariant
  of each component is inductive for the suite.

  The gate: `ConsentedHolds` (`Consented`) and `DeniedStaysHolds` (`DeniedStays`),
  for any commands, rules, hooks and modes. `GateInv` adds that a call that still
  carries a consent has not run, and that a repaired command stands on another
  ground than the one it replaces: without the second a repair could inherit a
  consent.

  The turns: `TurnAnswersHolds` (`TurnAnswers`), from `LimitStandsHolds`,
  `ItemIsOpenHolds` and `NeverSilentHolds`, the theorem of Bash and those of the
  voice mode; and `KeptUntilAnsweredHolds` (`KeptUntilAnswered` of `NothingLost`). There is
  one timer for all sessions, so what `TurnInv` needs is where it is whose: turns
  that run together are of two sessions and both noted as overlapped, what is
  current is no agent's, and a turn that nobody ran beside is current itself
  (`TurnsApart`). A list that is advanced, promoted, seeded or finalized keeps
  every task of the model as it was (`Follows`), so the item a timer counts for
  stays in progress until a TodoWrite, and the turn is then unsynced
  until the timer has seen the new list. What a session was promised stands in its
  checkpoint, which is not consumed and holds evidence of its own session only
  (`KeptInv`): a merge keeps what was there, and only the step in which a turn of
  that session answers or gives up consumes it, and the promises with it.

  What tools keep: `NothingLostHolds` (`NothingLost`), from `KeptUntilAnsweredHolds`
  and one theorem per tool, with the types of all eight components.
  `FileRecoverableHolds`: every content of the file is one of `Contents`, and an
  edit that found what it had read has put that in the history before it writes.
  `MemoryCachedIsCurrentHolds`: a write takes a new time, so the cached block, or a
  stat whose block is not built yet, with the time of memory.md can only be of the
  memory it has. `WebCountIsKept`: the cache holds a page once (`PagesOnce`), for
  otherwise `evictKey` would take one size off and drop two entries; what `Sift`,
  which stands for the loops over the map, leaves of a cache and how many bytes
  that is follows by induction over its entries (`SiftSound`, `WithoutSmaller`).
  `ScheduleOwnZoneHolds` and `ScheduleSaidIsThereHolds`: every crontab that is
  installed, and every one a call has read and still holds, keeps each zone right
  above its own job and each job once (`TabSound`); removing the n-th job cuts one
  or two lines that belong together (`Cut`), and the lines that stay move together.

  What a step may not do: `StepsKeepHolds` (`StepsKeep`), from `DeniedStaysHolds`
  and four more. `FileWarnsWhenChangedHolds`: what a session has noted of the
  file's time is never ahead of the file, and is behind it as soon as the file was
  changed since, unless that change came between the content and the time of the
  session's last Read (`FileRead`, `FileSeen`). `WebCachedIsFreshHolds` and `WebLastUsedStaysHolds`:
  no entry expires later than its time to live from now, and the page used last
  is the last entry (`WebOrder`), so that what is evicted in front of it leaves it
  and its successor, in a cache that has room for two entries.
  `MemoryFilingTouchesOneHolds`: the sections of a title after a section was
  replaced, dropped or appended (`BodiesOfSame`, `BodiesAppend`), again by a least
  counterexample.

  Bash: `ShellHonestCodeHolds` (`ShellHonestCode`): a result of code zero is that of a
  shell that ended so, whichever of timer, abort and exit came first.

  The voice mode: `OnePlaysHolds`, `SaidOnceHolds`, `ReadAtLeastHolds`
  (`OnePlays`, `SaidOnce`, `ReadAtLeast`), for any sessions: what plays is the
  active player, although it ends later than it is killed, and how far an answer
  was given is where its turn stands.

* `MCDesk_proofs` does the same for `MCDesk`: each component has an inductive
  invariant (`ModelHolds`, `DeskHolds`, `ChannelsHolds`) and a lemma that it gives
  what the run checks; `SettingsAndDeskHolds` (`SettingsAndDeskHold`) puts them
  together. It assumes that the daemon is none of the menus and that bounds are
  naturals.

  The registry (`ModelInv`): whatever list of profiles the file, or a process that
  has yet to write, holds is `Fit`: of profiles that were given out, and `Good`, each
  id once and one of them active, unless an edit was ill-formed (`skewed`). Every
  change of the source keeps both of the list it was given, so it does not matter
  whose list is overwritten; a well-formed edit is good whatever it replaces.
  `EnvInv` follows the environment, and what a process is about to delete is what its
  own user confirmed (`OpsInv`). `OnlyConfirmedGoHolds` is a fact of each step: of a
  list that is still the one it read, a save keeps every id but a confirmed one.

  The command line (`DeskInv`): every line has one place, typed, queued, sent or in
  the daemon's queue (`Placed`), and a wait that crossed no other belongs to the only
  line on its way, to the head of the queue, or to the turn that runs (`OwnTurn`).
  Without `crossed` this is not inductive, and the property was false: an earlier
  form of it held only because the run allowed two lines (section 7).

  Channels and voices (`ChannelsInv`): until a writer comes while an operation
  awaits, one operation is on its way, what it read is what there is, and what the
  provider answered still holds (`Overlapped`). The default is among the voices of
  every configuration, also of those an operation still holds (`Sound`), so a stale
  write cannot separate them. A voice of the map that the provider does not have is
  one whose deletion was answered to an operation that has still to save it, or got
  lost.

Only model-checked: everything under fairness (`QueuedIsServed`,
`AwaitedStopStops`, `Converges`, `AloneTakesOver`,
`Delivered`, `Ends`, `ServicesEnd`, `ToolsEnd`, and `BusyEnds` of `DeskGoesOn`),
which is out of the prover's reach. Every safety property of the passing runs is
the statement of a theorem. What the violation runs refute is of course not proved.

## 7. Where the code and its texts disagree

Two runs show a violation:

* `agent_results`: `buildAnthropicMessages` gives every tool result a user
  message of its own and `ensureToolResultPairing` looks at the first of them
  only: of a reply with several calls the other results are replaced by
  "[Tool result missing due to internal error]" and dropped. `LoneResultsShown`
  is what holds.
* `store_isolated`: `smartCompactSession` rewrites and deletes rows without
  naming the session (`smartCompactor.ts:194`, `:198`), so that rows of other
  sessions with the same ids change or go.

The formulas below do not hold either. They are defined at the end of their
modules with what the repository says, and TLC gives the counterexample when
they are checked; three keep a configuration for it.

| formula | what happens |
|---|---|
| `SessionTurns`, `StopTakesEffect` (`TurnsStop.cfg`) | a `/stop` sent over Telegram, or one that was queued, is answered and has no effect: only an IPC handler that awaits its turn looks at the flag |
| `UpdateLock`, `Exclusive` (`UpdateExclusive.cfg`) | the lock file exists before its content is written: a second process takes it for corrupt and removes it |
| `TelegramPoller`, `OneRestart` (`TelegramRestart.cfg`) | Clear Chats and On/Off stop the poller before the press is confirmed; the next daemon gets it again and restarts again |
| `DaemonOwnership`, `HandsOver` | the successor of a graceful restart finds the socket of its parent alive and exits; and a daemon with the pid of its crashed predecessor, as in a container, kills itself |
| `ToolGate`, `TellsTheTruth` | a confirmation that timed out stays in `pendingPermissions`: a late Allow is told that the agent goes on |
| `TurnReply`, `DoneByThisTurn` | completed tasks of an earlier turn make a failed one answer that all is done |
| `ShellCommand`, `DeniedIsDenied` | the "ask" of a chain of `cd` and `git`, and the class of read-only commands, come before the rules that deny; and "ask" runs |
| `ShellCommand`, `TimeoutBounds`, `AbortIsHarmless` | the timer kills the shell only and waits for the open output; output after an abort is written to a closed log, whose error nobody handles |
| `WebTools`, `CrossHostBlocked` | a redirect to another host that was blocked falls back to a fetch, or `curl -L`, that follows it, and the page is cached under the first address |
| `FileTools`, `ReadWhole` | a "whole" read ends after 8 KB |
| `MemoryFiles`, `BlockAuthoritative` | the cache looks for the files under the working directory: where MONOLITO_ROOT is another, the block in the prompt is an old one, also after a reset |
| `TurnReply`, `KeptUntilSynthesized` | "La evidencia quedó guardada" (`researchCheckpoint.ts:303`, `:317`): any later answer consumes the evidence (`runtime.ts:2245`), though it was about something else and no request carried it |
| `FileTools`, `WarnsWhenNotAsRead` | the time of a file is noted after the content was awaited (`read.ts:156`, `:184`): a change in between is part of neither the content nor the warning that `file-state.ts:101` promises |
| `Schedule`, `ShotsFireAlways` | the installed unit sets no `KillMode` (`systemd.ts:57`): a restart of the service ends the sleeping reminders of its control group without a word |
| `ModelSettings`, `OneActiveAlways`, `OnlyConfirmedGoAlways` | `tool_manage_config` sets any path of `CONF_MODELS` (`tools/domains/config.ts:209`) under a schema that asks for a list only (`internal.ts:88`): two active profiles or none, and profiles that go without a question |
| `VoiceReply`, `HeardOrRead` | the result of `TelegramSendVoice` is ignored: an answer may be neither heard nor read |
| `VoiceInput`, `FallbackStays` | a fallback model that answers is removed by the next use and deployed again |
| `Desk`, `WaitsForOwn` without `\ crossed` | a wait does not ask whose turn it saw: of two lines that are sent one right after the other, the second resolves with the turn of the first |
| `Desk`, `QueuedIsKept` | a second queued line silently replaces the first, and a queued line is sent only after a line of one's own |
| `ModelSettings`, `BootstrapsOnce` | every start overwrites `CONF_SYSTEM` with the environment file although a profile exists |
| `ChannelSettings`, `SettingsStay` | list, sync, purge, rename and `/channels token` write back what they read before an await; chat ids typed to a bot write back its old settings |

Met while modelling, visible in the models or next to what they abstract:

Turns and daemon.

* A turn releases its lock twice, and the second release (`runtime.ts:1557`)
  takes the lock of the turn that the first one started from the queue. The
  MemoryAgent, meant for an idle user, may start beside it. It takes the lock
  and appends before its `try`: an append that throws keeps the lock.
* A caller serves one of the requests it finds, a reload before a restart
  (`daemon.ts:266`, `:577`, `channelManager.ts:170`): the restart of an `/update`
  in one session stays unserved when a turn of another asked for channel reloads
  meanwhile, until some later call ends.
* One inactivity timer is cancelled by messages of every session and re-armed
  by the main one only.
* A CLI message that is only queued erases the Telegram delivery context of the
  running turn (`runtime.ts:1482`). Another session may start an update between
  a requested restart and the restart (`runtime.ts:3593`).
* `/update` drops uncommitted edits (`git reset --hard`, `git clean -fd`), while
  README.md:166 and docs/troubleshooting.md:347 speak of a stash. After an update
  that failed between its reset and its installation the next one finds HEAD at
  origin/main and has nothing to do. The fd of the lock is never closed.
* The pid of a stale claim that belongs to another program by now is sent
  SIGKILL (`daemon.ts:161`). The restart helper's rollback reads a state that
  nothing writes. `logger.ts` calls `require` in an ES module: logs never rotate.
* The reply to Set Chats is saved with the settings captured when the poller
  started; a reply that was not confirmed by then comes again and reaches the
  model as an ordinary message.

Agent loop and reply.

* The planner asks whether a call may run in parallel only of the calls that
  join a wave: after a `Bash` that opens one, a `Read` joins it
  (`toolBatchPlanner.ts:79`). `./a` and `a` do not overlap for it. After an abort
  the waves of the reply that are left still run.
* The stall guard counts back to a "usuario real" (`modelAdapter.ts:1760`), but
  the loop's own feedback has the role of a user and starts the count again.
* The alert about an operational tool stands between the results of one reply,
  which the OpenAI protocol rejects. The TDD finalization guard acts only after
  a compaction; the same-error nudge compares a tool's name with an error kind;
  auto-delivery expects the path inside the evidence tags. A context recovery
  costs an iteration and holds the assistant's earlier messages twice.
* The rules of the Ralph gate look at the steps of the last attempt only.
  `hasSideEffects` counts failed calls. TodoWrite gives every item a new id, so
  that a committed item is never recognised. One task timer serves all sessions.
  The text of a turn that timed out promises evidence that may not be kept; in
  voice mode the blocked reply is what is spoken.

Store and memory.

* The position of the incremental flush is durable and its batches are cut: what
  a summary deletes may never have been filed, and the sink swallows errors. The
  MemoryAgent's cursor survives `/new`. A torn line swallows the row after it.
* memory.md without text before its first section is written with that section
  twice. A write of `BOOT_MEMORY` passes the hard limit.
* An edit may be lost between two sessions, a file of one's own counts as
  changed, and its time is taken after it was read; nothing calls
  `restoreFromHistory`. Session names may collide in `safePath`.

Clients and services.

* The close of a connection rejects none of the requests that wait on it, its
  buffer goes on to the next, and a late close forgets the new socket.
* The clients of MCP servers have no handler of `error`: the daemon ends. A
  client whose server has exited stays in the map; two turns that start one
  leave one behind. Documents are never sent again to a language server.
* Token files are written in place and without a lock; two refreshes spend one
  refresh token. The listener of a login has no handler for a port in use.
* A first preview that Telegram refuses is an unhandled rejection: the daemon
  ends. "message is not modified" makes the final text arrive twice; a text above
  4096 characters without a preview may be lost. What was sent is remembered by
  path, not by chat; a torn file forgets everything.
* Pressed keys survive a restart of `xinput`; uses of the transcriber remove
  each other's container; a transcription that throws is only logged.

Gates, tools, settings.

* "Save always" writes a rule that never matches, nor do the default ones; a
  hook that allows skips the guards; the sudo mode lifts the guard on what is
  destructive for every session; sub-agents wait 30 s where guards.md:414 says
  they are denied at once; an abort leaves the confirmation pending.
* A fetch inside a turn ignores its `timeoutMs`, error pages are cached, image
  searches share one 15 s signal, and a pasted word of 20 to 64 characters
  becomes a Brave key. The policy of the shell gate is never a string, so that
  rules are never applied. The crontab is read and written without a lock; a
  position is resolved against the crontab of the moment; one-shot reminders are
  not listed, not removable and end with a reboot.
* Saved model settings drop `MONOLITO_AUTO_ACK`; `/model set` says that it is
  applied while the active profile goes on; a menu picks by position in a
  registry that others change; its late result opens a menu that was closed.
  The text of the Telegram switch says the opposite; a rename whose answer is
  lost keeps a deleted voice.
* A connection lost during a submission is an unhandled rejection of the command
  line, and one lost during somebody else's turn leaves it busy; the error text
  says 90 s where the timer has 180.

## 8. Not modelled, and why

`PROJECT.json` lists every component with its status and its note. Wholly left
out are:

* the HTTP exchange with the providers and the parsing of their replies, the
  conversions for the OpenAI and Ollama protocols, tool exposure, rendering and
  the terminal's editing: I/O, layout, or lists computed from words;
* the guards on the assistant's text: they classify natural language by regular
  expressions and prompts and have no state;
* shell parsing and the patterns of the validators: `ShellCommand` and
  `ToolGate` take any class of a command that these could find;
* tools that keep no state (weather, images, screenshots, media conversion), and
  what `tool_manage_config` writes into settings other than the models and the
  fields of the channels that `ChannelSettings` names: an edit replaces the value
  of a path, or the content, of one JSON file;
* utilities, the installation and maintenance scripts.

Within the modelled components: what a model or a person answers is any of their
answers; writes to storage that fail with an error, and locks whose other system
calls fail, are left out, where crashes between writes are not; times are not
measured, only the order in which they pass is kept (an update ends well before
its lock is 30 minutes old, a start before the 90 seconds of a graceful restart);
pids are not given again while somebody is looking at them; a file that is
written again has another time of change (`FileTools`, `MemoryFiles`), where two
writes within the clock's granularity could share one; a checkpoint is read before
its 24 hours have passed. The shortest texts of an interrupted turn are one reply
(`SaidWithoutText`). Of the session store
the worklog, events, tasks, sources and other small JSON files, which are read
and replaced whole; of context management the shortening of tool results in
memory and the token estimates; of MCP the translation of tool lists and the
policy cache; of the hotkey the screenshot; of the file tools Glob, Grep, images
and PDFs; of the web tools the conversion of pages; of the command line editing,
history, completion and the doctor commands; of media the generation of speech
and images: these have no state that the properties are about.
