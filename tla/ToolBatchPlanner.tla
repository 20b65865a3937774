-------------------------- MODULE ToolBatchPlanner --------------------------
(***************************************************************************)
(* How the tool calls of one reply are split into waves                    *)
(* (runtime/toolBatchPlanner.ts): the waves run one after the other, the   *)
(* calls of a wave run at the same time.                                   *)
(*                                                                         *)
(* A call is a record with an act, and an act names a tool and the path of *)
(* its input as the sequence of its segments; "." is the empty sequence.   *)
(* The path is compared as it was written: "./a" and "a" are different.    *)
(***************************************************************************)
EXTENDS Naturals, Sequences, SequencesExt

NeverParallel == {"Bash", "Shell", "Todo", "Telegram", "TelegramGet"}

PathScoped == {"Read", "Write", "Edit", "MultiEdit", "Glob", "Grep"}

PathScopedWrites == {"Write", "Edit", "MultiEdit"}

\* The tools of the registry whose concurrencySafe is true, those that are
\* never parallel aside; SttService decides by its input and is left out.
ConcurrencySafe ==
  {"Read", "Glob", "Grep", "Web", "WebFetch", "WebSearch", "ImageSearch",
   "VisionAnalyze", "VideoAnalyze", "GenerateImage", "SearchHistory",
   "SessionForensics", "GetSystemStatus", "search_tools", "LspQuery", "Mcp",
   "McpInvokeTool", "ListMcpResourcesTool", "ReadMcpResourceTool",
   "DownloadFile", "TelegramSend", "TelegramSendAudio", "TelegramSendVoice",
   "TelegramSendPhoto", "TelegramSendDocument", "TelegramGetFile",
   "TelegramGetRecentPhotos"}

ScopePaths(act) == IF act.tool \in PathScoped THEN {act.path} ELSE {}

PathsOverlap(p, q) == IsPrefix(p, q) \/ IsPrefix(q, p)

CanRunInParallelWave(act, reserved) ==
  /\ act.tool \notin NeverParallel
  /\ act.tool \in ConcurrencySafe \cup PathScopedWrites
  /\ \A p \in ScopePaths(act), q \in reserved : ~ PathsOverlap(p, q)

\* Seeded bug: only the paths of the writes are reserved.
ReservedForWrites(wave) ==
  UNION {ScopePaths(wave[k].act) : k \in {k \in DOMAIN wave : wave[k].act.tool \in PathScopedWrites}}

ReservedPaths(wave) == UNION {ScopePaths(wave[k].act) : k \in DOMAIN wave}

\* A call joins the wave before it if it may, else it starts a new one.
PlanToolExecutionWaves(calls) ==
  LET plan[n \in 0 .. Len(calls)] ==
        IF n = 0 THEN <<>>
        ELSE LET waves == plan[n - 1]
                 open  == Len(waves)
             IN  IF waves # <<>> /\ CanRunInParallelWave(calls[n].act, ReservedPaths(waves[open]))
                 THEN [waves EXCEPT ![open] = Append(@, calls[n])]
                 ELSE Append(waves, <<calls[n]>>)
  IN  plan[Len(calls)]
=============================================================================
