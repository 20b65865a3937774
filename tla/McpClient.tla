------------------------------ MODULE McpClient ------------------------------
(***************************************************************************)
(* The clients of one MCP server name: StdioMcpClient, SseMcpClient and the *)
(* map of the runtime that keeps them (ensureMcpClient, resetMcpClient).    *)
(*                                                                         *)
(* A turn that finds no client in the map makes one, waits for the server   *)
(* to answer "initialize" and only then stores it. What two turns do        *)
(* meanwhile, a reset by /mcp add or remove, and a server that exits, all   *)
(* meet a client nobody else knows of. A client whose server has exited     *)
(* stays in the map: what is asked of it is written nowhere.                *)
(***************************************************************************)
EXTENDS Naturals, FiniteSets

CONSTANTS
  Turns,        \* turns that use the server
  MaxClients,   \* bound on the clients made
  MaxConfigs    \* bound on the changes of the server's configuration

Clients == 1..MaxClients
NoClient == 0

VARIABLES
  mcp,        \* of a turn: "idle", "initializing", "asking", "done", "failed"
  uses,       \* the client of a turn
  cached,     \* the client in mcpClients
  config,     \* version of the server's entry in CONF_MCP
  made,       \* of a client: [kind, config], or "none"
  server,     \* of a client: "none", "running", "exited" (the client has not
              \* heard of it), "gone", or "aborted" (a stream that was closed)
  pending,    \* of a client: the turns it has a pending request of
  reached,    \* of a client: the requests its server has received
  daemonUp,   \* no exception has been uncaught
  overlap     \* history: an initialize ran beside another or beside a reset

vars == <<mcp, uses, cached, config, made, server, pending, reached, daemonUp, overlap>>

NotMade == [kind |-> "none", config |-> 0]

Init ==
  /\ mcp = [t \in Turns |-> "idle"]
  /\ uses = [t \in Turns |-> NoClient]
  /\ cached = NoClient
  /\ config = 1
  /\ made = [k \in Clients |-> NotMade]
  /\ server = [k \in Clients |-> "none"]
  /\ pending = [k \in Clients |-> {}]
  /\ reached = [k \in Clients |-> {}]
  /\ daemonUp = TRUE
  /\ overlap = FALSE

Initializing == {t \in Turns : mcp[t] = "initializing"}

-----------------------------------------------------------------------------
(* Requests.                                                               *)

(* The payload is written to the server's stdin. A write to a process that   *)
(* has just exited may fail with an error that nobody handles; one to a       *)
(* closed stdin is lost without an error.                                    *)
Written(k) ==
  daemonUp' \in {TRUE} \cup (IF server'[k] = "exited" THEN {FALSE} ELSE {})

(* It is posted to the stream's endpoint. A POST that is refused, that fails  *)
(* or whose client was closed rejects its own request.                       *)
PostRejected(t) ==
  /\ mcp' = [mcp EXCEPT ![t] = "failed"]
  /\ UNCHANGED <<pending, reached, daemonUp>>

Ask(t, k, state) ==
  /\ uses' = [uses EXCEPT ![t] = k]
  /\ \/ /\ server'[k] # "aborted"
        /\ mcp' = [mcp EXCEPT ![t] = state]
        /\ pending' = [pending EXCEPT ![k] = @ \cup {t}]
        /\ reached' = IF server'[k] = "running" THEN [reached EXCEPT ![k] = @ \cup {t}] ELSE reached
        /\ IF made'[k].kind = "stdio" THEN Written(k) ELSE daemonUp' = TRUE
     \/ made'[k].kind = "sse" /\ PostRejected(t)

Unmade == {k \in Clients : made[k] = NotMade}

(* ensureMcpClient with a client in the map: the tool's request follows.    *)
UseCached(t) ==
  /\ daemonUp /\ mcp[t] = "idle" /\ cached # NoClient
  /\ UNCHANGED <<cached, config, made, server, overlap>>
  /\ Ask(t, cached, "asking")

(* Its process is started. A command that does not exist is an error event   *)
(* that nobody handles.                                                    *)
SpawnServer(t, k) ==
  /\ made' = [made EXCEPT ![k] = [kind |-> "stdio", config |-> config]]
  /\ \/ /\ server' = [server EXCEPT ![k] = "running"]
        /\ Ask(t, k, "initializing")
     \/ /\ server' = [server EXCEPT ![k] = "gone"]
        /\ daemonUp' = FALSE
        /\ mcp' = [mcp EXCEPT ![t] = "failed"]
        /\ UNCHANGED <<uses, pending, reached>>

(* Its stream is opened. One that cannot be, or that names no endpoint to     *)
(* post to, fails the turn.                                                *)
StartStream(t, k) ==
  /\ made' = [made EXCEPT ![k] = [kind |-> "sse", config |-> config]]
  /\ \/ /\ server' = [server EXCEPT ![k] = "running"]
        /\ Ask(t, k, "initializing")
     \/ /\ server' = [server EXCEPT ![k] = "gone"]
        /\ mcp' = [mcp EXCEPT ![t] = "failed"]
        /\ UNCHANGED <<uses, pending, reached, daemonUp>>

(* Without one, a client is made and its server asked to initialize.        *)
MakeClient(t) ==
  /\ daemonUp /\ mcp[t] = "idle" /\ cached = NoClient
  /\ overlap' = (overlap \/ Initializing # {})
  /\ UNCHANGED <<cached, config>>
  /\ \E k \in Unmade :
       /\ \A j \in Unmade : k <= j
       /\ SpawnServer(t, k) \/ StartStream(t, k)

(* An answer to "initialize": the client is stored, over another that may   *)
(* have been stored since, and the tool's request follows.                  *)
Stored(k) == cached' = k

(* Seeded bug: the client that is already in the map is kept. *)
StoredOnce(k) == cached' = IF cached = NoClient THEN k ELSE cached

Initialized(t) ==
  LET k == uses[t]
      settled == [pending EXCEPT ![k] = @ \ {t}]
  IN /\ daemonUp /\ mcp[t] = "initializing" /\ t \in reached[k] \cap pending[k]
     /\ server[k] \in {"running", "exited"}
     /\ Stored(k)
     /\ UNCHANGED <<config, made, server, overlap, uses>>
     /\ \/ /\ mcp' = [mcp EXCEPT ![t] = "asking"]
           /\ pending' = pending
           /\ daemonUp' \in {TRUE} \cup (IF made[k].kind = "stdio" /\ server[k] = "exited"
                                         THEN {FALSE} ELSE {})
           /\ reached' = IF server[k] = "running" THEN reached ELSE [reached EXCEPT ![k] = @ \ {t}]
        \/ /\ made[k].kind = "sse"
           /\ mcp' = [mcp EXCEPT ![t] = "failed"]
           /\ pending' = settled
           /\ UNCHANGED <<daemonUp, reached>>

(* The answer is what /mcp and the resource tools return.                    *)
CommandAnswered(t) == mcp' = [mcp EXCEPT ![t] = "done"]

(* listMcpTools maps over the answer to tools/list, which is an object.      *)
ListMcpTools(t) == mcp' = [mcp EXCEPT ![t] = "failed"]

(* McpInvokeTool lists the tools first, and never gets to the call of one.   *)
InvokeAnswered(t) == ListMcpTools(t)

(* resolveMessage: the server's answer, or its error, settles the request   *)
(* with its id.                                                            *)
ResolveMessage(t) ==
  LET k == uses[t]
  IN /\ daemonUp /\ mcp[t] \in {"asking", "initializing"} /\ t \in reached[k] \cap pending[k]
     /\ server[k] \in {"running", "exited"}
     /\ \/ mcp[t] = "asking" /\ (CommandAnswered(t) \/ InvokeAnswered(t))
        \/ mcp' = [mcp EXCEPT ![t] = "failed"]
     /\ pending' = [pending EXCEPT ![k] = @ \ {t}]
     /\ UNCHANGED <<uses, cached, config, made, server, reached, daemonUp, overlap>>

-----------------------------------------------------------------------------
(* Ends.                                                                   *)

ServerExits(k) ==
  /\ server[k] = "running"
  /\ server' = [server EXCEPT ![k] = "exited"]
  /\ UNCHANGED <<mcp, uses, cached, config, made, pending, reached, daemonUp, overlap>>

(* rejectAllPending.                                                       *)
RejectAll(k) ==
  /\ mcp' = [t \in Turns |-> IF t \in pending[k] THEN "failed" ELSE mcp[t]]
  /\ pending' = [pending EXCEPT ![k] = {}]

(* Seeded bug: the requests stay pending. *)
RejectNone(k) == UNCHANGED <<mcp, pending>>

EndOfRequests(k) == RejectAll(k)

(* The exit event, or the end of the stream.                               *)
ExitEvent(k) ==
  /\ daemonUp /\ server[k] = "exited"
  /\ server' = [server EXCEPT ![k] = "gone"]
  /\ EndOfRequests(k)
  /\ UNCHANGED <<uses, cached, config, made, reached, daemonUp, overlap>>

(* The loop over the events of a stream ends with it, or at one whose data is *)
(* not JSON: what is pending is rejected, and nothing more is heard.         *)
StreamEnds(k) ==
  /\ EndOfRequests(k)
  /\ server' = [server EXCEPT ![k] = "gone"]

(* A line that is not JSON throws in the handler of stdout, and nobody        *)
(* catches it.                                                             *)
Noise(k) ==
  /\ daemonUp /\ server[k] = "running"
  /\ IF made[k].kind = "stdio"
     THEN daemonUp' = FALSE /\ UNCHANGED <<mcp, pending, server>>
     ELSE StreamEnds(k) /\ UNCHANGED daemonUp
  /\ UNCHANGED <<uses, cached, config, made, reached, overlap>>

Closed(k) ==
  server' = [server EXCEPT ![k] = IF made[k].kind = "sse" THEN "aborted"
                                  ELSE IF @ = "running" THEN "exited" ELSE @]

(* Seeded bug: the client is only taken out of the map. *)
Forgotten(k) == UNCHANGED server

CloseServer(k) == Closed(k)

(* Seeded bug: the closed client stays in the map. *)
NotDeleted == UNCHANGED cached

Deleted == cached' = NoClient

(* resetMcpClient, after /mcp add or remove wrote the configuration.        *)
ResetMcpClient ==
  /\ daemonUp /\ config < MaxConfigs
  /\ config' = config + 1
  /\ overlap' = (overlap \/ Initializing # {})
  /\ Deleted
  /\ IF cached = NoClient
     THEN UNCHANGED <<mcp, pending, server>>
     ELSE RejectAll(cached) /\ CloseServer(cached)
  /\ UNCHANGED <<uses, made, reached, daemonUp>>

Next ==
  \/ \E t \in Turns : UseCached(t) \/ MakeClient(t) \/ Initialized(t) \/ ResolveMessage(t)
  \/ \E k \in Clients : ServerExits(k) \/ ExitEvent(k) \/ Noise(k)
  \/ ResetMcpClient

(* A server that runs answers, and the exit of a process is heard of.       *)
Answers ==
  \/ \E t \in Turns : Initialized(t) \/ ResolveMessage(t)
  \/ \E k \in Clients : ExitEvent(k)

Spec == Init /\ [][Next]_vars /\ WF_vars(Answers)

-----------------------------------------------------------------------------
(* The types. *)
TypeOK ==
  /\ mcp \in [Turns -> {"idle", "initializing", "asking", "done", "failed"}]
  /\ uses \in [Turns -> Clients \cup {NoClient}]
  /\ cached \in Clients \cup {NoClient}
  /\ server \in [Clients -> {"none", "running", "exited", "gone", "aborted"}]
  /\ \A k \in Clients : server[k] = "none" <=> made[k] = NotMade
  /\ \A t \in Turns, k \in Clients : t \in pending[k] => mcp[t] \in {"initializing", "asking"} /\ uses[t] = k

(* Every server that runs has a client somebody can still close: it is in   *)
(* the map, or a turn waits for it to initialize. Only two turns that make   *)
(* a client at the same time, a reset meanwhile, or an initialize that       *)
(* failed leave a server behind.                                           *)
NoStrays ==
  \A k \in Clients :
    server[k] = "running" =>
      \/ k = cached \/ overlap
      \/ \E t \in Turns : uses[t] = k /\ mcp[t] \in {"initializing", "failed"}

(* The client in the map was made from the configuration in force, unless   *)
(* the configuration changed while it was being initialized.               *)
CurrentConfig == cached # NoClient => made[cached].config = config \/ overlap

(* What is asked of a server that runs is settled: by its answer, by the    *)
(* exit, or by the close of the client. Only a client whose server is gone   *)
(* leaves a request without an end.                                        *)
AnsweredBy(t, k) == (t \in pending[k] /\ server[k] = "running") ~> (t \notin pending[k] \/ ~daemonUp)
Answered == \A t \in Turns, k \in Clients : AnsweredBy(t, k)
=============================================================================
