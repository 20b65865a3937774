----------------------------- MODULE MCServices -----------------------------
(***************************************************************************)
(* The clients of other processes and services, checked one at a time:     *)
(* they share no state, so a behaviour of this module is a behaviour of    *)
(* the one component that "part" names.                                    *)
(***************************************************************************)
EXTENDS Naturals, Sequences, FiniteSets

CONSTANTS
    Parts,            \* the components that are checked
    IpcCalls,         \* the requests of a client of the daemon
    Subscribe,        \* and those that subscribe
    MaxConns,         \* connections of the client (bound)
    McpTurns,         \* the turns that use an MCP server
    MaxMcpClients,    \* clients of it (bound)
    MaxConfigs,       \* its configurations (bound)
    Queries,          \* the calls of LspQuery
    MaxServers,       \* language servers started (bound)
    MaxEdits,         \* edits of the document (bound)
    GrokRequests,     \* the requests to Grok
    Logins,           \* the logins to it
    MaxVersion,       \* tokens of a login (bound)
    Flushes,          \* the flushes of a stream
    MaxDeltas,        \* its deltas (bound)
    MaxFaults,        \* failed calls of Telegram (bound)
    FileCalls,        \* the calls of the sending tools
    Chats,            \* their chats
    Paths,            \* and the files they send
    MaxCrashes,       \* crashes of the daemon (bound)
    Uses,             \* the uses of the speech service
    Keys,             \* the keys of the hotkey
    Models,           \* buildModelFallbackChain
    MaxProbes,        \* probes of a model that starts
    MaxVoiceFaults    \* failures of xinput, docker and container (bound)

\* A login is no request; the stream, the start of a server and no use at all
\* have names of their own; a login has tokens, and a use has a model to try.
ASSUME GrokAssumption == GrokRequests \cap Logins = {} /\ MaxVersion \in Nat \ {0}
ASSUME ClientAssumption ==
    /\ "initialize" \notin Queries
    /\ MaxConns \in Nat /\ MaxMcpClients \in Nat /\ MaxServers \in Nat
ASSUME ChatAssumption ==
    /\ "finish" \notin Flushes
    /\ MaxDeltas \in Nat /\ MaxFaults \in Nat /\ MaxCrashes \in Nat
ASSUME VoiceAssumption ==
    /\ "none" \notin Uses /\ Len(Models) \in Nat \ {0}
    /\ MaxProbes \in Nat \ {0} /\ MaxVoiceFaults \in Nat

\* The models of the run, the configured one first.
MCModels == <<"large", "base">>

VARIABLES
    part,   \* the component of this behaviour
    ipcCall, via, socket, attached, link, told, ipcBuffer, crashed, up, down,
    loops, handled, subs, left,
    mcp, uses, cached, config, made, server, pending, reached, daemonUp,
    overlap,
    query, client, shared, lsp, waiting, late, text, opened, saw,
    file, expiring, newest, grokPc, holds, failed, torn, died,
    streamBuffer, messageId, editTimer, finished, streamCall, chat, phase,
    reply, daemon, streamFaults, raced,
    sent, photos, req, filesPc, result, delivered, before, forgotten, crashes,
    held, pressed, xinput, lost, recorder, files, container, voicePc, seen,
    cand, probes, voiceFaults

Ipc == INSTANCE IpcClient WITH
    Calls <- IpcCalls, call <- ipcCall, buffer <- ipcBuffer
Mcp == INSTANCE McpClient WITH
    Turns <- McpTurns, MaxClients <- MaxMcpClients
Lsp == INSTANCE LspClient WITH
    MaxClients <- MaxServers
Grok == INSTANCE GrokAuth WITH
    Requests <- GrokRequests, pc <- grokPc
Stream == INSTANCE TelegramStream WITH
    buffer <- streamBuffer, call <- streamCall, faults <- streamFaults
Files == INSTANCE TelegramFiles WITH
    Calls <- FileCalls, pc <- filesPc
Voice == INSTANCE VoiceInput WITH
    MaxFaults <- MaxVoiceFaults, pc <- voicePc, faults <- voiceFaults

ipcVars == <<ipcCall, via, socket, attached, link, told, ipcBuffer, crashed,
             up, down, loops, handled, subs, left>>
mcpVars == <<mcp, uses, cached, config, made, server, pending, reached,
             daemonUp, overlap>>
lspVars == <<query, client, shared, lsp, waiting, late, text, opened, saw>>
grokVars == <<file, expiring, newest, grokPc, holds, failed, torn, died>>
streamVars == <<streamBuffer, messageId, editTimer, finished, streamCall,
                chat, phase, reply, daemon, streamFaults, raced>>
filesVars == <<sent, photos, req, filesPc, result, delivered, before,
               forgotten, crashes>>
voiceVars == <<held, pressed, xinput, lost, recorder, files, container,
               voicePc, seen, cand, probes, voiceFaults>>
vars == <<part, ipcVars, mcpVars, lspVars, grokVars, streamVars, filesVars, voiceVars>>

\* What a component may start in differently matters only when it runs.
Init ==
    /\ part \in Parts
    /\ Ipc!Init
    /\ Mcp!Init
    /\ Lsp!Init
    /\ Grok!Init
    /\ Stream!Init
    /\ Files!Init
    /\ Voice!Init

\* A step of one component: the others stay as they are.
Only(p) ==
    /\ part = p /\ UNCHANGED part
    /\ IF p = "ipc" THEN TRUE ELSE UNCHANGED ipcVars
    /\ IF p = "mcp" THEN TRUE ELSE UNCHANGED mcpVars
    /\ IF p = "lsp" THEN TRUE ELSE UNCHANGED lspVars
    /\ IF p = "grok" THEN TRUE ELSE UNCHANGED grokVars
    /\ IF p = "stream" THEN TRUE ELSE UNCHANGED streamVars
    /\ IF p = "files" THEN TRUE ELSE UNCHANGED filesVars
    /\ IF p = "voice" THEN TRUE ELSE UNCHANGED voiceVars

Next ==
    \/ Only("ipc") /\ Ipc!Next
    \/ Only("mcp") /\ Mcp!Next
    \/ Only("lsp") /\ Lsp!Next
    \/ Only("grok") /\ Grok!Next
    \/ Only("stream") /\ Stream!Next
    \/ Only("files") /\ Files!Next
    \/ Only("voice") /\ Voice!Next

\* What goes on by itself (1), in each component as in its own Spec.
GoesOn1 ==
    \/ Only("ipc") /\ Ipc!Serves
    \/ Only("mcp") /\ Mcp!Answers
    \/ Only("lsp") /\ Lsp!Timers
    \/ Only("stream") /\ Stream!CallsEnd

\* What goes on by itself (2), in each component as in its own Spec.
GoesOn2 ==
    \/ Only("stream") /\ Stream!GoesOn

Spec ==
    /\ Init
    /\ [][Next]_vars
    /\ WF_vars(GoesOn1)
    /\ WF_vars(GoesOn2)
    /\ \A c \in Uses :
           /\ WF_vars(Only("voice") /\ Voice!Goes(c))

-----------------------------------------------------------------------------
\* Every variable of every component has its type.
TypesOK == Ipc!TypeOK /\ Mcp!TypeOK /\ Lsp!TypeOK /\ Grok!TypeOK
           /\ Stream!TypeOK /\ Files!TypeOK /\ Voice!TypeOK

\* A request of the CLI is resolved only by the answer to it (DaemonClient).
IpcOwnAnswer == Ipc!IpcOwnAnswer

\* On the only connection a client ever had, every line is read, however it
\* is cut (decodeLines).
IpcParsesAlone == Ipc!ParsesAlone

\* A request on a connection that lasts is settled (DaemonClient, daemon.ts).
IpcSettles == Ipc!Settles

\* Without overlap no MCP server runs that no one can use or stop any more
\* (ensureMcpClient).
McpNoStrays == Mcp!NoStrays

\* Without overlap the cached MCP client is one of the current configuration.
McpCurrentConfig == Mcp!CurrentConfig

\* A turn that waits for an MCP server goes on when the server answers or
\* ends (client.ts); of one turn, for they are interchangeable.
McpAnswered == \A k \in Mcp!Clients : Mcp!AnsweredBy(CHOOSE t \in McpTurns : TRUE, k)

\* Queries that run together share one language server (getLspClient).
LspOneServer == Lsp!OneServer

\* A language server is never asked about a document it was not given
\* (prepareDocument).
LspNeverAhead == Lsp!NeverAhead

\* A query ends, by an answer, a timeout or the end of the server; of one
\* query, for they are interchangeable.
LspEnds == Lsp!EndsOf(CHOOSE q \in Queries : TRUE)

\* A torn credentials file is there only while it is written or after a crash
\* (grokAuth.ts).
GrokTornOnlyWhileWritten == Grok!TornOnlyWhileWritten

\* The stored login can be refreshed, unless two refreshes overlapped.
GrokRefreshable == Grok!Refreshable

\* A login stores only what came with its own state parameter.
GrokOwnLogin == Grok!OwnLogin

\* A delivery without overlapping or failing calls leaves exactly the final
\* text in the chat (finish).
StreamFinalOnce == Stream!FinalOnce

\* Only the first preview of a stream can bring the daemon down
\* (ensureMessage).
StreamDownByFirstPreview == Stream!DownByFirstPreview

\* A delivery that started ends (finish).
StreamFinishEnds == Stream!FinishEnds

\* A file whose sending was reported is not sent again by a later call
\* (audioDedupState).
FilesSentOnce == Files!SentOnce

\* A call puts at most one message in its chat (TelegramSend).
FilesOneMessageEach == Files!OneMessageEach

\* "Already sent" is said only of what was put in a chat.
FilesSaidSentWasSent == Files!SaidSentWasSent

\* The microphone is open only while the hotkey is held (globalHotkey.ts).
MicOnlyWhileHeld == Voice!MicOnlyWhileHeld

\* When no deployment is at work, the container there is once answered
\* (managed.ts).
VoiceNoHalfContainer == Voice!NoHalfContainer

\* Every use of the speech service ends and its recording is deleted; of one
\* use, for they are interchangeable.
VoiceUseEnds == Voice!EndsOf(CHOOSE u \in Uses : TRUE)

\* What arrives is what was asked for or sent: a request has its own answer,
\* a login its own tokens, a chat each text and file once; and every variable
\* has its type.
AnswersMatch ==
    /\ TypesOK
    /\ IpcOwnAnswer
    /\ IpcParsesAlone
    /\ LspNeverAhead
    /\ GrokOwnLogin
    /\ StreamFinalOnce
    /\ StreamDownByFirstPreview
    /\ FilesSentOnce
    /\ FilesOneMessageEach
    /\ FilesSaidSentWasSent

\* No server, container, open microphone, old client or half-written login is
\* left behind by those who started it.
NothingStrays ==
    /\ McpNoStrays
    /\ McpCurrentConfig
    /\ LspOneServer
    /\ GrokTornOnlyWhileWritten
    /\ GrokRefreshable
    /\ MicOnlyWhileHeld
    /\ VoiceNoHalfContainer

\* Whoever waits for another process or service goes on.
ServicesEnd ==
    /\ IpcSettles
    /\ McpAnswered
    /\ LspEnds
    /\ StreamFinishEnds
    /\ VoiceUseEnds
=============================================================================
