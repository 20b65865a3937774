------------------------------- MODULE Desk -------------------------------
(***************************************************************************)
(* The interactive command line (apps/cli/session.ts) at one session of    *)
(* the daemon: what Enter does with a line, the events that turn the       *)
(* composer busy and free, the one place for a permission prompt and the   *)
(* one place for a queued line, the wait for the end of a turn, and the    *)
(* connection that comes and goes.                                         *)
(*                                                                         *)
(* The daemon runs the turns of the session one by one and queues the      *)
(* lines that come meanwhile; another client or a background task may have *)
(* a turn of its own.  Its events reach the desk in order, while it is     *)
(* connected; an event and what the desk does with it are one step.        *)
(***************************************************************************)
EXTENDS Naturals, Sequences, FiniteSets

CONSTANTS
    MaxLines,       \* lines the user enters, with the turns of others (bound)
    MaxOthers,      \* turns of others (bound)
    MaxPrompts,     \* permission requests (bound)
    MaxDrops,       \* lost connections (bound)
    MaxEvents,      \* all of these together (bound)
    SubMenus        \* the menus beside the master dashboard

Lines == 1..MaxLines
Other == MaxLines + 1
Kinds == {"text", "local", "new"}    \* /reset goes the way of a text

VARIABLES
    \* the desk
    connected,  \* the socket, and with it the subscription to "*"
    busy,       \* composer.busy
    streaming,  \* composer.streamingText is not empty
    prompt,     \* composer.permissionPrompt, 0: null
    queued,     \* queuedPrompt, 0: null
    menus,      \* the menu states that are not null
    ephemeral,  \* composer.masterMenuEphemeral
    kind, pc,   \* of each line: what it is, and where submitCurrentInput is with it
    waiter,     \* waitForTurnCompletion of each line
    over,       \* "no", "left" or "crashed"
    \* the daemon
    turn,       \* whose turn runs: a line, Other, 0: none
    replied,    \* its assistant message is out
    queue,      \* pendingUserMessages of the session
    pending,    \* permission requests nobody has answered
    \* bounds and history
    typed, others, asked, drops, ended,
    crossed     \* lines sent while another's turn had yet to begin

desk == <<connected, busy, streaming, prompt, queued, menus, ephemeral, kind, pc, waiter, over>>
daemon == <<turn, replied, queue, pending>>
counts == <<typed, others, asked, drops, ended, crossed>>
vars == <<desk, daemon, counts>>

Init ==
    /\ connected = TRUE /\ busy = FALSE /\ streaming = FALSE /\ prompt = 0 /\ queued = 0
    /\ menus \in {{}} \cup {{m} : m \in SubMenus}    \* the model menu when no model is configured
    /\ ephemeral = FALSE
    /\ kind = [l \in Lines |-> "text"] /\ pc = [l \in Lines |-> "no"]
    /\ waiter = [l \in Lines |-> "none"] /\ over = "no"
    /\ turn = 0 /\ replied = FALSE /\ queue = <<>> /\ pending = {}
    /\ typed = 0 /\ others = 0 /\ asked = 0 /\ drops = 0 /\ ended = {} /\ crossed = {}

Here == over = "no"
Room == typed + others + asked + drops < MaxEvents
RoomForATurn == Room /\ typed + others < MaxLines
Line == UNCHANGED <<connected, streaming, prompt, menus, ephemeral, over>>

(***************************************************************************)
(* Enter                                                                   *)
(***************************************************************************)
\* submitCurrentInput of a line that is no menu's: busy, then the local
\* commands, then the daemon
Submitted(l) == /\ busy' = TRUE
                /\ pc' = [pc EXCEPT ![l] = IF kind'[l] = "local" THEN "local" ELSE "ensure"]

Enter ==
    /\ Here /\ prompt = 0 /\ menus = {} /\ RoomForATurn
    /\ ~busy
    /\ typed' = typed + 1
    /\ \E k \in Kinds : kind' = [kind EXCEPT ![typed + 1] = k]
    /\ Submitted(typed + 1)
    /\ UNCHANGED <<queued, waiter, daemon, others, asked, drops, ended, crossed>> /\ Line

\* Enter while busy: the line is shown as queued, in the place of the one
\* before; a control command also aborts the turn, which then ends like any other
EnterBusy ==
    /\ Here /\ prompt = 0 /\ menus = {} /\ RoomForATurn
    /\ busy
    /\ typed' = typed + 1
    /\ \E k \in Kinds : kind' = [kind EXCEPT ![queued] = "text", ![typed + 1] = k]
    /\ queued' = typed + 1
    /\ pc' = [pc EXCEPT ![typed + 1] = "queued"]
    /\ UNCHANGED <<busy, waiter, daemon, others, asked, drops, ended, crossed>> /\ Line

\* the finally of submitCurrentInput: the queued line is put into the input
\* and submitted with setTimeout(0)
Ended(l) == /\ busy' = FALSE
            /\ kind' = [kind EXCEPT ![l] = "text"]
            /\ IF kind[l] = "text" /\ queued # 0
               THEN pc' = [pc EXCEPT ![l] = "done", ![queued] = "again"] /\ queued' = 0
               ELSE pc' = [pc EXCEPT ![l] = "done"] /\ UNCHANGED queued

Again(l) == /\ Here /\ pc[l] = "again"
            /\ UNCHANGED kind /\ Submitted(l)
            /\ UNCHANGED <<queued, waiter, daemon, counts>> /\ Line

\* tryLocalCommand has its answer
LocalEnds(l) == /\ Here /\ pc[l] = "local" /\ connected
                /\ Ended(l)
                /\ UNCHANGED <<waiter, daemon, counts>> /\ Line

WaitForTurnCompletion(l) == waiter' = [waiter EXCEPT ![l] = "armed"]

\* the lines that are sent while another's turn has yet to begin
Crossing(l) ==
    LET sent == {k \in Lines : pc[k] = "sending"}
    IN IF sent # {} \/ queue # <<>> THEN {l} \cup sent ELSE {}

\* ensureConnectedSession, the wait, and the request is on its way
Sends(l) ==
    /\ Here /\ pc[l] = "ensure"
    /\ IF connected
       THEN /\ pc' = [pc EXCEPT ![l] = "sending"]
            /\ WaitForTurnCompletion(l)
            /\ crossed' = crossed \cup Crossing(l)
            /\ UNCHANGED <<busy, queued, kind>>
       ELSE Ended(l) /\ UNCHANGED <<waiter, crossed>>
    /\ UNCHANGED <<daemon, typed, others, asked, drops, ended>> /\ Line

(***************************************************************************)
(* Events of a turn                                                        *)
(***************************************************************************)
\* Seeded bug: the wait does not ask for the turn to have begun.
SawIdleAnyway(w) == IF w \in {"armed", "saw"} THEN "resolved" ELSE w

\* state.changed of the session, as waitForTurnCompletion sees it
SawRunning(w) == IF w = "armed" THEN "saw" ELSE w
SawIdle(w) == IF w = "saw" THEN "resolved" ELSE w

\* the user's message and state.changed(running)
Begins(t) ==
    /\ turn' = t /\ replied' = FALSE
    /\ IF connected
       THEN /\ busy' = (busy \/ prompt = 0)
            /\ waiter' = [l \in Lines |-> SawRunning(waiter[l])]
       ELSE UNCHANGED <<busy, waiter>>

\* message.send: accepted at once; the session's lock decides the rest
Accepts(l) ==
    /\ Here /\ pc[l] = "sending"
    /\ pc' = [pc EXCEPT ![l] = "wait"]
    /\ IF turn = 0 /\ queue = <<>> THEN Begins(l) /\ UNCHANGED queue
       ELSE queue' = Append(queue, l) /\ UNCHANGED <<turn, replied, busy, waiter>>
    /\ UNCHANGED <<kind, queued, pending, counts>> /\ Line

NextQueued == /\ turn = 0 /\ queue # <<>>
              /\ Begins(Head(queue)) /\ queue' = Tail(queue)
              /\ UNCHANGED <<kind, pc, queued, pending, counts>> /\ Line

OtherBegins == /\ turn = 0 /\ queue = <<>> /\ others < MaxOthers /\ RoomForATurn
               /\ others' = others + 1
               /\ Begins(Other)
               /\ UNCHANGED <<kind, pc, queued, queue, pending, typed, asked, drops, ended, crossed>> /\ Line

Seen == connected

\* model.stream, tool.start, ralph.attempt
Streams == /\ turn # 0 /\ ~replied /\ Seen
           /\ streaming' = TRUE /\ busy' = TRUE
           /\ UNCHANGED <<connected, prompt, queued, menus, ephemeral, kind, pc, waiter, over, daemon, counts>>

\* tool.finish with a menu: the master dashboard opens
ShowsMenu == /\ turn # 0 /\ ~replied /\ Seen
             /\ menus' = menus \cup {"master"} /\ ephemeral' = TRUE
             /\ UNCHANGED <<connected, busy, streaming, prompt, queued, kind, pc, waiter, over, daemon, counts>>

\* permission.request, destructive.confirm: in the place of the one before
Asks == /\ turn # 0 /\ ~replied /\ asked < MaxPrompts /\ Room
        /\ asked' = asked + 1 /\ pending' = pending \cup {asked + 1}
        /\ IF Seen THEN prompt' = asked + 1 /\ busy' = TRUE ELSE UNCHANGED <<prompt, busy>>
        /\ UNCHANGED <<connected, streaming, queued, menus, ephemeral, kind, pc, waiter, over,
                       turn, replied, queue, typed, others, drops, ended, crossed>>

\* a key of the prompt: the answer leaves, the prompt is gone
Answers == /\ Here /\ prompt # 0
           /\ prompt' = 0
           /\ pending' = IF connected THEN pending \ {prompt} ELSE pending
           /\ UNCHANGED <<connected, busy, streaming, queued, menus, ephemeral, kind, pc, waiter, over,
                          turn, replied, queue, counts>>

\* the request is denied after its time (no event), or answered elsewhere
\* (permission.resolved)
AskEnds == /\ pending # {}
           /\ \E p \in pending :
                /\ pending' = pending \ {p}
                /\ \/ UNCHANGED prompt
                   \/ Seen /\ prompt' = IF prompt = p THEN 0 ELSE prompt
           /\ UNCHANGED <<connected, busy, streaming, queued, menus, ephemeral, kind, pc, waiter, over,
                          turn, replied, queue, counts>>

\* message.received(assistant), before the text is delivered elsewhere
Replies ==
    /\ turn # 0 /\ ~replied /\ pending = {}
    /\ replied' = TRUE
    /\ IF Seen THEN /\ busy' = FALSE /\ streaming' = FALSE
                    /\ menus' = IF ephemeral THEN menus \ {"master"} ELSE menus
                    /\ ephemeral' = FALSE
       ELSE UNCHANGED <<busy, streaming, menus, ephemeral>>
    /\ UNCHANGED <<connected, prompt, queued, kind, pc, waiter, over, turn, queue, pending, counts>>

\* Seeded bug: only an assistant message frees the composer.
FreesByReply == UNCHANGED <<busy, streaming>>
IdleFrees == busy' = FALSE /\ streaming' = FALSE

\* state.changed(idle or error), with or without a reply
TurnEnds ==
    /\ turn # 0 /\ pending = {}
    /\ turn' = 0 /\ replied' = FALSE
    /\ ended' = ended \cup ({turn} \ {Other})
    /\ IF Seen THEN IdleFrees /\ waiter' = [l \in Lines |-> SawIdle(waiter[l])]
       ELSE UNCHANGED <<busy, streaming, waiter>>
    /\ UNCHANGED <<connected, prompt, queued, menus, ephemeral, kind, pc, over, queue, pending,
                   typed, others, asked, drops, crossed>>

\* the wait has ended, one way or the other
Resumes(l) == /\ Here /\ pc[l] = "wait" /\ waiter[l] \in {"resolved", "rejected"}
              /\ waiter' = [waiter EXCEPT ![l] = "none"]
              /\ Ended(l)
              /\ UNCHANGED <<daemon, counts>> /\ Line

\* the timer of waitForTurnCompletion
TimesOut(l) == /\ Here /\ pc[l] = "wait" /\ waiter[l] \in {"armed", "saw"}
               /\ waiter' = [waiter EXCEPT ![l] = "rejected"]
               /\ UNCHANGED <<busy, queued, kind, pc, daemon, counts>> /\ Line

(***************************************************************************)
(* Menus                                                                   *)
(***************************************************************************)
\* /model, /channels, /websearch, /dashboard
OpensMenu == /\ Here /\ prompt = 0 /\ menus = {} /\ ~busy
             /\ \E m \in SubMenus \cup {"master"} : menus' = {m}
             /\ ephemeral' = FALSE
             /\ UNCHANGED <<connected, busy, streaming, prompt, queued, kind, pc, waiter, over, daemon, counts>>

\* submitCurrentInput of an input that ends the menu it goes to: the master
\* dashboard, or one of the others
MasterInput == /\ "master" \in menus
               /\ menus' = menus \ {"master"} /\ ephemeral' = FALSE

MenuInput == /\ "master" \notin menus /\ menus # {}
             /\ menus' = {} /\ UNCHANGED ephemeral

LeavesMenu == /\ Here /\ prompt = 0
              /\ MasterInput \/ MenuInput
              /\ UNCHANGED <<connected, busy, streaming, prompt, queued, kind, pc, waiter, over, daemon, counts>>

\* Esc: every menu but the master dashboard
CancelsMenu == /\ Here /\ prompt = 0 /\ menus \cap SubMenus # {}
               /\ menus' = menus \ SubMenus
               /\ UNCHANGED <<connected, busy, streaming, prompt, queued, ephemeral, kind, pc, waiter, over,
                              daemon, counts>>

(***************************************************************************)
(* The connection, and the end                                             *)
(***************************************************************************)
\* the socket closes: every wait is rejected, and a rejection nobody awaits
\* yet ends the process; a request is never answered
Drops ==
    /\ Here /\ connected /\ drops < MaxDrops /\ Room
    /\ drops' = drops + 1 /\ connected' = FALSE
    /\ waiter' = [l \in Lines |-> IF waiter[l] \in {"armed", "saw"} THEN "rejected" ELSE waiter[l]]
    /\ over' = IF \E l \in Lines : pc[l] = "sending" THEN "crashed" ELSE over
    /\ pc' = [l \in Lines |-> IF pc[l] = "local" THEN "hung" ELSE pc[l]]
    /\ UNCHANGED <<busy, streaming, prompt, queued, menus, ephemeral, kind, daemon, typed, others, asked, ended, crossed>>

\* monitorConnection: ping, ensureConnectedSession
Reconnects == /\ Here /\ ~connected /\ connected' = TRUE
              /\ UNCHANGED <<busy, streaming, prompt, queued, menus, ephemeral, kind, pc, waiter, over,
                             daemon, counts>>

\* the socket is closed, and the composer goes with its process
Cleanup == /\ over' = "left" /\ connected' = FALSE
           /\ busy' = FALSE /\ streaming' = FALSE /\ prompt' = 0 /\ queued' = 0
           /\ menus' = {} /\ ephemeral' = FALSE
           /\ kind' = [l \in Lines |-> "text"] /\ pc' = [l \in Lines |-> "no"]
           /\ waiter' = [l \in Lines |-> "none"]

\* /exit, /stop, Ctrl+C, a new revision of the code
Leaves == Here /\ Cleanup /\ UNCHANGED <<daemon, counts>>

Works(l) == Again(l) \/ LocalEnds(l) \/ Sends(l) \/ Accepts(l) \/ Resumes(l)
\* without the desk the daemon's turns are SessionTurns'
Next == \/ Enter \/ EnterBusy
        \/ \E l \in Lines : Works(l) \/ TimesOut(l)
        \/ Here /\ (NextQueued \/ OtherBegins \/ Streams \/ ShowsMenu \/ Asks \/ Answers
                     \/ AskEnds \/ Replies \/ TurnEnds)
        \/ OpensMenu \/ LeavesMenu \/ CancelsMenu
        \/ Drops \/ Reconnects \/ Leaves

\* the daemon ends its turns and requests, and the desk's own code goes on
Progress == \/ \E l \in Lines : Works(l)
            \/ Here /\ (NextQueued \/ AskEnds \/ TurnEnds)

Spec == Init /\ [][Next]_vars /\ WF_vars(Progress)

(***************************************************************************)
(* Properties                                                              *)
(***************************************************************************)
\* Every variable has its type.
TypeOK ==
    /\ connected \in BOOLEAN /\ busy \in BOOLEAN /\ streaming \in BOOLEAN /\ ephemeral \in BOOLEAN
    /\ prompt \in 0..MaxPrompts /\ queued \in 0..MaxLines
    /\ menus \subseteq SubMenus \cup {"master"}
    /\ \A l \in Lines : kind[l] \in Kinds
    /\ \A l \in Lines : pc[l] \in {"no", "queued", "again", "local", "ensure", "sending", "wait", "done", "hung"}
    /\ \A l \in Lines : waiter[l] \in {"none", "armed", "saw", "resolved", "rejected"}
    /\ over \in {"no", "left", "crashed"}
    /\ turn \in 0..Other /\ replied \in BOOLEAN /\ pending \subseteq 1..MaxPrompts
    /\ Len(queue) <= MaxLines

\* A wait for a turn ends well only after the turn of its own line, as long as
\* nobody else uses the session and it was not sent together with another
\* line, whose turn it then takes for its own (waitForTurnCompletion).
WaitsForOwn == others = 0 => \A l \in Lines \ crossed : waiter[l] = "resolved" => l \in ended

\* Between turns nothing is left of a text that streamed, unless the
\* connection was lost (state.changed in the event listener).
NothingStreams == turn = 0 /\ drops = 0 => ~streaming

\* A busy desk becomes free, or has lost its connection: no spinner stays for
\* ever (session.ts:833).
BusyEnds == busy ~> (~busy \/ drops > 0 \/ ~Here)

\* session.ts:1816: "Queued for later -- will send when the current turn finishes."
QueuedIsKept == \A l \in Lines : pc[l] = "queued" => queued = l
============================================================================
