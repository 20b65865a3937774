-------------------------- MODULE TelegramStream --------------------------
(***************************************************************************)
(* The live preview of one turn's answer in a Telegram chat                *)
(* (TelegramStreamDelivery) and the delivery of its final text             *)
(* (MonolitoV2Runtime.deliverText).                                        *)
(*                                                                         *)
(* Text deltas fill a buffer; a debounce timer starts a flush, which makes *)
(* the preview message and edits it.  Every call to Telegram is a request  *)
(* on a connection of its own: it is applied some time after it was made,  *)
(* in any order with the others, and its answer arrives later still.       *)
(* While one waits, another flush or the final delivery may start.         *)
(***************************************************************************)
EXTENDS Naturals, Sequences, FiniteSets

CONSTANTS
    Flushes,    \* the flushes that can be under way at once
    MaxDeltas,  \* deltas of the turn (bound)
    MaxFaults   \* calls that fail although they could have worked (bound)

VARIABLES
    buffer,     \* how many deltas it holds
    messageId,  \* the preview message, 0: null
    editTimer,
    finished,
    call,       \* the request each flush, and finish, waits for
    chat,       \* external: the messages the chat shows
    phase,      \* of the turn's delivery
    reply,      \* the final text
    daemon,     \* "up" or "down": a rejected promise nobody handles
    faults,
    raced       \* history: a call was made while another one was under way

vars == <<buffer, messageId, editTimer, finished, call, chat, phase, reply, daemon, faults, raced>>

Actors == Flushes \cup {"finish"}

(* A text is a part of the answer: the first n deltas, the whole final     *)
(* text, or its first 4095 characters and the rest when it is longer than  *)
(* the 4096 Telegram takes.                                                *)
Preview(n) == <<"preview", n>>
Final == <<"final", 0>>
Long == <<"long", 0>>
Opening == <<"head", 0>>
Rest == <<"rest", 0>>
NoText == <<"none", 0>>
Texts == {Final, Long, Opening, Rest} \cup {Preview(n) : n \in 1..MaxDeltas}

NoCall == [op |-> "none", msg |-> 0, text |-> NoText, at |-> "none", ok |-> FALSE]
SendMessage(t) == [op |-> "send", msg |-> 0, text |-> t, at |-> "out", ok |-> FALSE]
EditMessageText(m, t) == [op |-> "edit", msg |-> m, text |-> t, at |-> "out", ok |-> FALSE]

Init ==
    /\ buffer = 0 /\ messageId = 0 /\ editTimer = FALSE /\ finished = FALSE
    /\ call = [a \in Actors |-> NoCall]
    /\ chat = <<>> /\ phase = "running" /\ reply = NoText
    /\ daemon = "up" /\ faults = 0 /\ raced = FALSE

IsActive == ~finished /\ (messageId # 0 \/ buffer > 0)
UnderWay == \E a \in Actors : call[a] # NoCall

OnDelta ==
    /\ daemon = "up" /\ phase = "running" /\ ~finished /\ buffer < MaxDeltas
    /\ buffer' = buffer + 1
    /\ editTimer' = TRUE
    /\ UNCHANGED <<messageId, finished, call, chat, phase, reply, daemon, faults, raced>>

(* The timer's flush.  The debounce inside flush never bites: lastEditAt   *)
(* is the start of an earlier flush, and this timer was set after it.      *)
Flush(f) ==
    /\ daemon = "up" /\ editTimer /\ call[f] = NoCall
    /\ editTimer' = FALSE
    /\ IF finished \/ buffer = 0 THEN UNCHANGED <<call, raced>>
       ELSE /\ call' = [call EXCEPT ![f] =
                  IF messageId = 0 THEN SendMessage(Preview(buffer))
                  ELSE EditMessageText(messageId, Preview(buffer))]
            /\ raced' = (raced \/ UnderWay)
    /\ UNCHANGED <<buffer, messageId, finished, chat, phase, reply, daemon, faults>>

(* ensureMessage resolves: the id is kept and the message is edited with   *)
(* what the buffer holds by now; finished is not looked at again.          *)
PreviewMade(f) ==
    /\ call[f].at = "back" /\ call[f].op = "send" /\ call[f].ok
    /\ messageId' = call[f].msg
    /\ call' = [call EXCEPT ![f] = EditMessageText(call[f].msg, Preview(buffer))]
    /\ UNCHANGED daemon

(* It rejects: flush is called with void, so nobody handles the rejection  *)
(* and the daemon shuts down.                                              *)
PreviewFails(f) ==
    /\ call[f].at = "back" /\ call[f].op = "send" /\ ~call[f].ok
    /\ call' = [call EXCEPT ![f] = NoCall]
    /\ daemon' = "down"
    /\ UNCHANGED messageId

(* Seeded bug: the edit's rejection is not caught.                         *)
PreviewEditedUncaught(f) ==
    /\ call[f].at = "back" /\ call[f].op = "edit"
    /\ call' = [call EXCEPT ![f] = NoCall]
    /\ daemon' = IF call[f].ok THEN daemon ELSE "down"
    /\ UNCHANGED messageId

(* Whatever the edit answered is caught.                                   *)
PreviewEdited(f) ==
    /\ call[f].at = "back" /\ call[f].op = "edit"
    /\ call' = [call EXCEPT ![f] = NoCall]
    /\ UNCHANGED <<messageId, daemon>>

FlushGoesOn(f) ==
    /\ daemon = "up"
    /\ PreviewMade(f) \/ PreviewFails(f) \/ PreviewEdited(f)
    /\ UNCHANGED <<buffer, editTimer, finished, chat, phase, reply, faults, raced>>

(* Seeded bug: the stream is only closed when the last call has answered.  *)
ClosedLater == UNCHANGED <<finished, editTimer>>

Closed == finished' = TRUE /\ editTimer' = FALSE

(* deliverText finds the stream active.  The final text is what was        *)
(* streamed, or another one (a guard changed it), short or long.           *)
Finish ==
    /\ daemon = "up" /\ phase = "running" /\ IsActive
    /\ \E t \in {Preview(buffer), Final, Long} \ {Preview(0)} :
         /\ reply' = t
         /\ call' = [call EXCEPT !["finish"] =
                IF messageId = 0 THEN SendMessage(t)
                ELSE EditMessageText(messageId, IF t = Long THEN Opening ELSE t)]
    /\ Closed
    /\ phase' = "finishing"
    /\ raced' = (raced \/ UnderWay)
    /\ UNCHANGED <<buffer, messageId, chat, daemon, faults>>

FinishAnswered(next, ph) ==
    /\ call' = [call EXCEPT !["finish"] = next]
    /\ phase' = ph

(* Seeded bug: a failed edit is tried again instead of sent.               *)
FinishRetries ==
    LET c == call["finish"] IN
    /\ daemon = "up" /\ c.at = "back"
    /\ \/ c.text = Opening /\ FinishAnswered(SendMessage(Rest), phase)
       \/ c.text # Opening /\ c.op = "edit" /\ ~c.ok /\ FinishAnswered(EditMessageText(messageId, c.text), phase)
       \/ c.text # Opening /\ c.op = "edit" /\ c.ok /\ FinishAnswered(NoCall, "done")
       \/ c.op = "send" /\ FinishAnswered(NoCall, IF c.ok THEN "done" ELSE "failed")
    /\ UNCHANGED <<buffer, messageId, editTimer, finished, chat, reply, daemon, faults, raced>>

(* A failed edit of a short text sends it again, whatever the reason; the  *)
(* failed edit of a long one is forgotten and its rest is sent.            *)
FinishGoesOn ==
    LET c == call["finish"] IN
    /\ daemon = "up" /\ c.at = "back"
    /\ \/ c.text = Opening /\ FinishAnswered(SendMessage(Rest), phase)
       \/ c.text # Opening /\ c.op = "edit" /\ ~c.ok /\ FinishAnswered(SendMessage(c.text), phase)
       \/ c.text # Opening /\ c.op = "edit" /\ c.ok /\ FinishAnswered(NoCall, "done")
       \/ c.op = "send" /\ FinishAnswered(NoCall, IF c.ok THEN "done" ELSE "failed")
    /\ UNCHANGED <<buffer, messageId, editTimer, finished, chat, reply, daemon, faults, raced>>

(* Nothing was streamed: the channel's own handler sends the text.         *)
DeliverByHandler ==
    /\ daemon = "up" /\ phase = "running" /\ ~IsActive
    /\ reply' = Final /\ chat' = Append(chat, Final) /\ phase' = "done"
    /\ UNCHANGED <<buffer, messageId, editTimer, finished, call, daemon, faults, raced>>

(* The turn ends without a text for this chat (a voice note, a suppressed  *)
(* or failed turn): the stream leaves the map, its timer and message stay. *)
TurnEndsOtherwise ==
    /\ daemon = "up" /\ phase = "running"
    /\ phase' = "elsewhere"
    /\ UNCHANGED <<buffer, messageId, editTimer, finished, call, chat, reply, daemon, faults, raced>>

(***************************************************************************)
(* Telegram                                                                *)
(***************************************************************************)
Answer(a, ok, msg) == call' = [call EXCEPT ![a].at = "back", ![a].ok = ok, ![a].msg = msg]

Applied(a) ==
    LET c == call[a] IN
    /\ c.at = "out"
    /\ \/ /\ c.op = "send" /\ c.text # Long
          /\ chat' = Append(chat, c.text)
          /\ Answer(a, TRUE, Len(chat) + 1)
       \/ /\ c.op = "edit" /\ chat[c.msg] # c.text
          /\ chat' = [chat EXCEPT ![c.msg] = c.text]
          /\ Answer(a, TRUE, c.msg)
       \/ /\ c.op = "send" /\ c.text = Long                   \* "message is too long"
          /\ UNCHANGED chat /\ Answer(a, FALSE, 0)
       \/ /\ c.op = "edit" /\ chat[c.msg] = c.text            \* "message is not modified"
          /\ UNCHANGED chat /\ Answer(a, FALSE, c.msg)
    /\ UNCHANGED <<buffer, messageId, editTimer, finished, phase, reply, daemon, faults, raced>>

(* A rate limit, a network error or the timeout of 15 s.                   *)
Refused(a) ==
    /\ call[a].at = "out" /\ faults < MaxFaults
    /\ faults' = faults + 1 /\ Answer(a, FALSE, call[a].msg)
    /\ UNCHANGED <<buffer, messageId, editTimer, finished, chat, phase, reply, daemon, raced>>

CallsEnd == \E a \in Actors : Applied(a)
GoesOn == FinishGoesOn \/ \E f \in Flushes : FlushGoesOn(f)

Next ==
    \/ OnDelta \/ Finish \/ FinishGoesOn \/ DeliverByHandler \/ TurnEndsOtherwise
    \/ \E f \in Flushes : Flush(f) \/ FlushGoesOn(f)
    \/ \E a \in Actors : Applied(a) \/ Refused(a)

Spec == Init /\ [][Next]_vars /\ WF_vars(CallsEnd) /\ WF_vars(GoesOn)

(***************************************************************************)
(* Properties                                                              *)
(***************************************************************************)
(* Every variable has its type.                                            *)
TypeOK ==
    /\ buffer \in 0..MaxDeltas /\ messageId \in 0..Len(chat) /\ editTimer \in BOOLEAN /\ finished \in BOOLEAN
    /\ \A a \in Actors : /\ call[a].op \in {"none", "send", "edit"} /\ call[a].at \in {"none", "out", "back"}
                         /\ call[a].text \in Texts \cup {NoText} /\ call[a].msg \in 0..Len(chat)
    /\ chat \in Seq(Texts)
    /\ phase \in {"running", "finishing", "done", "failed", "elsewhere"}
    /\ reply \in Texts \cup {NoText} /\ daemon \in {"up", "down"} /\ faults \in 0..MaxFaults /\ raced \in BOOLEAN

(* When no call overlapped another one, none failed, and the final text    *)
(* differs from the preview, a finished delivery leaves exactly the final  *)
(* text in the chat: no preview beside it and no second copy.              *)
FinalOnce ==
    phase = "done" /\ ~raced /\ faults = 0 /\ reply # Preview(buffer)
        => chat = (IF reply = Long THEN <<Opening, Rest>> ELSE <<reply>>)

(* Only the first preview of a stream can bring the daemon down, and only  *)
(* by a failed call: edits never do.                                       *)
DownByFirstPreview == daemon = "down" => faults > 0 /\ (messageId = 0 \/ raced)

(* A delivery that started ends, delivered or logged as failed, unless the *)
(* daemon goes down: Telegram answers or the call times out.               *)
FinishEnds == (phase = "finishing") ~> (phase \in {"done", "failed"} \/ daemon = "down")
=============================================================================
