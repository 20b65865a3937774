--------------------------- MODULE TelegramFiles ---------------------------
(***************************************************************************)
(* The tools that send to a chat (TelegramSend, TelegramSendAudio,         *)
(* TelegramSendPhoto ...).                                                 *)
(*                                                                         *)
(* A photo or an audio of a local path is sent once: its path is in a      *)
(* JSON file of the paths already sent.  The file is read before an upload *)
(* that is awaited and written after it; the tools are concurrencySafe, so *)
(* several calls run at once, and the daemon may crash between the upload  *)
(* and the mark, or while it writes the file.                              *)
(***************************************************************************)
EXTENDS Naturals, Sequences, FiniteSets

CONSTANTS Calls, Chats, Paths,
          MaxCrashes    \* crashes of the daemon (bound)

VARIABLES
    sent,       \* run/telegram_sent_photos.json and ..._audios.json
    photos,     \* the log of sent photos (persistTelegramSentPhoto)
    req,        \* what each call was asked to do
    pc,         \* where each call is
    result,     \* what it answered
    delivered,  \* external: the messages each call put in its chat
    before,     \* history: the calls that had answered when this one began
    forgotten,  \* history: a torn file forgot what was sent
    crashes

vars == <<sent, photos, req, pc, result, delivered, before, forgotten, crashes>>

Kinds == {"text", "audio", "photo"}
NoFile == "nofile"
Requests ==
    [kind : {"photo"}, chat : Chats, path : Paths, ignore : BOOLEAN]
    \cup [kind : {"audio"}, chat : Chats, path : Paths, ignore : {FALSE}]
    \cup [kind : {"text"}, chat : Chats, path : {NoFile}, ignore : BOOLEAN]    \* ignore: a parse_mode was given
NoReq == [kind |-> "none", chat |-> NoFile, path |-> NoFile, ignore |-> FALSE]

Init ==
    /\ sent = [k \in {"audio", "photo"} |-> {}]
    /\ photos = <<>>
    /\ req = [c \in Calls |-> NoReq]
    /\ pc = [c \in Calls |-> "idle"] /\ result = [c \in Calls |-> "none"]
    /\ delivered = [c \in Calls |-> 0] /\ before = [c \in Calls |-> {}]
    /\ forgotten = FALSE /\ crashes = 0

Answered(c, r) == pc' = [pc EXCEPT ![c] = "end"] /\ result' = [result EXCEPT ![c] = r]

(* Seeded bug: only photos are looked up.                                  *)
AlreadySentPhoto(r) == r.kind = "photo" /\ ~r.ignore /\ r.path \in sent[r.kind]

AlreadySent(r) == r.kind # "text" /\ ~r.ignore /\ r.path \in sent[r.kind]

(* The call begins: a path that was sent before is answered as sent,       *)
(* whichever chat it went to and whatever the path holds by now; else the  *)
(* request is made (with the parse mode first, for a text that has one).   *)
Begin(c) ==
    /\ pc[c] = "idle"
    /\ \E r \in Requests :
         /\ req' = [req EXCEPT ![c] = r]
         /\ before' = [before EXCEPT ![c] = {d \in Calls : result[d] = "ok"}]
         /\ IF AlreadySent(r) THEN Answered(c, "deduplicated")
            ELSE /\ pc' = [pc EXCEPT ![c] = IF r.kind = "text" /\ r.ignore THEN "parsed" ELSE "sending"]
                 /\ UNCHANGED result
    /\ UNCHANGED <<sent, photos, delivered, forgotten, crashes>>

Delivers(c) == delivered' = [delivered EXCEPT ![c] = @ + 1]

Mark(r) == IF r.kind = "text" THEN sent ELSE [sent EXCEPT ![r.kind] = @ \cup {r.path}]

LogPhoto(c) == IF req[c].kind = "photo" THEN Append(photos, [chat |-> req[c].chat, by |-> c]) ELSE photos

(* Seeded bug: a refused path is marked as sent.                           *)
AfterRefusalMarked(c) == Answered(c, "error") /\ sent' = Mark(req[c])

(* Telegram answers ok: false: nothing is marked.                          *)
AfterRefusal(c) == Answered(c, "error") /\ UNCHANGED sent

Succeeds(c) ==
    /\ pc[c] \in {"parsed", "sending"}
    /\ Delivers(c) /\ Answered(c, "ok")
    /\ sent' = Mark(req[c])
    /\ photos' = LogPhoto(c)
    /\ UNCHANGED <<req, before, forgotten, crashes>>

Refused(c) ==
    /\ pc[c] \in {"parsed", "sending"}
    /\ AfterRefusal(c)
    /\ UNCHANGED <<photos, req, delivered, before, forgotten, crashes>>

(* Telegram cannot parse the entities: the same text goes out plain.       *)
Unparsed(c) ==
    /\ pc[c] = "parsed"
    /\ pc' = [pc EXCEPT ![c] = "sending"]
    /\ UNCHANGED <<sent, photos, req, result, delivered, before, forgotten, crashes>>

(* Seeded bug: a text whose answer was lost goes out plain as well.        *)
AfterLostRetry(c) ==
    IF pc[c] = "parsed" THEN pc' = [pc EXCEPT ![c] = "sending"] /\ UNCHANGED result
    ELSE Answered(c, "error")

AfterLost(c) == Answered(c, "error")

(* The message arrived and its answer did not (fetch throws), or a photo   *)
(* came back without a message_id: the call reports an error, marks nothing.*)
AnswerLost(c) ==
    /\ pc[c] \in {"parsed", "sending"}
    /\ Delivers(c) /\ AfterLost(c)
    /\ UNCHANGED <<sent, photos, req, before, forgotten, crashes>>

Interrupt == pc' = [c \in Calls |-> IF pc[c] \in {"parsed", "sending"} THEN "end" ELSE pc[c]]

(* The daemon stops: with an upload that arrived or not, and with one of   *)
(* the two files half written, which reads as the empty set from then on.  *)
Crash ==
    /\ crashes < MaxCrashes /\ crashes' = crashes + 1
    /\ \E arrived \in SUBSET {c \in Calls : pc[c] \in {"parsed", "sending"}} :
         /\ delivered' = [c \in Calls |-> delivered[c] + IF c \in arrived THEN 1 ELSE 0]
         /\ \/ UNCHANGED <<sent, forgotten>>
            \/ \E c \in arrived : /\ req[c].kind # "text"
                                  /\ sent' = [sent EXCEPT ![req[c].kind] = {}]
                                  /\ forgotten' = TRUE
    /\ Interrupt
    /\ UNCHANGED <<photos, req, result, before>>

Next ==
    \/ \E c \in Calls : Begin(c) \/ Succeeds(c) \/ Refused(c) \/ Unparsed(c) \/ AnswerLost(c)
    \/ Crash

Spec == Init /\ [][Next]_vars

(***************************************************************************)
(* Properties                                                              *)
(***************************************************************************)
(* Every variable has its type.                                            *)
TypeOK ==
    /\ sent \in [{"audio", "photo"} -> SUBSET Paths]
    /\ \A i \in DOMAIN photos : photos[i] \in [chat : Chats, by : Calls]
    /\ \A c \in Calls : req[c] \in Requests \cup {NoReq}
    /\ pc \in [Calls -> {"idle", "parsed", "sending", "end"}]
    /\ result \in [Calls -> {"none", "ok", "deduplicated", "error"}]
    /\ delivered \in [Calls -> 0..2]
    /\ before \in [Calls -> SUBSET Calls] /\ forgotten \in BOOLEAN /\ crashes \in 0..MaxCrashes

(* A path whose sending was reported is not sent again by a call that      *)
(* began after the report and does not ask to ignore it, also across a     *)
(* restart, unless a torn file forgot it: only overlapping calls, and      *)
(* calls that failed after the upload, put a second copy in a chat.        *)
SentOnce ==
    \A c, d \in Calls :
        /\ d \in before[c] /\ delivered[c] > 0
        /\ req[c].kind # "text" /\ req[c].kind = req[d].kind /\ req[c].path = req[d].path
        => req[c].ignore \/ forgotten

(* A call puts at most one message in its chat, also when the parse mode   *)
(* failed and the text was tried again, or its answer was lost.            *)
OneMessageEach == \A c \in Calls : delivered[c] <= 1 /\ (result[c] = "ok" => delivered[c] = 1)

(* "Already sent" is said only of a path that some call really put in a    *)
(* chat (not always this one), and a photo is in the log once for the call *)
(* that sent it.                                                           *)
SaidSentWasSent ==
    /\ \A k \in {"audio", "photo"} : \A p \in sent[k] :
           \E d \in Calls : req[d].kind = k /\ req[d].path = p /\ result[d] = "ok" /\ delivered[d] > 0
    /\ \A c \in Calls :
           Cardinality({i \in DOMAIN photos : photos[i].by = c})
             = IF req[c].kind = "photo" /\ result[c] = "ok" THEN 1 ELSE 0
=============================================================================
