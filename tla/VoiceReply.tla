----------------------------- MODULE VoiceReply -----------------------------
(***************************************************************************)
(* The voice mode of a session: a turn asks the model whether the user       *)
(* wants it on or off, and while it is on the answer is turned into speech   *)
(* and sent to the chat or played; only when that fails it is a text.       *)
(*                                                                         *)
(* The runtime keeps ONE player process for all sessions. A player that is  *)
(* killed ends later, and a player that ends tells the runtime later. What  *)
(* the model and the tools GenerateSpeech and TelegramSendVoice answer is    *)
(* external.                                                               *)
(***************************************************************************)
EXTENDS Naturals

CONSTANTS
  Sessions,
  MaxPlays      \* players started (bound)

Players == 1 .. MaxPlays
NoPlayer == 0
Sources == {"telegram", "chatless", "terminal"}  \* what a message comes from;
                                                 \* "chatless": its chat is not known

VARIABLES
  voiceMode,    \* of a session: voice_mode of its meta.json
  pc,           \* of its turn: "idle", "intent", "model", "speech", "send",
                \* "player", "record" or "text"
  source,       \* of the message of the turn
  said,         \* how its answer was given: {}, {"voice"}, {"text"} or both
  made,         \* whether the answer was made into speech
  unrecorded,   \* history: sessions whose turn could not append the answer
  active,       \* activeAudioProcess
  player        \* of a player: "none", "plays", "killed" or "over"

turn == <<voiceMode, pc, source, said, made, unrecorded>>
vars == <<turn, active, player>>

Init ==
  /\ voiceMode = [s \in Sessions |-> FALSE]
  /\ pc = [s \in Sessions |-> "idle"]
  /\ source = [s \in Sessions |-> "terminal"]
  /\ said = [s \in Sessions |-> {"text"}]   \* no answer is owed
  /\ made = [s \in Sessions |-> FALSE]
  /\ unrecorded = {}
  /\ active = NoPlayer
  /\ player = [p \in Players |-> "none"]

To(s, where) == pc' = [pc EXCEPT ![s] = where]
Says(s, how) == said' = [said EXCEPT ![s] = @ \cup {how}]

-----------------------------------------------------------------------------
(* The turn.                                                               *)

Begin(s, from) ==
  /\ pc[s] = "idle"
  /\ To(s, "intent")
  /\ source' = [source EXCEPT ![s] = from]
  /\ said' = [said EXCEPT ![s] = {}]
  /\ made' = [made EXCEPT ![s] = FALSE]
  /\ unrecorded' = unrecorded \ {s}
  /\ UNCHANGED <<voiceMode, active, player>>

(* detectVoiceModeIntent: any answer may come, and what fails is "none".      *)
Intents == {"on", "off", "none"}

(* An intent that changes the mode is the whole turn, confirmed by a text.  *)
Intent(s) ==
  /\ pc[s] = "intent"
  /\ \E intent \in Intents :
       LET wanted == IF voiceMode[s] THEN "off" ELSE "on"
       IN IF intent = wanted
          THEN /\ voiceMode' = [voiceMode EXCEPT ![s] = ~@]
               /\ Says(s, "text")
               /\ To(s, "idle")
          ELSE To(s, "model") /\ UNCHANGED <<voiceMode, said>>
  /\ UNCHANGED <<source, made, unrecorded, active, player>>

(* The answer is spoken if it has a text that is not about the mode.        *)
Model(s) ==
  /\ pc[s] = "model"
  /\ \/ voiceMode[s] /\ To(s, "speech")
     \/ To(s, "text")
  /\ UNCHANGED <<voiceMode, source, said, made, unrecorded, active, player>>

(* Seeded bug: speech that could not be made counts as given. *)
SpeechOrNothing(s) ==
  /\ pc[s] = "speech"
  /\ \/ /\ made' = [made EXCEPT ![s] = TRUE]
        /\ To(s, IF source[s] = "terminal" THEN "player" ELSE "send")
     \/ To(s, "record") /\ UNCHANGED made
  /\ UNCHANGED <<voiceMode, source, said, unrecorded, active, player>>

(* GenerateSpeech answers with a file, with an error, or throws.            *)
GenerateSpeech(s) ==
  /\ pc[s] = "speech"
  /\ \/ /\ made' = [made EXCEPT ![s] = TRUE]
        /\ To(s, IF source[s] = "terminal" THEN "player" ELSE "send")
     \/ To(s, "text") /\ UNCHANGED made
  /\ UNCHANGED <<voiceMode, source, said, unrecorded, active, player>>

(* What TelegramSendVoice answers is not looked at, and without a chat it is  *)
(* not called: only when it throws the answer becomes a text.               *)
SendVoice(s) ==
  /\ pc[s] = "send"
  /\ \/ source[s] = "telegram" /\ Says(s, "voice") /\ To(s, "record")
     \/ To(s, "record") /\ UNCHANGED said
     \/ source[s] = "telegram" /\ To(s, "text") /\ UNCHANGED said
  /\ UNCHANGED <<voiceMode, source, made, unrecorded, active, player>>

(* The player that is active is killed and a new one takes its place, in one  *)
(* step. A program that cannot be started never plays.                     *)
Spawn(p) ==
  /\ player[p] = "none" /\ (p > 1 => player[p - 1] # "none")
  /\ active' = p
  /\ \E s \in {"plays", "over"} :
       player' = [q \in Players |-> CASE q = p -> s
                                      [] q = active /\ player[q] = "plays" -> "killed"
                                      [] OTHER -> player[q]]

(* findAudioPlayer: one of the players, or none.                           *)
FindsPlayer == BOOLEAN

Play(s) ==
  /\ pc[s] = "player"
  /\ To(s, "record")
  /\ \E found \in FindsPlayer :
       IF found THEN (\E p \in Players : Spawn(p)) /\ Says(s, "voice")
       ELSE UNCHANGED <<said, active, player>>
  /\ UNCHANGED <<voiceMode, source, made, unrecorded>>

(* Seeded bug: a spoken answer is given as a text as well. *)
RecordAndSay(s) ==
  /\ pc[s] = "record"
  /\ To(s, "text")
  /\ UNCHANGED <<voiceMode, source, said, made, unrecorded, active, player>>

(* The answer is appended; when that throws it becomes a text.              *)
Record(s) ==
  /\ pc[s] = "record"
  /\ \/ To(s, "idle") /\ UNCHANGED unrecorded
     \/ To(s, "text") /\ unrecorded' = unrecorded \cup {s}
  /\ UNCHANGED <<voiceMode, source, said, made, active, player>>

(* The answer is given as a text, or there is none (TurnReply).             *)
Text(s) ==
  /\ pc[s] = "text"
  /\ To(s, "idle")
  /\ Says(s, "text")
  /\ UNCHANGED <<voiceMode, source, made, unrecorded, active, player>>

-----------------------------------------------------------------------------
(* The players.                                                            *)

(* A player comes to its end, or the signal reaches it.                     *)
Ends(p) == player[p] \in {"plays", "killed"} /\ player' = [player EXCEPT ![p] = "over"]

(* Seeded bug: whichever player ends, none is active. *)
ForgetsAny(p) == NoPlayer

(* The player is forgotten if it is still the active one.                   *)
Forgets(p) == IF active = p THEN NoPlayer ELSE active

Exit(p) ==
  /\ Ends(p)
  /\ active' = Forgets(p)
  /\ UNCHANGED turn

Goes(s) ==
  \/ Intent(s) \/ Model(s) \/ GenerateSpeech(s) \/ SendVoice(s)
  \/ Play(s) \/ Record(s) \/ Text(s)

Next ==
  \/ \E s \in Sessions, from \in Sources : Begin(s, from)
  \/ \E s \in Sessions : Goes(s)
  \/ \E p \in Players : Exit(p)

Spec == Init /\ [][Next]_vars

-----------------------------------------------------------------------------
(* The types. *)
TypeOK ==
  /\ voiceMode \in [Sessions -> BOOLEAN]
  /\ pc \in [Sessions -> {"idle", "intent", "model", "speech", "send", "player", "record", "text"}]
  /\ source \in [Sessions -> Sources]
  /\ said \in [Sessions -> SUBSET {"voice", "text"}]
  /\ active \in Players \cup {NoPlayer}
  /\ player \in [Players -> {"none", "plays", "killed", "over"}]

(* Two answers never sound at once, whichever sessions they are of and       *)
(* however late the player that was killed reports its end.                 *)
OnePlays == \A p, q \in Players : player[p] = "plays" /\ player[q] = "plays" => p = q

(* An answer is not given twice, unless it could not be appended.           *)
SaidOnce == \A s \in Sessions : {"voice", "text"} \subseteq said[s] => s \in unrecorded

(* An answer that could not be made into speech is read.                    *)
ReadAtLeast == \A s \in Sessions : pc[s] = "idle" /\ said[s] = {} => made[s]

(* "Returns true if the voice was processed (do not deliver text)"            *)
(* (runtime.ts:3932). Not so on Telegram: an answer whose voice message was   *)
(* not sent is neither heard nor read.                                      *)
HeardOrRead == \A s \in Sessions : pc[s] = "record" => said[s] # {}
=============================================================================
