-------------------------- MODULE ChannelSettings --------------------------
(***************************************************************************)
(* CONF_CHANNELS: the Telegram settings, the settings of speech and the    *)
(* map of cloned voices are one JSON value that every writer reads,        *)
(* changes and writes whole.  The menus, /channels and /config are         *)
(* synchronous; "/channels token" and every action of VoiceClone but       *)
(* delete await a service in between, and most write back what they read   *)
(* before.  The other side of the map is the list of voices at the         *)
(* provider, which shows a voice only once it was used.                    *)
(*                                                                         *)
(* A voice is cloned under its alias as voice_id, and a remote one is      *)
(* adopted under its id, so the map is the set of its aliases.  The read   *)
(* and the write of a synchronous handler are one step.                    *)
(***************************************************************************)
EXTENDS Naturals, FiniteSets

CONSTANTS
    Calls,      \* awaiting operations of the daemon
    Aliases,    \* aliases of voices
    MaxSets,    \* settings changed by synchronous writers (bound)
    Fields,     \* the settings that synchronous writers change (bound)
    MaxBegins,  \* awaiting operations begun (bound)
    MaxRestarts \* restarts of the daemon (bound)

None == "none"
Kinds == {"token", "clone", "sync", "purge", "rename"}
NoCall == [kind |-> None, at |-> None, alias |-> None, new |-> None,
           default |-> FALSE, held |-> None, answer |-> None, listed |-> {}]

VARIABLES
    conf,       \* CONF_CHANNELS: telegram on, its token and chats, speech, voices, default
    poller,     \* the Telegram settings startChannels keeps in its closures
    remote,     \* voices at the provider
    used,       \* those of them that were spoken with once
    op,         \* the awaiting operations
    undoneBy,   \* history: the kinds of writers that put an older setting back
    raced,      \* history: something else was written while an operation awaited
    doubted,    \* history: voices whose deletion got lost half-way
    sets, begun, restarts

vars == <<conf, poller, remote, used, op, undoneBy, raced, doubted, sets, begun, restarts>>
history == <<undoneBy, raced, doubted>>

Settings == [on : BOOLEAN, token : {"t1", "t2"}, chats : {"all", "some"}, speech : {"mp3", "opus"}]
SettingsOf(c) == [on |-> c.on, token |-> c.token, chats |-> c.chats, speech |-> c.speech]
Telegram(c) == [on |-> c.on, token |-> c.token, chats |-> c.chats]
Active == {c \in Calls : op[c].kind # None}
Answered(c, at) == op[c].at = at /\ op[c].answer # None

\* Telegram that does not say whether it is enabled is so if it has a token
Normalized(raw) == [raw EXCEPT !.on = IF @ = {} THEN raw.token # None ELSE TRUE \in @]

Init == /\ conf = Normalized([on |-> {}, token |-> "t1", chats |-> "all", speech |-> "mp3",
                              voices |-> {}, default |-> None])
        /\ poller = Telegram(conf)
        /\ remote = {} /\ used = {}
        /\ op = [c \in Calls |-> NoCall]
        /\ undoneBy = {} /\ raced = FALSE /\ doubted = {}
        /\ sets = 0 /\ begun = 0 /\ restarts = 0

\* writeChannelsConfig(new) by a writer that was asked for these settings
Writes(kind, new, asked) ==
    /\ conf' = new
    /\ undoneBy' = IF SettingsOf(new) = asked THEN undoneBy ELSE undoneBy \cup {kind}

\* Seeded bug: the alias goes, the default that names it stays.
WithoutAlias(old, a) == [old EXCEPT !.voices = @ \ {a}]

\* The alias and, with it, a default that names it
Without(old, a) == [old EXCEPT !.voices = @ \ {a}, !.default = IF @ = a THEN None ELSE @]

(***************************************************************************)
(* Writers that await nothing                                              *)
(***************************************************************************)
SetsOne(field, value) ==
    /\ sets < MaxSets /\ conf[field] # value
    /\ Writes("set", [conf EXCEPT ![field] = value], [SettingsOf(conf) EXCEPT ![field] = value])
    /\ sets' = sets + 1
    /\ raced' = (raced \/ Active # {})
    /\ UNCHANGED <<poller, remote, used, op, doubted, begun, restarts>>

SetsAny(fields) == \E f \in fields \cap Fields : \E v \in {s[f] : s \in Settings} : SetsOne(f, v)

\* /channels on, off, chats and clear; the menu of the command line; its buttons
\* in a chat; /config set tts_...
ChannelsCommand == SetsAny({"on", "chats"})
ChannelMenu == SetsAny({"on", "token", "chats"})
HandleChannelsCallback == SetsAny({"on", "chats"})
ConfigSet == SetsAny({"speech"})

\* The names under which tool_manage_config may be asked for a setting
Field == [on |-> "on", token |-> "token", bot_token |-> "token", chats |-> "chats",
          chatId |-> "chats", authorized_chats |-> "chats", speech |-> "speech"]

\* Two names of one setting may not disagree; chatId is turned into chats before
ValidForWrite(path, value) ==
    path \in {"bot_token", "authorized_chats"} => value = conf[Field[path]]

ManageConfigSet ==
    \E p \in DOMAIN Field :
       /\ Field[p] \in Fields
       /\ \E v \in {s[Field[p]] : s \in Settings} : ValidForWrite(p, v) /\ SetsOne(Field[p], v)

Sets == ChannelsCommand \/ ChannelMenu \/ HandleChannelsCallback \/ ConfigSet \/ ManageConfigSet

\* A token typed to the bot is saved, and the channels are started again
TypedToken ==
    /\ sets < MaxSets /\ conf.token # "t2"
    /\ LET new == [conf EXCEPT !.on = TRUE, !.token = "t2"]
       IN /\ Writes("typed", new, [SettingsOf(conf) EXCEPT !.token = "t2", !.on = TRUE])
          /\ poller' = Telegram(new)
    /\ sets' = sets + 1
    /\ raced' = (raced \/ Active # {})
    /\ UNCHANGED <<remote, used, op, doubted, begun, restarts>>

\* Chat ids typed to the bot: the rest of the Telegram settings is the poller's
\* own copy; the channels are then started again
TypedChats(value) ==
    /\ sets < MaxSets
    /\ LET new == [conf EXCEPT !.on = poller.on, !.token = poller.token, !.chats = value]
       IN /\ Writes("typed", new, [SettingsOf(conf) EXCEPT !.chats = value])
          /\ poller' = Telegram(new)
    /\ sets' = sets + 1
    /\ raced' = (raced \/ Active # {})
    /\ UNCHANGED <<remote, used, op, doubted, begun, restarts>>

\* reloadChannels
Reloads == /\ poller # Telegram(conf)
           /\ poller' = Telegram(conf)
           /\ UNCHANGED <<conf, remote, used, op, history, sets, begun, restarts>>

\* VoiceClone delete: the local alias only
Deletes(a) ==
    /\ a \in conf.voices
    /\ Writes("delete", Without(conf, a), SettingsOf(conf))
    /\ raced' = (raced \/ Active # {})
    /\ UNCHANGED <<poller, remote, used, op, doubted, sets, begun, restarts>>

\* Seeded bug: a voice the provider no longer has counts as one it lists.
SpeaksUnasked(a) == /\ a \in conf.voices
                    /\ used' = used \cup {a}
                    /\ UNCHANGED <<conf, poller, remote, op, history, sets, begun, restarts>>

\* GenerateSpeech with a cloned voice
Speaks(a) == /\ a \in conf.voices \cap remote
             /\ used' = used \cup {a}
             /\ UNCHANGED <<conf, poller, remote, op, history, sets, begun, restarts>>

(***************************************************************************)
(* Operations that await a service                                         *)
(***************************************************************************)
\* An operation reads the configuration, and does nothing without a key of its
\* provider
Begin(c, kind, a, n, d) ==
    /\ op[c].kind = None /\ begun < MaxBegins
    /\ begun' = begun + 1
    /\ op' = [op EXCEPT ![c] = [NoCall EXCEPT
                 !.kind = kind, !.alias = a, !.new = n, !.default = d, !.held = conf,
                 !.at = IF kind \in {"token", "clone", "sync"} THEN kind ELSE "delete"]]
    /\ raced' = (raced \/ Active # {})
    /\ UNCHANGED <<conf, poller, remote, used, undoneBy, doubted, sets, restarts>>

\* A new voice needs an alias that is not taken, a renamed one an alias of its own
BeginsClone(c) == \E a \in Aliases \ conf.voices, d \in BOOLEAN : Begin(c, "clone", a, a, d)
BeginsRename(c) == \E a \in conf.voices, n \in Aliases : Begin(c, "rename", a, n, FALSE)

Begins(c) ==
    \/ Begin(c, "token", None, None, FALSE)
    \/ Begin(c, "sync", None, None, FALSE)
    \/ \E a \in Aliases : Begin(c, "purge", a, None, FALSE)
    \/ BeginsClone(c) \/ BeginsRename(c)

Answers(c, answer) == op' = [op EXCEPT ![c].answer = answer]

\* validateTelegramToken asks getMe
GetMe(c) ==
    /\ op[c].at = "token"
    /\ \E r \in {"ok", "refused"} : Answers(c, r)
    /\ UNCHANGED <<remote, used>>

\* files/upload and voice_clone. An answer that does not come in time leaves open
\* whether the request was served
VoiceClone(c) ==
    /\ op[c].at = "clone"
    /\ \/ /\ Answers(c, IF op[c].new \in remote THEN "duplicate" ELSE "ok")
          /\ remote' = remote \cup {op[c].new}
       \/ /\ Answers(c, "refused")
          /\ \/ remote' = remote
             \/ remote' = remote \cup {op[c].new}
    /\ UNCHANGED used

\* get_voice lists the voices that were used
GetVoice(c) ==
    /\ op[c].at = "sync"
    /\ \/ op' = [op EXCEPT ![c].answer = "ok", ![c].listed = used]
       \/ Answers(c, "refused")
    /\ UNCHANGED <<remote, used>>

Gone(a) == remote' = remote \ {a} /\ used' = used \ {a}

DeleteVoice(c) ==
    LET a == op[c].alias IN
    /\ op[c].at = "delete"
    /\ \/ Answers(c, IF a \in remote THEN "ok" ELSE "refused") /\ Gone(a)
       \/ Answers(c, "lost") /\ (Gone(a) \/ UNCHANGED <<remote, used>>)

Service(c) ==
    /\ op[c].answer = None
    /\ GetMe(c) \/ VoiceClone(c) \/ GetVoice(c) \/ DeleteVoice(c)
    /\ UNCHANGED <<conf, poller, history, sets, begun, restarts>>

Ends(c) == op' = [op EXCEPT ![c] = NoCall]

\* /channels token: the whole configuration as it was before getMe
TokenSaves(c) ==
    /\ Answered(c, "token")
    /\ IF op[c].answer = "ok"
       THEN Writes("token", [op[c].held EXCEPT !.token = "t2", !.on = TRUE],
                            [SettingsOf(conf) EXCEPT !.token = "t2", !.on = TRUE])
       ELSE UNCHANGED <<conf, undoneBy>>
    /\ Ends(c)
    /\ UNCHANGED <<raced, doubted>>

\* Seeded bug: the clone writes back the configuration it began with.
CloneBase(c) == op[c].held

\* runCloneFlow reads the configuration again before it saves
CloneReads(c) == conf

\* A voice the provider has under that name is adopted like a new one
CloneSaved(c) ==
    /\ Writes("clone", [CloneReads(c) EXCEPT !.voices = @ \cup {op[c].new},
                            !.default = IF op[c].default THEN op[c].new ELSE @], SettingsOf(conf))
    /\ doubted' = doubted \ {op[c].new}

CloneSaves(c) ==
    /\ Answered(c, "clone")
    /\ IF op[c].answer # "refused" THEN CloneSaved(c) ELSE UNCHANGED <<conf, undoneBy, doubted>>
    /\ Ends(c)
    /\ UNCHANGED raced

\* What is only at the provider is adopted, what is only here goes
Synchronized(old, listed) ==
    [old EXCEPT !.voices = listed, !.default = IF @ \in listed THEN @ ELSE None]

\* list_remote; sync does the same and answers otherwise
ListRemoteSaves(c) ==
    LET o == op[c] IN
    /\ Answered(c, "sync")
    /\ IF o.answer = "ok" /\ o.listed # o.held.voices
       THEN Writes("sync", Synchronized(o.held, o.listed), SettingsOf(conf))
       ELSE UNCHANGED <<conf, undoneBy>>
    /\ doubted' = IF o.answer = "ok" THEN {} ELSE doubted
    /\ Ends(c)
    /\ UNCHANGED raced

SyncSaves(c) == ListRemoteSaves(c)

\* Seeded bug: the alias goes only when the provider confirmed.
PurgesConfirmed(c) == op[c].answer = "ok"

\* purge forgets the alias whatever the provider said
PurgesLocally(c) == TRUE

PurgeSaves(c) ==
    /\ Answered(c, "delete") /\ op[c].kind = "purge"
    /\ IF PurgesLocally(c)
       THEN Writes("purge", Without(op[c].held, op[c].alias), SettingsOf(conf))
       ELSE UNCHANGED <<conf, undoneBy>>
    /\ Ends(c)
    /\ UNCHANGED <<raced, doubted>>

\* rename: an answer that never came leaves the old alias; then the clone
RenameForgets(c) ==
    /\ Answered(c, "delete") /\ op[c].kind = "rename"
    /\ IF op[c].answer # "lost"
       THEN /\ Writes("rename", Without(op[c].held, op[c].alias), SettingsOf(conf))
            /\ UNCHANGED doubted
       ELSE /\ doubted' = doubted \cup {op[c].alias}
            /\ UNCHANGED <<conf, undoneBy>>
    /\ op' = [op EXCEPT ![c].at = "clone", ![c].answer = None]
    /\ UNCHANGED raced

Continues(c) ==
    /\ \/ TokenSaves(c) \/ CloneSaves(c) \/ ListRemoteSaves(c) \/ SyncSaves(c)
       \/ PurgeSaves(c) \/ RenameForgets(c)
    /\ UNCHANGED <<poller, remote, used, sets, begun, restarts>>

\* The daemon restarts: what awaited is gone, the channels are started again
Restarts ==
    /\ restarts < MaxRestarts
    /\ restarts' = restarts + 1
    /\ doubted' = doubted \cup {op[c].alias : c \in {d \in Calls : Answered(d, "delete")}}
    /\ op' = [c \in Calls |-> NoCall]
    /\ poller' = Telegram(conf)
    /\ UNCHANGED <<conf, remote, used, undoneBy, raced, sets, begun>>

Next ==
    \/ Sets \/ TypedToken \/ Reloads \/ Restarts
    \/ \E v \in {"all", "some"} : TypedChats(v)
    \/ \E a \in Aliases : Deletes(a) \/ Speaks(a)
    \/ \E c \in Calls : Begins(c) \/ Service(c) \/ Continues(c)

Spec == Init /\ [][Next]_vars

(***************************************************************************)
(* Properties                                                              *)
(***************************************************************************)
\* The settings, the voices and the operations are of their kinds.
TypeOK ==
    /\ SettingsOf(conf) \in Settings
    /\ conf.voices \subseteq Aliases /\ conf.default \in Aliases \cup {None}
    /\ used \subseteq remote /\ remote \subseteq Aliases
    /\ undoneBy \subseteq Kinds \cup {"set", "typed", "delete"}
    /\ raced \in BOOLEAN /\ doubted \subseteq Aliases

\* The default cloned voice, which voice mode speaks with, is one of the
\* cloned voices, whatever was cloned, renamed, purged, pruned or put back.
DefaultIsCloned == conf.default # None => conf.default \in conf.voices

\* While no operation overlapped another writer, a local voice is one the
\* provider has, unless its deletion got lost in a rename or a restart: purge
\* forgets the alias even when the provider's answer does not come.
ClonedExist ==
    raced \/ \A a \in conf.voices :
                \/ a \in remote \/ a \in doubted
                \/ \E c \in Calls : Answered(c, "delete") /\ op[c].alias = a

\* A setting is put back to an older value only by the operations that write
\* what they read before an await, and by chat ids typed to a bot whose
\* settings were changed since it started; a clone, which reads again, never.
PutBackByTheStale ==
    undoneBy \subseteq (IF raced THEN {"token", "sync", "purge", "rename"} ELSE {}) \cup {"typed"}

\* What /channels, its menus and /config say they saved stays until it is
\* changed again.
SettingsStay == undoneBy = {}
=============================================================================
