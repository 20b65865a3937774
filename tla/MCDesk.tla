------------------------------- MODULE MCDesk -------------------------------
(***************************************************************************)
(* The command line and the settings it and the tools change, checked one  *)
(* at a time: "part" names the component of a behaviour.                   *)
(***************************************************************************)
EXTENDS Naturals, Sequences, FiniteSets

CONSTANTS
    Parts,            \* the components that are checked
    Menus,            \* command lines with a /model menu
    EnvFile,          \* whether .env configures a model
    MaxProfiles,      \* profiles created (bound)
    MaxAwaits,        \* awaits of a menu, and edits of the profiles (bound)
    MaxLines,         \* lines and turns of others at a session (bound)
    MaxOthers,        \* turns of others (bound)
    MaxPrompts,       \* permission requests (bound)
    MaxDrops,         \* lost connections (bound)
    MaxEvents,        \* all of these together (bound)
    SubMenus,         \* the menus beside the master dashboard
    Calls,            \* operations on voices and tokens that await
    Aliases,          \* aliases of voices
    MaxSets,          \* settings changed without an await (bound)
    Fields,           \* those that are changed so (bound)
    MaxBegins,        \* operations begun (bound)
    MaxRestarts       \* restarts of the daemon (bound)

\* The daemon is no command line, and bounds are numbers.
ASSUME ModelAssumption ==
    "daemon" \notin Menus /\ MaxProfiles \in Nat /\ MaxAwaits \in Nat
ASSUME DeskAssumption == {MaxLines, MaxOthers, MaxPrompts, MaxDrops} \subseteq Nat

VARIABLES
    part,   \* the component of this behaviour
    registry, system, env, menu, awaits, modelOp, created, confirmed, edited,
    skewed,
    connected, busy, streaming, prompt, queued, menus, ephemeral, kind, pc,
    waiter, over, turn, replied, queue, pending, typed, others, asked, drops,
    ended, crossed,
    conf, poller, remote, used, channelsOp, undoneBy, raced, doubted, sets,
    begun, restarts

Model == INSTANCE ModelSettings WITH
    op <- modelOp
Desk == INSTANCE Desk
Channels == INSTANCE ChannelSettings WITH
    op <- channelsOp

modelVars == <<registry, system, env, menu, awaits, modelOp, created,
               confirmed, edited, skewed>>
deskVars == <<connected, busy, streaming, prompt, queued, menus, ephemeral,
              kind, pc, waiter, over, turn, replied, queue, pending, typed,
              others, asked, drops, ended, crossed>>
channelsVars == <<conf, poller, remote, used, channelsOp, undoneBy, raced,
                  doubted, sets, begun, restarts>>
vars == <<part, modelVars, deskVars, channelsVars>>

\* What a component may start in differently matters only when it runs.
Init ==
    /\ part \in Parts
    /\ Model!Init
    /\ Desk!Init /\ (part # "desk" => menus = {})
    /\ Channels!Init

\* A step of one component: the others stay as they are.
Only(p) ==
    /\ part = p /\ UNCHANGED part
    /\ IF p = "model" THEN TRUE ELSE UNCHANGED modelVars
    /\ IF p = "desk" THEN TRUE ELSE UNCHANGED deskVars
    /\ IF p = "channels" THEN TRUE ELSE UNCHANGED channelsVars

Next ==
    \/ Only("model") /\ Model!Next
    \/ Only("desk") /\ Desk!Next
    \/ Only("channels") /\ Channels!Next

\* What goes on by itself, in each component as in its own Spec.
GoesOn ==
    \/ Only("desk") /\ Desk!Progress

Spec == Init /\ [][Next]_vars /\ WF_vars(GoesOn)

-----------------------------------------------------------------------------
\* Every variable of every component has its type.
TypesOK == Model!TypeOK /\ Desk!TypeOK /\ Channels!TypeOK

\* One profile of the model registry is active, unless an edit of CONF_MODELS
\* was itself ill-formed (modelRegistry.ts).
OneActive == Model!OneActive

\* The provider in the environment is that of the profile or setting it came
\* from.
ProviderMatches == Model!ProviderMatches

\* A profile goes only after the user confirmed it or when an edit of
\* CONF_MODELS left it out (modelMenu.ts).
OnlyConfirmedGo == Model!OnlyConfirmedGo

\* A wait for a turn ends well only after the turn of its own line
\* (waitForTurnCompletion).
WaitsForOwn == Desk!WaitsForOwn

\* Between turns nothing is left of a text that streamed.
NothingStreams == Desk!NothingStreams

\* A busy command line becomes free again, or has lost its connection.
BusyEnds == Desk!BusyEnds

\* The default cloned voice is one of the cloned voices (VoiceClone).
DefaultIsCloned == Channels!DefaultIsCloned

\* A local voice is one the provider has, unless operations overlapped.
ClonedExist == Channels!ClonedExist

\* Only the operations that write what they read before an await put older
\* settings back.
PutBackByTheStale == Channels!PutBackByTheStale

\* What /channels and its menus say they saved stays until it is changed
\* again.
SettingsStay == Channels!SettingsStay

\* A line that was queued for later is kept until the turn ends (session.ts).
QueuedIsKept == Desk!QueuedIsKept

\* A start with a configuration leaves it as it is (modelConfig.ts).
BootstrapsOnce == Model!BootstrapsOnce

\* The settings many processes write keep their shape, only known writers put
\* old ones back, and the command line waits for its own turns; and every
\* variable has its type.
SettingsAndDeskHold ==
    /\ TypesOK
    /\ OneActive
    /\ ProviderMatches
    /\ DefaultIsCloned
    /\ ClonedExist
    /\ PutBackByTheStale
    /\ WaitsForOwn
    /\ NothingStreams

\* Profiles go only when their deletion was confirmed or an edit of the
\* settings left them out, and a busy command line becomes free.
DeskGoesOn ==
    /\ OnlyConfirmedGo
    /\ BusyEnds
=============================================================================
