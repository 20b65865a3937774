--------------------------- MODULE ModelSettings ---------------------------
(***************************************************************************)
(* Which model answers: the registry of profiles (CONF_MODELS), the older  *)
(* settings (CONF_SYSTEM), the environment the daemon derives from both,   *)
(* and the interactive /model menu of the command line.                    *)
(*                                                                         *)
(* The menu runs in the process of each command line and writes the same   *)
(* file as the daemon.  Within a process an operation is synchronous, but  *)
(* it reads the registry, changes the copy and writes it whole: the        *)
(* operations of two processes interleave between the two.  Where the menu *)
(* awaits a provider, its own input goes on too, and the late result then  *)
(* sets the step.                                                          *)
(***************************************************************************)
EXTENDS Naturals, Sequences, SequencesExt, FiniteSets

CONSTANTS
    Menus,          \* command lines
    EnvFile,        \* whether .env holds a usable model configuration
    MaxProfiles,    \* profiles ever created (bound)
    MaxAwaits       \* awaits of one menu at a time, and edits of the list by the
                    \* assistant (bound on both together)

Daemon == "daemon"
Procs == Menus \cup {Daemon}
Steps == {"closed", "main", "select", "addProvider", "addBaseUrl", "addApiKey",
          "addModelPick", "addModel", "addName", "editPick", "editField",
          "editValue", "deletePick", "deleteConfirm", "xaiCode"}
Providers == {"plain", "ollama", "minimax", "xai"}
Ids == 1..MaxProfiles
Idle == [kind |-> "none", arg |-> 0, held |-> <<>>, read |-> FALSE]
Closed == [step |-> "closed", target |-> 0, provider |-> "plain"]

VARIABLES
    registry,   \* CONF_MODELS: a sequence of [id, active]
    system,     \* whose CONF_SYSTEM is: "user" (as it was set or reset) or "env" (.env)
    env,        \* process.env of the daemon: whose values, and whether
                \* MONOLITO_ACTIVE_PROVIDER is set
    menu,       \* MenuState of each command line
    awaits,     \* the steps the awaited handlers of each menu will set
    op,         \* the operation each process is at, with the registry it read
    created,    \* profiles created
    confirmed,  \* history: the profile whose deletion the user of each process has
                \* confirmed and that was not dealt with yet, 0: none
    edited,     \* edits of the list by the assistant
    skewed      \* history: one of them left an ill-formed registry

vars == <<registry, system, env, menu, awaits, op, created, confirmed, edited, skewed>>
edits == <<edited, skewed>>
store == <<registry, system, created, edits>>

IdsOf(r) == {r[i].id : i \in DOMAIN r}
\* findIndex: the first, when an edit gave two profiles one id
IndexOf(r, id) == CHOOSE i \in DOMAIN r : r[i].id = id /\ \A j \in DOMAIN r : r[j].id = id => i <= j
OnlyActive(r, id) == [i \in DOMAIN r |-> [r[i] EXCEPT !.active = r[i].id = id]]
Actives(r) == {i \in DOMAIN r : r[i].active}
WellFormed(r) ==
    /\ \A i, j \in DOMAIN r : r[i].id = r[j].id => i = j
    /\ r # <<>> => \E k \in DOMAIN r : Actives(r) = {k}

\* getActiveProfile: the active one, otherwise the first, otherwise none
ActiveId(r) == CASE r = <<>> -> 0
                 [] Actives(r) # {} -> r[CHOOSE i \in Actives(r) : \A j \in Actives(r) : i <= j].id
                 [] OTHER -> r[1].id

Init == /\ registry = <<>> /\ system = "user"
        /\ env = [of |-> "settings", provider |-> FALSE]
        /\ menu = [m \in Menus |-> Closed]
        /\ awaits = [m \in Menus |-> <<>>]
        /\ op = [p \in Procs |-> Idle]
        /\ created = 0 /\ confirmed = [p \in Procs |-> 0]
        /\ edited = 0 /\ skewed = FALSE

(***************************************************************************)
(* modelRegistry: what each operation writes, of the registry it read      *)
(***************************************************************************)
\* addProfile: the first profile is active
Added(r, id) == Append(r, [id |-> id, active |-> r = <<>>])

\* Seeded bug: the profile that was active leaves nobody in its place.
RemovedOnly(r, id) == RemoveAt(r, IndexOf(r, id))

\* deleteProfile: when the active one goes, the first that is left is active
Removed(r, id) ==
    LET at == IndexOf(r, id)
        rest == RemoveAt(r, at)
    IN IF r[at].active
       THEN [i \in DOMAIN rest |-> [rest[i] EXCEPT !.active = @ \/ i = 1]]
       ELSE rest

\* addOllamaDiscoveredModels: active only when nothing else is
Discovered(r, id) == Append(r, [id |-> id, active |-> Actives(r) = {}])

Starts(p, kind, arg) == op' = [op EXCEPT ![p] = [Idle EXCEPT !.kind = kind, !.arg = arg]]
Ends(p) == op' = [op EXCEPT ![p] = Idle]

\* readRegistry
Reads(p) ==
    /\ op[p].kind # "none" /\ ~op[p].read
    /\ op' = [op EXCEPT ![p].held = registry, ![p].read = TRUE]
    /\ UNCHANGED <<store, env, menu, awaits, confirmed>>

\* saveRegistry: the whole file
Save(r) == registry' = r
Done(p) == confirmed' = [confirmed EXCEPT ![p] = 0]

\* loadAndApplyModelSettings: the active profile, otherwise the settings
Applied(r) == IF r = <<>> THEN [of |-> "settings", provider |-> FALSE]
              ELSE [of |-> "profile", provider |-> TRUE]
\* what the operation's process does to its own environment
AppliesIn(p, r) == env' = IF p = Daemon THEN Applied(r) ELSE env

\* addProfile; the menu then looks for the new profile and activates it
SaveAdded(p) ==
    /\ op[p].kind \in {"add", "bootstrap"} /\ op[p].read
    /\ created < MaxProfiles
    /\ LET id == created + 1 IN
       /\ op[p].kind = "bootstrap" => op[p].held = <<>>
       /\ Save(Added(op[p].held, id))
       /\ created' = id
       /\ IF op[p].kind = "add" THEN Starts(p, "find", id) ELSE Ends(p)
    /\ UNCHANGED <<system, env, menu, awaits, confirmed, edits>>

\* bootstrapConfigFromEnv: there are profiles already
SkipAdded(p) ==
    /\ op[p].kind = "bootstrap" /\ op[p].read /\ op[p].held # <<>>
    /\ Ends(p)
    /\ UNCHANGED <<store, env, menu, awaits, confirmed>>

\* listProfiles().findIndex
Find(p) ==
    /\ op[p].kind = "find" /\ op[p].read
    /\ IF op[p].arg \in IdsOf(op[p].held)
       THEN Starts(p, "activateAt", IndexOf(op[p].held, op[p].arg)) ELSE Ends(p)
    /\ UNCHANGED <<store, env, menu, awaits, confirmed>>

\* the profile an operation is about, 0: not there (it throws)
TargetOf(o) ==
    IF o.kind = "activateAt" THEN IF o.arg \in DOMAIN o.held THEN o.held[o.arg].id ELSE 0
    ELSE IF o.arg \in IdsOf(o.held) THEN o.arg ELSE 0

\* activateProfile, activateProfileByIndex
SaveActivated(p) ==
    /\ op[p].kind \in {"activate", "activateAt"} /\ op[p].read
    /\ TargetOf(op[p]) # 0
    /\ Save(OnlyActive(op[p].held, TargetOf(op[p])))
    /\ AppliesIn(p, registry')
    /\ Ends(p)
    /\ UNCHANGED <<system, created, menu, awaits, confirmed, edits>>

\* updateProfile (a field of one profile: what the model keeps is the same);
\* /think leaves the environment to the next turn
SaveUpdated(p) ==
    /\ op[p].kind = "update" /\ op[p].read
    /\ TargetOf(op[p]) # 0
    /\ Save(op[p].held)
    /\ AppliesIn(p, registry') \/ UNCHANGED env
    /\ Ends(p)
    /\ UNCHANGED <<system, created, menu, awaits, confirmed, edits>>

\* deleteProfile
SaveRemoved(p) ==
    /\ op[p].kind = "delete" /\ op[p].read
    /\ TargetOf(op[p]) # 0
    /\ Save(Removed(op[p].held, op[p].arg))
    /\ Ends(p) /\ Done(p)
    /\ UNCHANGED <<system, created, env, menu, awaits, edits>>

\* addOllamaDiscoveredModels, of a model that is not a profile yet
SaveDiscovered(p) ==
    /\ op[p].kind = "discover" /\ op[p].read /\ created < MaxProfiles
    /\ Save(Discovered(op[p].held, created + 1))
    /\ created' = created + 1
    /\ Ends(p)
    /\ UNCHANGED <<system, env, menu, awaits, confirmed, edits>>

\* "set" and "write" of CONF_MODELS by the assistant: any list the schema takes,
\* of profiles there are, were or that it makes up
Lists(n) == UNION {[1..k -> [id : 1..n, active : BOOLEAN]] : k \in 0..MaxProfiles}
SaveEdited(p) ==
    /\ op[p].kind = "edit" /\ op[p].read
    /\ edited' = edited + 1
    /\ \E n \in created..MaxProfiles : \E r \in Lists(n) :
          /\ n > created => n \in IdsOf(r)
          /\ Save(r)
          /\ created' = n
          /\ skewed' = (skewed \/ ~WellFormed(r))
    /\ AppliesIn(p, registry')
    /\ Ends(p)
    /\ UNCHANGED <<system, menu, awaits, confirmed>>

\* the profile is not there any more, every model is a profile already, or the
\* schema refuses the edit
NothingSaved(p) ==
    /\ op[p].read
    /\ \/ op[p].kind \in {"activate", "activateAt", "update", "delete"} /\ TargetOf(op[p]) = 0
       \/ op[p].kind \in {"discover", "edit"}
    /\ Ends(p) /\ Done(p)
    /\ UNCHANGED <<store, env, menu, awaits>>

Operates(p) == \/ Reads(p) \/ SaveAdded(p) \/ SkipAdded(p) \/ Find(p) \/ SaveActivated(p)
               \/ SaveUpdated(p) \/ SaveRemoved(p) \/ SaveDiscovered(p) \/ SaveEdited(p)
               \/ NothingSaved(p)

(***************************************************************************)
(* The menu: processMenuInput                                              *)
(***************************************************************************)
\* a menu takes input when its process is not in the middle of an operation
At(m, step) == op[m].kind = "none" /\ menu[m].step = step
To(m, step) == menu' = [menu EXCEPT ![m].step = step]
ToMain(m) == menu' = [menu EXCEPT ![m] = [Closed EXCEPT !.step = "main"]]
Moves == UNCHANGED <<store, env, awaits, op, confirmed>>

\* /model, and /model as an input of the menu
Open(m) == op[m].kind = "none" /\ menu[m].step # "main" /\ ToMain(m) /\ Moves

\* 0 in the main menu, exit, Esc, and the end of the command line
Leave(m) == op[m].kind = "none" /\ menu[m] # Closed
            /\ menu' = [menu EXCEPT ![m] = Closed] /\ Moves

\* handleMainMenu: a list of nothing is not shown
Choose(m) ==
    /\ At(m, "main")
    /\ \/ To(m, "addProvider")
       \/ registry # <<>> /\ \E s \in {"select", "editPick", "deletePick"} : To(m, s)
    /\ Moves

\* 0 goes back
Back(m) == /\ op[m].kind = "none"
           /\ menu[m].step \in {"select", "addProvider", "editPick", "editField", "deletePick", "xaiCode"}
           /\ ToMain(m) /\ Moves

\* an await of a handler; the steps it may lead to
Awaiting(m, step) == /\ Len(awaits[m]) + edited < MaxAwaits
                     /\ awaits' = [awaits EXCEPT ![m] = Append(@, [menu[m] EXCEPT !.step = step])]

\* handleOllamaDiscover
Discover(m) == At(m, "main") /\ Awaiting(m, "discover") /\ UNCHANGED <<store, env, menu, op, confirmed>>

\* handleSelect: the index is looked up in the registry as it is now
Select(m) ==
    /\ At(m, "select")
    /\ \E i \in DOMAIN registry : Starts(m, "activateAt", i)
    /\ ToMain(m)
    /\ UNCHANGED <<store, env, awaits, confirmed>>

\* handleAddProvider
AddProvider(m) ==
    /\ At(m, "addProvider")
    /\ \E p \in Providers :
          menu' = [menu EXCEPT ![m] =
              [@ EXCEPT !.provider = p,
                        !.step = CASE p = "xai" -> "xaiCode" [] p = "minimax" -> "addApiKey"
                                   [] OTHER -> "addBaseUrl"]]
    /\ Moves

\* handleAddBaseUrl: ollama is asked for its models here, the rest for a key
AddBaseUrl(m) ==
    /\ At(m, "addBaseUrl")
    /\ \/ menu[m].provider = "ollama" /\ UNCHANGED <<menu, op>> /\ UNCHANGED <<store, env, confirmed>>
          /\ \E s \in {"addModelPick", "addModel"} : Awaiting(m, s)
       \/ menu[m].provider # "ollama" /\ To(m, "addApiKey") /\ Moves

\* handleAddApiKey
AddApiKey(m) ==
    /\ At(m, "addApiKey")
    /\ \E s \in {"addModelPick", "addModel"} : Awaiting(m, s)
    /\ UNCHANGED <<store, env, menu, op, confirmed>>

\* the new profile is written, and the main menu shown
Adds(m) == Starts(m, "add", 0) /\ ToMain(m) /\ UNCHANGED <<store, env, awaits, confirmed>>

\* handleAddModelPick, handleAddModel: with minimax there is no name to ask
AddModel(m) ==
    /\ op[m].kind = "none" /\ menu[m].step \in {"addModelPick", "addModel"}
    /\ \/ menu[m].provider = "minimax" /\ Adds(m)
       \/ menu[m].provider # "minimax" /\ To(m, "addName") /\ Moves
       \/ menu[m].provider # "minimax" /\ menu[m].step = "addModelPick" /\ To(m, "addModel") /\ Moves

\* handleAddName
AddName(m) == At(m, "addName") /\ Adds(m)

\* handleXaiOAuthCode: the code is exchanged; a refusal asks again
XaiCode(m) == At(m, "xaiCode") /\ Awaiting(m, "xaiDone") /\ UNCHANGED <<store, env, menu, op, confirmed>>

\* what the user picks is kept by its id
Pick(m, next) == \E i \in DOMAIN registry :
                     menu' = [menu EXCEPT ![m].step = next, ![m].target = registry[i].id]
EditPick(m) == At(m, "editPick") /\ Pick(m, "editField") /\ Moves
EditField(m) == At(m, "editField") /\ To(m, "editValue") /\ Moves
EditValue(m) == /\ At(m, "editValue")
                /\ Starts(m, "update", menu[m].target)
                /\ ToMain(m)
                /\ UNCHANGED <<store, env, awaits, confirmed>>

DeletePick(m) == At(m, "deletePick") /\ Pick(m, "deleteConfirm") /\ Moves

\* Seeded bug: the profile to delete is looked up by its place, as to activate.
DeleteArgFirst(m) == IF registry = <<>> THEN 0 ELSE registry[1].id
DeleteArg(m) == menu[m].target

\* handleDeleteConfirm
Confirm(m) ==
    /\ At(m, "deleteConfirm")
    /\ Starts(m, "delete", DeleteArg(m))
    /\ confirmed' = [confirmed EXCEPT ![m] = menu[m].target]
    /\ ToMain(m)
    /\ UNCHANGED <<store, env, awaits>>
Refuse(m) == At(m, "deleteConfirm") /\ ToMain(m) /\ Moves

\* an await ends: its handler goes on and sets the step, whatever it is by now
Result(m) ==
    /\ op[m].kind = "none" /\ awaits[m] # <<>>
    /\ \E i \in DOMAIN awaits[m] :
       LET next == awaits[m][i] IN
       /\ awaits' = [awaits EXCEPT ![m] = RemoveAt(@, i)]
       /\ \/ /\ next.step = "discover" /\ ToMain(m) /\ UNCHANGED op
          \/ /\ next.step = "discover" /\ Starts(m, "discover", 0)
             /\ menu' = [menu EXCEPT ![m] = [Closed EXCEPT !.step = "select"]]
          \/ /\ next.step = "xaiDone" /\ Starts(m, "add", 0) /\ ToMain(m)
          \/ /\ next.step = "xaiDone" /\ UNCHANGED op
             /\ menu' = [menu EXCEPT ![m] = [next EXCEPT !.step = "xaiCode"]]
          \/ /\ next.step \notin {"discover", "xaiDone"} /\ UNCHANGED op
             /\ menu' = [menu EXCEPT ![m] = next]
    /\ UNCHANGED <<store, env, confirmed>>

Uses(m) == \/ Open(m) \/ Leave(m) \/ Choose(m) \/ Back(m) \/ Discover(m) \/ Select(m)
           \/ AddProvider(m) \/ AddBaseUrl(m) \/ AddApiKey(m) \/ AddModel(m) \/ AddName(m)
           \/ XaiCode(m) \/ EditPick(m) \/ EditField(m) \/ EditValue(m) \/ DeletePick(m)
           \/ Confirm(m) \/ Refuse(m) \/ Result(m)

(***************************************************************************)
(* The daemon                                                              *)
(***************************************************************************)
DaemonIdle == op[Daemon].kind = "none"

\* activate_model, set and write of tool_manage_config; /think
AssistantOperates ==
    /\ DaemonIdle
    /\ \/ \E id \in 1..created : Starts(Daemon, "activate", id)
       \/ registry # <<>> /\ Starts(Daemon, "update", ActiveId(registry))
       \/ /\ \A m \in Menus : Len(awaits[m]) + edited < MaxAwaits
          /\ Starts(Daemon, "edit", 0)
    /\ UNCHANGED <<store, env, menu, awaits, confirmed>>

\* Seeded bug: the provider of the profile before stays in the environment.
SettingsKeepProvider == [of |-> "settings", provider |-> env.provider]
\* applyModelSettingsToEnv
SettingsApplied == [of |-> "settings", provider |-> FALSE]

\* /model set, /model reset, /config set: CONF_SYSTEM, whatever the profiles say
SetSystem ==
    /\ DaemonIdle
    /\ system' = "user"
    /\ env' = SettingsApplied
    /\ UNCHANGED <<registry, created, edits, menu, awaits, op, confirmed>>

\* processMessage, and the retry of a refused request
TurnStarts ==
    /\ DaemonIdle
    /\ env' = Applied(registry)
    /\ UNCHANGED <<store, menu, awaits, op, confirmed>>

\* the runtime is constructed: .env is written over CONF_SYSTEM, and a profile
\* is made of it after the await of the import
Boot ==
    /\ DaemonIdle
    /\ system' = IF EnvFile THEN "env" ELSE system
    /\ env' = Applied(registry)
    /\ IF EnvFile THEN Starts(Daemon, "bootstrap", 0) ELSE UNCHANGED op
    /\ UNCHANGED <<registry, created, edits, menu, awaits, confirmed>>

Next == \/ \E p \in Procs : Operates(p)
        \/ \E m \in Menus : Uses(m)
        \/ AssistantOperates \/ SetSystem \/ TurnStarts \/ Boot

Spec == Init /\ [][Next]_vars

(***************************************************************************)
(* Properties                                                              *)
(***************************************************************************)
\* Every variable has its type.
TypeOK ==
    /\ \A p \in Range(registry) : p.id \in Ids /\ p.active \in BOOLEAN
    /\ system \in {"env", "user"}
    /\ env.of \in {"settings", "profile"} /\ env.provider \in BOOLEAN
    /\ \A m \in Menus : menu[m].step \in Steps /\ Len(awaits[m]) <= MaxAwaits
    /\ created \in 0..MaxProfiles /\ confirmed \in [Procs -> 0..MaxProfiles]

\* Whatever the processes overwrite of each other's, a registry has every id
\* once and, unless it is empty, exactly one active profile (addProfile,
\* deleteProfile, activateProfile(ByIndex), addOllamaDiscoveredModels), as long
\* as no edit of the assistant was itself ill-formed.
OneActive == skewed \/ WellFormed(registry)

\* A profile leaves the registry only by the deletion of that very profile that
\* the user of the process has just confirmed (handleDeletePick,
\* handleDeleteConfirm, deleteProfile), or by an edit of the assistant, unless
\* the process saves over a registry that changed since it read it.
OnlyConfirmedGo ==
    [][( \A p \in Procs : op[p].read /\ op'[p] # op[p] =>
            op[p].held = registry /\ op[p].kind # "edit" )
       => IdsOf(registry) \ IdsOf(registry') \subseteq {confirmed[p] : p \in Procs}]_vars

\* The environment never holds the provider of a profile beside the values of
\* the settings (applyModelSettingsToEnv, applyProfileToEnv).
ProviderMatches == env.provider <=> env.of = "profile"

\* modelConfig.ts:139: "Idempotent: if a profile already exists, this is a no-op."
BootstrapsOnce == [][registry # <<>> /\ system = "user" => system' # "env"]_vars

\* The schema of CONF_MODELS takes any "active": an edit of one field of it can
\* leave two active profiles or none (tools/domains/config.ts).  Does not hold.
OneActiveAlways == registry # <<>> => Cardinality(Actives(registry)) = 1

\* The same edit can leave out profiles whose deletion no user confirmed.  Does
\* not hold.
OnlyConfirmedGoAlways ==
    [][( \A p \in Procs : op[p].read /\ op'[p] # op[p] => op[p].held = registry )
       => IdsOf(registry) \ IdsOf(registry') \subseteq {confirmed[p] : p \in Procs}]_vars
============================================================================
