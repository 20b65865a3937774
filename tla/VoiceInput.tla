----------------------------- MODULE VoiceInput -----------------------------
(***************************************************************************)
(* Speaking to the assistant: the push-to-talk keys, the recorder, and the *)
(* container that transcribes (managed STT), which every use deploys when  *)
(* it is not as configured.                                                *)
(*                                                                         *)
(* Key events come from a child process (xinput) that may die and be       *)
(* started again.  Deployments of several uses - two recordings, a voice   *)
(* message from Telegram, a tool - run at once on the one container name.  *)
(***************************************************************************)
EXTENDS Naturals, Sequences, FiniteSets

CONSTANTS
    Uses,       \* recordings and other uses of the service
    Keys,       \* the keys of the voice hotkey
    Models,     \* buildModelFallbackChain: the configured model first
    MaxProbes,  \* of a model that starts
    MaxFaults   \* deaths of xinput and of the container, failures of docker (bound)

VARIABLES
    held,       \* the keys the user holds down
    pressed,    \* pressedKeys
    xinput,     \* "up" or "down"
    lost,       \* history: xinput was down when a key moved
    recorder,   \* the use arecord records for
    files,      \* the recordings on disk
    container,  \* what docker has under the container's name
    pc, seen,   \* of each use: where it is, and the status it read
    cand, probes,   \* and the model it tries, with the probes made
    faults

vars == <<held, pressed, xinput, lost, recorder, files, container, pc, seen, cand, probes, faults>>
keyVars == <<held, pressed, xinput, lost>>
useVars == <<seen, cand, probes>>

None == "none"
Absent == [model |-> None, up |-> "absent", was |-> FALSE]
Wanted == Models[1]
Fault == faults < MaxFaults /\ faults' = faults + 1

To(u, where) == pc' = [pc EXCEPT ![u] = where]
Deploying == {"look", "check", "clear", "run", "probe", "drop"}

(***************************************************************************)
(* Keys and recorder                                                       *)
(***************************************************************************)
\* onKeyDown: the whole of it runs before the next event
KeyDown(u) ==
    /\ pc[u] = "idle"
    /\ recorder' = u
    /\ files' = files \cup {u}
    /\ To(u, "recording")

\* stopRecording: the recorder is killed and its file is read on
StopRecording(u) ==
    /\ recorder' = None
    /\ To(u, "status")
    /\ UNCHANGED files

Nothing == UNCHANGED <<recorder, files, pc>>

Press(k) ==
    /\ k \notin held
    /\ held' = held \cup {k}
    /\ lost' = (lost \/ xinput = "down")
    /\ pressed' = IF xinput = "up" THEN pressed \cup {k} ELSE pressed
    /\ IF xinput = "up" /\ Keys \subseteq pressed' /\ recorder = None
       THEN \E u \in Uses : KeyDown(u)
       ELSE Nothing
    /\ UNCHANGED <<xinput, container, useVars, faults>>

\* Seeded bug: the recording goes on until every key is up.
ReleasedAll == Keys \cap pressed' = {}
Released == ~ (Keys \subseteq pressed')

Release(k) ==
    /\ k \in held
    /\ held' = held \ {k}
    /\ lost' = (lost \/ xinput = "down")
    /\ pressed' = IF xinput = "up" THEN pressed \ {k} ELSE pressed
    /\ IF xinput = "up" /\ recorder /= None /\ Released
       THEN StopRecording(recorder)
       ELSE Nothing
    /\ UNCHANGED <<xinput, container, useVars, faults>>

\* xinput is started again after three seconds, with the keys it knew
XinputDies ==
    /\ xinput = "up" /\ Fault
    /\ xinput' = "down"
    /\ UNCHANGED <<held, pressed, lost, recorder, files, container, pc, useVars>>

SpawnXinput ==
    /\ xinput = "down"
    /\ xinput' = "up"
    /\ UNCHANGED <<held, pressed, lost, recorder, files, container, pc, useVars, faults>>

(***************************************************************************)
(* Using the service.  A recording first looks whether it must tell the    *)
(* user to wait; a voice message and a tool deploy at once.                *)
(***************************************************************************)
UseService(u) ==
    /\ pc[u] = "idle"
    /\ To(u, "look")
    /\ UNCHANGED <<keyVars, recorder, files, container, useVars, faults>>

Notify(u) ==
    /\ pc[u] = "status"
    /\ To(u, "look")
    /\ UNCHANGED <<keyVars, recorder, files, container, useVars, faults>>

End(u) == To(u, "done") /\ files' = files \ {u}

\* the request ends, answered with a text or not: what it throws when nothing
\* is there to answer, a recording only logs
Transcribe(u) ==
    /\ pc[u] = "transcribe"
    /\ End(u)
    /\ UNCHANGED <<keyVars, recorder, container, useVars, faults>>

(***************************************************************************)
(* deployManagedSttContainer                                               *)
(***************************************************************************)
\* docker info, and the status of the container
Look(u) ==
    /\ pc[u] = "look"
    /\ \/ /\ seen' = [seen EXCEPT ![u] = container.up]
          /\ To(u, "check")
          /\ UNCHANGED <<files, faults>>
       \/ /\ Fault              \* docker is not there
          /\ End(u)
          /\ UNCHANGED seen
    /\ UNCHANGED <<keyVars, recorder, container, cand, probes>>

Running == {"starting", "ready"}
AsConfigured(c) == c.up = "ready" /\ c.model = Wanted

\* one that runs, answers and has the configured model is left as it is
Check(u) ==
    /\ pc[u] = "check"
    /\ To(u, IF seen[u] \in Running /\ AsConfigured(container) THEN "transcribe" ELSE "clear")
    /\ UNCHANGED <<keyVars, recorder, files, container, useVars, faults>>

\* removeManagedSttContainer, by name: its failure is not looked at
Remove == \/ container' = Absent /\ UNCHANGED faults
          \/ Fault /\ UNCHANGED container

Clear(u) ==
    /\ pc[u] = "clear"
    /\ IF seen[u] = "absent" THEN UNCHANGED <<container, faults>> ELSE Remove
    /\ To(u, "run")
    /\ seen' = [seen EXCEPT ![u] = "absent"]
    /\ UNCHANGED <<keyVars, recorder, files, cand, probes>>

\* docker run: refused when the name is taken
Run(u) ==
    /\ pc[u] = "run"
    /\ \/ /\ container = Absent
          /\ container' = [model |-> Models[cand[u]], up |-> "starting", was |-> FALSE]
          /\ To(u, "probe")
          /\ probes' = [probes EXCEPT ![u] = 0]
          /\ UNCHANGED faults
       \/ /\ IF container = Absent THEN Fault ELSE UNCHANGED faults
          /\ To(u, "drop")
          /\ UNCHANGED <<container, probes>>
    /\ UNCHANGED <<keyVars, recorder, files, seen, cand>>

\* Seeded bug: a probe that fails is not counted.
ProbeAgainFree(u) == probes' = [probes EXCEPT ![u] = (@ + 1) % MaxProbes] /\ UNCHANGED pc

ProbeAgain(u) ==
    /\ probes' = [probes EXCEPT ![u] = (@ + 1) % MaxProbes]
    /\ IF probes[u] + 1 = MaxProbes THEN To(u, "drop") ELSE UNCHANGED pc

Reset(u) == probes' = [probes EXCEPT ![u] = 0]

\* a probe: the service answers, or does not yet, or nothing listens
Probe(u) ==
    /\ pc[u] = "probe"
    /\ \/ container.up = "ready" /\ To(u, "transcribe") /\ Reset(u)
       \/ container.up = "starting" /\ ProbeAgain(u)
       \/ container.up \in {"absent", "stopped"} /\ To(u, "drop") /\ Reset(u)
    /\ UNCHANGED <<keyVars, recorder, files, container, seen, cand, faults>>

\* Seeded bug: the last model that does not start is left where it is.
DropSome(u) == IF cand[u] < Len(Models) THEN Remove ELSE UNCHANGED <<container, faults>>
DropWhat(u) == Remove

\* a model that does not start is removed, and the next one tried
Drop(u) ==
    /\ pc[u] = "drop"
    /\ DropWhat(u)
    /\ IF cand[u] < Len(Models)
       THEN /\ cand' = [cand EXCEPT ![u] = @ + 1]
            /\ To(u, "run")
            /\ UNCHANGED files
       ELSE End(u) /\ UNCHANGED cand
    /\ UNCHANGED <<keyVars, recorder, seen, probes>>

(***************************************************************************)
(* The container: it starts, it crashes and docker restarts it, and the    *)
(* SttService tool stops it                                                *)
(***************************************************************************)
Started ==
    /\ container.up = "starting"
    /\ container' = [container EXCEPT !.up = "ready", !.was = TRUE]
    /\ UNCHANGED <<keyVars, recorder, files, pc, useVars, faults>>

Crashes ==
    /\ container.up = "ready" /\ Fault
    /\ container' = [container EXCEPT !.up = "starting"]
    /\ UNCHANGED <<keyVars, recorder, files, pc, useVars>>

StopContainer ==
    /\ container.up \in Running /\ Fault
    /\ container' = [container EXCEPT !.up = "stopped"]
    /\ UNCHANGED <<keyVars, recorder, files, pc, useVars>>

Init ==
    /\ held = {} /\ pressed = {} /\ xinput = "up" /\ lost = FALSE
    /\ recorder = None /\ files = {}
    /\ container = Absent
    /\ pc = [u \in Uses |-> "idle"]
    /\ seen = [u \in Uses |-> "absent"]
    /\ cand = [u \in Uses |-> 1]
    /\ probes = [u \in Uses |-> 0]
    /\ faults = 0

Goes(u) == Notify(u) \/ Transcribe(u) \/ Look(u) \/ Check(u) \/ Clear(u) \/ Run(u) \/ Probe(u) \/ Drop(u)

Next ==
    \/ \E k \in Keys : Press(k) \/ Release(k)
    \/ XinputDies \/ SpawnXinput
    \/ \E u \in Uses : UseService(u) \/ Goes(u)
    \/ Started \/ Crashes \/ StopContainer

\* Calls of docker and of the service return
Spec == Init /\ [][Next]_vars /\ \A u \in Uses : WF_vars(Goes(u))

-----------------------------------------------------------------------------
\* Types: a recorder has the file it writes, and a use past its recording has
\* given the recorder up.
TypeOK ==
    /\ held \subseteq Keys /\ pressed \subseteq Keys
    /\ xinput \in {"up", "down"} /\ lost \in BOOLEAN
    /\ recorder \in Uses \cup {None}
    /\ \A u \in Uses : pc[u] = "recording" <=> recorder = u
    /\ recorder /= None => recorder \in files
    /\ files \subseteq Uses
    /\ container.up \in {"absent", "starting", "ready", "stopped"}
    /\ container = Absent <=> container.up = "absent"
    /\ pc \in [Uses -> {"idle", "recording", "status", "transcribe", "done"} \cup Deploying]
    /\ seen \in [Uses -> {"absent", "starting", "ready", "stopped"}]
    /\ cand \in [Uses -> 1 .. Len(Models)]
    /\ probes \in [Uses -> 0 .. MaxProbes]
    /\ faults \in 0 .. MaxFaults

\* The microphone is open only while the whole hotkey is held down, in
\* whatever order keys go down and up, except when xinput missed one of them
\* (the handler of RawKeyPress and RawKeyRelease keeps pressedKeys).
MicOnlyWhileHeld == recorder /= None /\ ~ lost => held = Keys

\* When no deployment is at work, the container there is, if any, once
\* answered: what does not start is removed, also when deployments remove each
\* other's, unless docker failed or someone stopped it
\* (deployManagedSttContainer ends a candidate that fails with a removal).
NoHalfContainer ==
    (\A u \in Uses : pc[u] \notin Deploying) /\ faults = 0 => container = Absent \/ container.was

\* Every use ends and its recording is deleted, whatever docker and the other
\* deployments do: probes are counted and models run out.
EndsOf(u) == pc[u] = "look" ~> pc[u] = "done" /\ u \notin files
UseEnds == \A u \in Uses : EndsOf(u)

\* "Fallback aplicado a modelo ... por restricciones del servidor": a fallback
\* that answers stays.  The next use finds a model that is not the configured
\* one and removes it.
FallbackStays ==
    [][container.up = "ready" /\ container.model /= Wanted => container'.up /= "absent"]_vars
=============================================================================
