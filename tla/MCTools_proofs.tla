---------------------------- MODULE MCTools_proofs ----------------------------
(***************************************************************************)
(* The theorems of the tools a run checks together. A step of this module is *)
(* a step of one component and leaves the others as they are, so what is     *)
(* inductive for a component is inductive here.                            *)
(***************************************************************************)
EXTENDS MCTools, SequenceTheorems, FunctionTheorems, FiniteSetTheorems,
        WellFoundedInduction, TLAPS

(* A step is one of the gate or leaves the gate as it is.                   *)
LEMMA GateSteps == [Next]_vars => [Gate!Next]_(Gate!vars)
<1> SUFFICES ASSUME [Next]_vars PROVE Gate!Next \/ UNCHANGED gateVars
  BY DEF gateVars, Gate!vars, Gate!policy, Gate!run, Gate!views
<1>1. CASE UNCHANGED vars
  BY <1>1, Zenon DEF vars
<1>2. CASE Only("gate") /\ Gate!Next
  BY <1>2
<1>3. CASE \E p \in {"turn", "file", "memory", "web", "schedule", "shell", "spoken"} : Only(p)
  BY <1>3 DEF Only
<1> QED BY <1>1, <1>2, <1>3, Zenon DEF Next

(* A step is one of the voice mode or leaves it as it is.                   *)
LEMMA SpokenSteps == [Next]_vars => [Spoken!Next]_(Spoken!vars)
<1> SUFFICES ASSUME [Next]_vars PROVE Spoken!Next \/ UNCHANGED spokenVars
  BY DEF spokenVars, Spoken!vars, Spoken!turn
<1>1. CASE UNCHANGED vars
  BY <1>1, Zenon DEF vars
<1>2. CASE Only("spoken") /\ Spoken!Next
  BY <1>2
<1>3. CASE \E p \in {"gate", "turn", "file", "memory", "web", "schedule", "shell"} : Only(p)
  BY <1>3 DEF Only
<1> QED BY <1>1, <1>2, <1>3, Zenon DEF Next

(* A step is one of Bash or leaves it as it is.                             *)
LEMMA ShellSteps == [Next]_vars => [Shell!Next]_(Shell!vars)
<1> SUFFICES ASSUME [Next]_vars PROVE Shell!Next \/ UNCHANGED shellVars
  BY DEF shellVars, Shell!vars
<1>1. CASE UNCHANGED vars
  BY <1>1, Zenon DEF vars
<1>2. CASE Only("shell") /\ Shell!Next
  BY <1>2
<1>3. CASE \E p \in {"gate", "turn", "file", "memory", "web", "schedule", "spoken"} : Only(p)
  BY <1>3 DEF Only
<1> QED BY <1>1, <1>2, <1>3, Zenon DEF Next

(* A step is one of the turns or leaves them as they are.                   *)
LEMMA TurnSteps == [Next]_vars => [Turn!Next]_(Turn!vars)
<1> SUFFICES ASSUME [Next]_vars PROVE Turn!Next \/ UNCHANGED turnVars
  BY DEF turnVars, Turn!vars, Turn!timing, Turn!lists, Turn!loop, Turn!history
<1>1. CASE UNCHANGED vars
  BY <1>1, Zenon DEF vars
<1>2. CASE Only("turn") /\ Turn!Next
  BY <1>2
<1>3. CASE \E p \in {"gate", "file", "memory", "web", "schedule", "shell", "spoken"} : Only(p)
  BY <1>3 DEF Only
<1> QED BY <1>1, <1>2, <1>3, Zenon DEF Next

-----------------------------------------------------------------------------
(* The gate.                                                               *)

Dangerous == Destructive \cup NeedsSudo

GateTypes ==
  /\ gateCall \in [GateCalls -> {"idle", "waiting", "sudo", "ready", "running", "repair",
                                  "done", "denied", "failed"}]
  /\ command = [c \in GateCalls |-> command[c]]
  /\ ground = [c \in GateCalls |-> ground[c]]
  /\ decision = [c \in GateCalls |-> decision[c]]
  /\ prompt \in GateCalls \cup {Gate!Nobody}

NoneRan(c) == \A r \in ran : r.call # c

Agreed(c) == decision[c] \in {"allow", "ask"} /\ NoneRan(c)

(* A call that has a consent has not run yet when it becomes ready, and the   *)
(* consent is used up by the run: a repaired command has another ground.    *)
Permission(c) ==
  /\ gateCall[c] \in {"idle", "waiting"} => NoneRan(c)
  /\ gateCall[c] = "sudo" => ground[c] = "consent" /\ Agreed(c)
  /\ gateCall[c] = "ready" =>
       \/ ground[c] = "consent" /\ Agreed(c)
       \/ ground[c] \in {"hook", "unguarded"}
       \/ ground[c] = "policy" /\ command[c] \notin Dangerous

GateInv == GateTypes /\ (\A c \in GateCalls : Permission(c)) /\ Gate!Consented

-----------------------------------------------------------------------------
(* What checkToolPermission lets pass without a question is harmless, or a   *)
(* hook or the mode answers for it.                                        *)
LEMMA AllowedWithoutQuestion ==
  ASSUME NEW m, NEW result \in Gate!CheckToolPermission(m)
  PROVE  /\ result.behavior \in {"allow", "ask", "deny"}
         /\ result.behavior = "allow" =>
              \/ result.why \in {"hook", "unguarded"}
              \/ result.why = "policy" /\ m \notin Dangerous
<1>1. Gate!Guard(m) \in
        {Gate!Result("allow", "unguarded"), Gate!Result("ask", "sudo"),
         Gate!Result("ask", "destructive"), Gate!Result("allow", "policy")}
  BY DEF Gate!Guard
<1>2. Gate!Guard(m) = Gate!Result("allow", "policy") => m \notin Dangerous
  BY DEF Gate!Guard, Gate!RequiresSudo, Gate!IsDestructive, Gate!Result, Dangerous
<1>3. \/ result = Gate!Guard(m) \/ result = Gate!Result("deny", "policy")
      \/ \E b \in {"allow", "deny"} : result = Gate!Result(b, "hook")
  BY DEF Gate!CheckToolPermission, Gate!HookDecisions
<1> QED BY <1>1, <1>2, <1>3 DEF Gate!Result

LEMMA InitGate == Gate!Init => GateInv
BY DEF Gate!Init, GateInv, GateTypes, Permission, NoneRan, Gate!Consented

(* A decision changes only a call that waits, which has not run.            *)
LEMMA DecideKeeps ==
  ASSUME GateInv, NEW c \in GateCalls, NEW d \in {"allow", "ask", "deny"}, Gate!Decide(c, d),
         prompt' \in GateCalls \cup {Gate!Nobody}, UNCHANGED <<command, ran>>
  PROVE  GateInv'
<1>1. CASE gateCall[c] # "waiting"
  BY <1>1
     DEF GateInv, GateTypes, Permission, Agreed, NoneRan, Gate!Consented, Gate!Decide
<1>2. CASE gateCall[c] = "waiting"
  <2>1. GateTypes'
    BY <1>2 DEF GateInv, GateTypes, Gate!Decide
  <2>2. /\ decision' = [decision EXCEPT ![c] = d]
        /\ ground' = [ground EXCEPT ![c] = "consent"]
        /\ d = "deny" => gateCall'[c] = "denied"
        /\ d # "deny" => gateCall'[c] \in {"sudo", "ready"}
        /\ \A b \in GateCalls \ {c} : gateCall'[b] = gateCall[b]
    BY <1>2 DEF GateInv, GateTypes, Gate!Decide
  <2>3. ASSUME NEW b \in GateCalls PROVE Permission(b)'
    BY <1>2, <2>2, <2>1 DEF GateInv, GateTypes, Permission, Agreed, NoneRan
  <2>4. Gate!Consented'
    BY <1>2, <2>2 DEF GateInv, GateTypes, Permission, NoneRan, Gate!Consented
  <2> QED BY <2>1, <2>3, <2>4 DEF GateInv
<1> QED BY <1>1, <1>2

LEMMA ExecuteKeeps ==
  ASSUME GateInv, NEW c \in GateCalls, NEW m \in GateCommands, Gate!ExecuteTool(c, m)
  PROVE  GateInv'
<1> PICK result \in Gate!CheckToolPermission(m) :
      CASE result.behavior = "allow" ->
              /\ gateCall' = [gateCall EXCEPT ![c] = "ready"]
              /\ ground' = [ground EXCEPT ![c] = result.why]
              /\ UNCHANGED Gate!views
         [] result.behavior = "deny" ->
              /\ gateCall' = [gateCall EXCEPT ![c] = "denied"]
              /\ UNCHANGED <<ground, Gate!views>>
         [] result.behavior = "ask" ->
              /\ gateCall' = [gateCall EXCEPT ![c] = "waiting"]
              /\ ground' = [ground EXCEPT ![c] = result.why]
              /\ Gate!Ask(c)
  BY DEF Gate!ExecuteTool
<1>1. /\ gateCall[c] = "idle" /\ command' = [command EXCEPT ![c] = m]
      /\ UNCHANGED <<decision, ran>>
  BY DEF Gate!ExecuteTool
<1>2. \/ /\ result.behavior = "allow"
         /\ gateCall' = [gateCall EXCEPT ![c] = "ready"]
         /\ ground' = [ground EXCEPT ![c] = result.why] /\ UNCHANGED prompt
      \/ gateCall' = [gateCall EXCEPT ![c] = "denied"] /\ UNCHANGED <<ground, prompt>>
      \/ /\ gateCall' = [gateCall EXCEPT ![c] = "waiting"]
         /\ ground' = [ground EXCEPT ![c] = result.why] /\ prompt' \in {c, prompt}
  BY AllowedWithoutQuestion DEF Gate!Ask, Gate!AskInChat, Gate!views
<1>3. GateTypes'
  BY <1>1, <1>2 DEF GateInv, GateTypes
<1>4. ASSUME NEW b \in GateCalls PROVE Permission(b)'
  BY <1>1, <1>2, AllowedWithoutQuestion
     DEF GateInv, GateTypes, Permission, Agreed, NoneRan
<1>5. Gate!Consented'
  BY <1>1, <1>2 DEF GateInv, GateTypes, Permission, Gate!Consented
<1> QED BY <1>3, <1>4, <1>5 DEF GateInv

LEMMA RunKeeps ==
  ASSUME GateInv, NEW c \in GateCalls, Gate!Run(c)
  PROVE  GateInv'
<1>1. GateTypes'
  BY DEF GateInv, GateTypes, Gate!Run, Gate!views
<1>2. ASSUME NEW b \in GateCalls PROVE Permission(b)'
  BY DEF GateInv, GateTypes, Permission, Agreed, NoneRan, Gate!Run
<1>3. Gate!Consented'
  BY
     DEF GateInv, GateTypes, Permission, Agreed, NoneRan, Gate!Consented, Dangerous,
         Gate!Run
<1> QED BY <1>1, <1>2, <1>3 DEF GateInv

(* A repaired command is permitted by itself, never by an earlier consent.  *)
LEMMA RepairKeeps ==
  ASSUME GateInv, NEW c \in GateCalls, Gate!Repair(c)
  PROVE  GateInv'
<1>1. /\ gateCall[c] = "repair" /\ UNCHANGED <<decision, ran, prompt>>
      /\ \/ \E m \in GateCommands : \E result \in Gate!CheckToolPermission(m) :
              /\ result.behavior = "allow"
              /\ gateCall' = [gateCall EXCEPT ![c] = "ready"]
              /\ command' = [command EXCEPT ![c] = m]
              /\ ground' = [ground EXCEPT ![c] = result.why]
         \/ gateCall' = [gateCall EXCEPT ![c] = "failed"] /\ UNCHANGED <<command, ground>>
  BY DEF Gate!Repair, Gate!RepairCheck, Gate!Candidates, Gate!views
<1>2. GateTypes'
  BY <1>1 DEF GateInv, GateTypes
<1>3. ASSUME NEW b \in GateCalls PROVE Permission(b)'
  BY <1>1, AllowedWithoutQuestion DEF GateInv, GateTypes, Permission, Agreed, NoneRan
<1>4. Gate!Consented'
  BY <1>1 DEF GateInv, Gate!Consented
<1> QED BY <1>2, <1>3, <1>4 DEF GateInv

LEMMA OthersKeep ==
  ASSUME GateInv, NEW c \in GateCalls,
         Gate!MessageSent(c) \/ Gate!ActivateSudo(c) \/ Gate!Finish(c)
  PROVE  GateInv'
<1>1. GateTypes'
  BY
     DEF GateInv, GateTypes, Gate!MessageSent, Gate!ActivateSudo, Gate!Finish, Gate!run,
         Gate!views
<1>2. ASSUME NEW b \in GateCalls PROVE Permission(b)'
  BY
     DEF GateInv, GateTypes, Permission, Agreed, NoneRan, Gate!MessageSent,
         Gate!ActivateSudo, Gate!Finish, Gate!run
<1>3. Gate!Consented'
  BY
     DEF GateInv, Gate!Consented, Gate!MessageSent, Gate!ActivateSudo, Gate!Finish,
         Gate!run
<1> QED BY <1>1, <1>2, <1>3 DEF GateInv

LEMMA GateStays == GateInv /\ UNCHANGED <<Gate!run, prompt>> => GateInv'
BY DEF GateInv, GateTypes, Permission, Agreed, NoneRan, Gate!Consented, Gate!run

LEMMA NextGate == GateInv /\ [Gate!Next]_(Gate!vars) => GateInv'
<1> SUFFICES ASSUME GateInv, [Gate!Next]_(Gate!vars) PROVE GateInv'
  OBVIOUS
<1>1. CASE \E c \in GateCalls, m \in GateCommands : Gate!ExecuteTool(c, m)
  BY <1>1, ExecuteKeeps
<1>2. CASE \E c \in GateCalls : Gate!ConfirmTimeout(c)
  BY <1>2, DecideKeeps
     DEF Gate!ConfirmTimeout, Gate!Resolve, Gate!views, GateInv, GateTypes
<1>3. CASE \E c \in GateCalls : Gate!MessageSent(c) \/ Gate!ActivateSudo(c) \/ Gate!Finish(c)
  BY <1>3, OthersKeep
<1>4. CASE \E c \in GateCalls : Gate!Run(c)
  BY <1>4, RunKeeps
<1>5. CASE \E c \in GateCalls : Gate!Repair(c)
  BY <1>5, RepairKeeps
<1>6. CASE \E d \in {"allow", "ask", "deny"} : Gate!Key(d)
  <2> PICK d \in {"allow", "ask", "deny"} : Gate!Key(d)
    BY <1>6
  <2>1. prompt \in GateCalls /\ UNCHANGED <<command, ran>>
    BY DEF GateInv, GateTypes, Gate!Key
  <2>2. CASE prompt \in pending
    BY <2>1, <2>2, DecideKeeps DEF Gate!Key, Gate!Resolve, Gate!Resolved
  <2>3. CASE prompt \notin pending
    BY <2>1, <2>3
       DEF Gate!Key, GateInv, GateTypes, Permission, Agreed, NoneRan, Gate!Consented
  <2> QED BY <2>2, <2>3
<1>7. CASE \E c \in GateCalls, d \in {"allow", "deny"} : Gate!Press(c, d)
  <2> PICK c \in GateCalls, d \in {"allow", "deny"} : Gate!Press(c, d)
    BY <1>7
  <2>1. UNCHANGED <<command, ran>> /\ prompt' \in GateCalls \cup {Gate!Nobody}
    BY DEF GateInv, GateTypes, Gate!Press
  <2>2. CASE c \in pending
    BY <2>1, <2>2, DecideKeeps DEF Gate!Press, Gate!Resolve
  <2>3. CASE c \notin pending
    BY <2>1, <2>3
       DEF Gate!Press, GateInv, GateTypes, Permission, Agreed, NoneRan, Gate!Consented
  <2> QED BY <2>2, <2>3
<1>8. CASE Gate!DeactivateSudo \/ UNCHANGED Gate!vars
  BY <1>8, GateStays DEF Gate!DeactivateSudo, Gate!vars, Gate!run, Gate!views
<1> QED BY <1>1, <1>2, <1>3, <1>4, <1>5, <1>6, <1>7, <1>8 DEF Gate!Next

(* The invariant of the gate.                                              *)
THEOREM GateHolds == Spec => []GateInv
<1>1. Init => GateInv
  BY InitGate, Zenon DEF Init
<1>2. GateInv /\ [Next]_vars => GateInv'
  BY NextGate, GateSteps
<1> QED BY <1>1, <1>2, PTL DEF Spec

(* What is destructive or needs sudo runs only on a hook's word, with the     *)
(* guards off or with the consent to this very command (executeTool,          *)
(* checkToolPermission, tryRepairBashFailure).                             *)
THEOREM ConsentedHolds == Spec => []Consented
<1>1. GateInv => Consented
  BY DEF GateInv, Consented
<1> QED BY <1>1, GateHolds, PTL

(* A call that was denied, by an answer or by its timer, never runs, however *)
(* late another answer comes (registerPendingPermission).                  *)
THEOREM DeniedStaysHolds == Spec => DeniedStays
<1> DEFINE Stays(c) == gateCall[c] = "denied" =>
                         gateCall'[c] = "denied" /\ \A r \in ran' \ ran : r.call # c
<1>1. ASSUME GateTypes, Gate!Next, NEW c \in GateCalls PROVE Stays(c)
  <2> HAVE gateCall[c] = "denied"
  <2>1. CASE \E b \in GateCalls, m \in GateCommands : Gate!ExecuteTool(b, m)
    <3> PICK b \in GateCalls, m \in GateCommands : Gate!ExecuteTool(b, m)
      BY <2>1
    <3>1. \A x \in GateCalls \ {b} : gateCall'[x] = gateCall[x]
      BY <1>1, AllowedWithoutQuestion DEF Gate!ExecuteTool, GateTypes
    <3> QED BY <3>1 DEF Gate!ExecuteTool
  <2>2. CASE \E b \in GateCalls : Gate!ConfirmTimeout(b) \/ Gate!MessageSent(b) \/ Gate!ActivateSudo(b)
    BY <1>1, <2>2
       DEF Gate!ConfirmTimeout, Gate!Resolve, Gate!Decide, Gate!MessageSent,
           Gate!ActivateSudo, Gate!run, GateTypes
  <2>3. CASE \E b \in GateCalls : Gate!Run(b) \/ Gate!Finish(b)
    BY <1>1, <2>3 DEF Gate!Run, Gate!Finish, GateTypes
  <2>4. CASE \E b \in GateCalls : Gate!Repair(b)
    BY <1>1, <2>4 DEF Gate!Repair, GateTypes
  <2>5. CASE \E d \in {"allow", "ask", "deny"} : Gate!Key(d)
    BY <1>1, <2>5 DEF Gate!Key, Gate!Resolve, Gate!Decide, GateTypes
  <2>6. CASE \E b \in GateCalls, d \in {"allow", "deny"} : Gate!Press(b, d)
    BY <1>1, <2>6 DEF Gate!Press, Gate!Resolve, Gate!Decide, GateTypes
  <2>7. CASE Gate!DeactivateSudo
    BY <1>1, <2>7 DEF Gate!DeactivateSudo, Gate!run
  <2> QED BY <1>1, <2>1, <2>2, <2>3, <2>4, <2>5, <2>6, <2>7 DEF Gate!Next
<1>2. GateInv /\ [Next]_vars => [\A c \in GateCalls : Stays(c)]_(Gate!vars)
  BY <1>1, GateSteps, Zenon DEF GateInv
<1>3. Spec => [][\A c \in GateCalls : Stays(c)]_(Gate!vars)
  BY <1>2, GateHolds, PTL DEF Spec
<1> QED BY <1>3 DEF DeniedStays, Gate!DeniedStays

-----------------------------------------------------------------------------
(* The voice mode.                                                         *)

(* What plays is the active player, so the one that is spawned next kills it. *)
PlayingIsActive == \A p \in Spoken!Players : player[p] = "plays" => active = p

(* How far an answer can have been given where its turn is.                 *)
Given(s) ==
  /\ spokenPc[s] \in {"intent", "model", "speech", "send", "player"} => spokenSaid[s] = {}
  /\ spokenPc[s] = "record" => spokenSaid[s] \subseteq {"voice"}
  /\ spokenPc[s] = "text" => spokenSaid[s] = {} \/ s \in unrecorded
  /\ spokenPc[s] \in {"send", "player", "record"} => made[s]

SpokenInv ==
  /\ Spoken!TypeOK
  /\ made \in [SpokenSessions -> BOOLEAN]
  /\ PlayingIsActive
  /\ \A s \in SpokenSessions : Given(s)
  /\ Spoken!SaidOnce
  /\ Spoken!ReadAtLeast

-----------------------------------------------------------------------------
LEMMA InitSpoken == Spoken!Init => SpokenInv
BY
   DEF Spoken!Init, SpokenInv, Spoken!TypeOK, PlayingIsActive, Given, Spoken!SaidOnce,
       Spoken!ReadAtLeast, Spoken!Players, Spoken!Sources

(* A turn that moves on leaves the others as they are: what a step must keep *)
(* of the answers is about its own session.                                *)
LEMMA StepsOfTurns ==
  ASSUME SpokenInv, NEW s \in SpokenSessions,
         \/ \E from \in Spoken!Sources : Spoken!Begin(s, from)
         \/ Spoken!Intent(s) \/ Spoken!Model(s) \/ Spoken!GenerateSpeech(s)
         \/ Spoken!SendVoice(s) \/ Spoken!Record(s) \/ Spoken!Text(s)
  PROVE  SpokenInv'
<1>1. Spoken!TypeOK' /\ made' \in [SpokenSessions -> BOOLEAN] /\ PlayingIsActive'
  <2>1. CASE \E from \in Spoken!Sources : Spoken!Begin(s, from)
    BY <2>1 DEF SpokenInv, Spoken!TypeOK, PlayingIsActive, Spoken!Begin, Spoken!To
  <2>2. CASE Spoken!Intent(s)
    <3>1. voiceMode' \in [SpokenSessions -> BOOLEAN]
      <4>1. voiceMode \in [SpokenSessions -> BOOLEAN]
        BY DEF SpokenInv, Spoken!TypeOK
      <4>2. voiceMode' = voiceMode \/ voiceMode' = [voiceMode EXCEPT ![s] = ~voiceMode[s]]
        BY <2>2, SMT DEF Spoken!Intent
      <4> QED BY <4>1, <4>2, Zenon
    <3>2. /\ spokenPc' = [spokenPc EXCEPT ![s] = "idle"] \/ spokenPc' = [spokenPc EXCEPT ![s] = "model"]
          /\ spokenSaid' = [spokenSaid EXCEPT ![s] = @ \cup {"text"}] \/ spokenSaid' = spokenSaid
          /\ UNCHANGED <<source, made, unrecorded, active, player>>
      BY <2>2, SMT DEF Spoken!Intent, Spoken!To, Spoken!Says
    <3> QED BY <3>1, <3>2 DEF SpokenInv, Spoken!TypeOK, PlayingIsActive
  <2>3. CASE Spoken!Model(s) \/ Spoken!GenerateSpeech(s)
    BY <2>3
       DEF SpokenInv, Spoken!TypeOK, PlayingIsActive, Spoken!Model,
           Spoken!GenerateSpeech, Spoken!To
  <2>4. CASE Spoken!SendVoice(s) \/ Spoken!Record(s) \/ Spoken!Text(s)
    BY <2>4
       DEF SpokenInv, Spoken!TypeOK, PlayingIsActive, Spoken!SendVoice, Spoken!Record,
           Spoken!Text, Spoken!To, Spoken!Says
  <2> QED BY <2>1, <2>2, <2>3, <2>4
<1>2. \A t \in SpokenSessions \ {s} :
        /\ spokenPc'[t] = spokenPc[t] /\ spokenSaid'[t] = spokenSaid[t] /\ made'[t] = made[t]
        /\ t \in unrecorded' <=> t \in unrecorded
  BY
     DEF SpokenInv, Spoken!TypeOK, Spoken!Begin, Spoken!Intent, Spoken!Intents,
         Spoken!Model, Spoken!GenerateSpeech, Spoken!SendVoice, Spoken!Record,
         Spoken!Text, Spoken!To, Spoken!Says
<1>3. /\ Given(s)'
      /\ {"voice", "text"} \subseteq spokenSaid'[s] => s \in unrecorded'
      /\ spokenPc'[s] = "idle" /\ spokenSaid'[s] = {} => made'[s]
  <2>1. CASE \E from \in Spoken!Sources : Spoken!Begin(s, from)
    BY <2>1 DEF SpokenInv, Spoken!TypeOK, Given, Spoken!Begin, Spoken!To
  <2>2. CASE Spoken!Intent(s)
    BY <2>2
       DEF SpokenInv, Spoken!TypeOK, Given, Spoken!Intent, Spoken!Intents, Spoken!To,
           Spoken!Says
  <2>3. CASE Spoken!Model(s) \/ Spoken!GenerateSpeech(s)
    BY <2>3
       DEF SpokenInv, Spoken!TypeOK, Given, Spoken!Model, Spoken!GenerateSpeech,
           Spoken!To
  <2>4. CASE Spoken!SendVoice(s)
    BY <2>4
       DEF SpokenInv, Spoken!TypeOK, Given, Spoken!SendVoice, Spoken!To, Spoken!Says
  <2>5. CASE Spoken!Record(s)
    BY <2>5
       DEF SpokenInv, Spoken!TypeOK, Given, Spoken!Record, Spoken!To, Spoken!SaidOnce
  <2>6. CASE Spoken!Text(s)
    BY <2>6 DEF SpokenInv, Spoken!TypeOK, Given, Spoken!Text, Spoken!To, Spoken!Says
  <2> QED BY <2>1, <2>2, <2>3, <2>4, <2>5, <2>6
<1>4. (\A t \in SpokenSessions : Given(t))' /\ Spoken!SaidOnce' /\ Spoken!ReadAtLeast'
  BY <1>2, <1>3 DEF SpokenInv, Given, Spoken!SaidOnce, Spoken!ReadAtLeast
<1> QED BY <1>1, <1>4 DEF SpokenInv

(* The new player takes the place of the active one, which alone can play.  *)
LEMMA StepsOfPlay ==
  ASSUME SpokenInv, NEW s \in SpokenSessions, Spoken!Play(s)
  PROVE  SpokenInv'
<1>1. Spoken!TypeOK' /\ made' \in [SpokenSessions -> BOOLEAN]
  BY
     DEF SpokenInv, Spoken!TypeOK, Spoken!Play, Spoken!FindsPlayer, Spoken!Spawn,
         Spoken!To, Spoken!Says
<1>2. PlayingIsActive'
  BY
     DEF SpokenInv, Spoken!TypeOK, PlayingIsActive, Spoken!Play, Spoken!FindsPlayer,
         Spoken!Spawn
<1>3. (\A t \in SpokenSessions : Given(t))' /\ Spoken!SaidOnce' /\ Spoken!ReadAtLeast'
  BY
     DEF SpokenInv, Spoken!TypeOK, Given, Spoken!SaidOnce, Spoken!ReadAtLeast,
         Spoken!Play, Spoken!FindsPlayer, Spoken!To, Spoken!Says
<1> QED BY <1>1, <1>2, <1>3 DEF SpokenInv

(* A player that ends is forgotten only if it is the active one.            *)
LEMMA StepsOfPlayers ==
  ASSUME SpokenInv, NEW p \in Spoken!Players, Spoken!Exit(p)
  PROVE  SpokenInv'
<1>1. Spoken!TypeOK' /\ made' \in [SpokenSessions -> BOOLEAN]
  BY DEF SpokenInv, Spoken!TypeOK, Spoken!Exit, Spoken!Ends, Spoken!Forgets, Spoken!turn
<1>2. PlayingIsActive'
  BY
     DEF SpokenInv, Spoken!TypeOK, PlayingIsActive, Spoken!Exit, Spoken!Ends,
         Spoken!Forgets, Spoken!turn
<1>3. (\A t \in SpokenSessions : Given(t))' /\ Spoken!SaidOnce' /\ Spoken!ReadAtLeast'
  BY DEF SpokenInv, Given, Spoken!SaidOnce, Spoken!ReadAtLeast, Spoken!Exit, Spoken!turn
<1> QED BY <1>1, <1>2, <1>3 DEF SpokenInv

LEMMA SpokenStays == SpokenInv /\ UNCHANGED Spoken!vars => SpokenInv'
BY
   DEF SpokenInv, Spoken!TypeOK, PlayingIsActive, Given, Spoken!SaidOnce,
       Spoken!ReadAtLeast, Spoken!vars, Spoken!turn

LEMMA NextSpoken == SpokenInv /\ [Spoken!Next]_(Spoken!vars) => SpokenInv'
<1> SUFFICES ASSUME SpokenInv, [Spoken!Next]_(Spoken!vars) PROVE SpokenInv'
  OBVIOUS
<1>1. CASE \E s \in SpokenSessions, from \in Spoken!Sources : Spoken!Begin(s, from)
  BY <1>1, StepsOfTurns
<1>2. CASE \E s \in SpokenSessions : Spoken!Goes(s)
  BY <1>2, StepsOfTurns, StepsOfPlay DEF Spoken!Goes
<1>3. CASE \E p \in Spoken!Players : Spoken!Exit(p)
  BY <1>3, StepsOfPlayers
<1>4. CASE UNCHANGED Spoken!vars
  BY <1>4, SpokenStays
<1> QED BY <1>1, <1>2, <1>3, <1>4 DEF Spoken!Next

(* The invariant of the voice mode.                                        *)
THEOREM SpokenHolds == Spec => []SpokenInv
<1>1. Init => SpokenInv
  BY InitSpoken, Zenon DEF Init
<1>2. SpokenInv /\ [Next]_vars => SpokenInv'
  BY NextSpoken, SpokenSteps
<1> QED BY <1>1, <1>2, PTL DEF Spec

(* Two spoken answers never sound at once (activeAudioProcess and its exit   *)
(* handler, runtime.ts).                                                   *)
THEOREM OnePlaysHolds == Spec => []OnePlays
<1>1. SpokenInv => OnePlays
  BY DEF SpokenInv, PlayingIsActive, OnePlays, Spoken!OnePlays
<1> QED BY <1>1, SpokenHolds, PTL

(* An answer is not given both as speech and as text, unless it could not be *)
(* appended (processVoiceModeAndDeliver).                                  *)
THEOREM SaidOnceHolds == Spec => []SaidOnce
<1>1. SpokenInv => SaidOnce
  BY DEF SpokenInv, SaidOnce
<1> QED BY <1>1, SpokenHolds, PTL

(* An answer that could not be made into speech is given as text.           *)
THEOREM ReadAtLeastHolds == Spec => []ReadAtLeast
<1>1. SpokenInv => ReadAtLeast
  BY DEF SpokenInv, ReadAtLeast
<1> QED BY <1>1, SpokenHolds, PTL

-----------------------------------------------------------------------------
(* Bash.                                                                   *)

ShellTypes ==
  /\ shellMode \in [ShellCommands -> Shell!Modes \cup {Shell!None, "denied"}]
  /\ shell \in [ShellCommands ->
                 {Shell!None, "running", "zero", "other", Shell!Killed, Shell!Timeout}]
  /\ shellTimer \in [ShellCommands -> {"off", "set", "rang"}]
  /\ shellResult \in [ShellCommands -> [code : {Shell!None, "denied", "pid", "zero", "other",
                                              Shell!Killed},
                                      interrupted : BOOLEAN]]

(* A call that did not begin has no shell and no result; execFile alone times *)
(* out; a code that was answered is that of the shell.                      *)
Honest(c) ==
  /\ shellMode[c] = Shell!None => shell[c] = Shell!None /\ shellResult[c] = Shell!Unanswered
  /\ shell[c] = Shell!Timeout => shellMode[c] = "plain"
  /\ shellResult[c].code = "zero" => shell[c] = "zero"
  /\ shellResult[c].code = Shell!Killed /\ shellMode[c] = "logged" => shellResult[c].interrupted

ShellInv == ShellTypes /\ (\A c \in ShellCommands : Honest(c))

LEMMA InitShell == Shell!Init => ShellInv
BY
   DEF Shell!Init, ShellInv, ShellTypes, Honest, Shell!Unanswered, Shell!Code,
       Shell!None,
       Shell!Killed, Shell!Timeout

LEMMA AbortsHonest ==
  ASSUME ShellInv, Shell!Aborts
  PROVE  ShellInv'
<1> DEFINE killed == {c \in ShellCommands : shell[c] = "running"}
           cut == {c \in killed : Shell!Waiting(c)}
<1>1. /\ shell' = [c \in ShellCommands |-> IF c \in killed THEN Shell!Killed ELSE shell[c]]
      /\ shellResult' = [c \in ShellCommands |->
            IF c \in cut THEN Shell!Code(Shell!Killed, shellMode[c] = "logged")
            ELSE shellResult[c]]
      /\ shellTimer' = [c \in ShellCommands |-> IF c \in cut THEN "off" ELSE shellTimer[c]]
      /\ UNCHANGED shellMode
  BY DEF Shell!Aborts
<1>2. \A c \in cut : c \in killed /\ shellResult[c] = Shell!Unanswered
  BY DEF Shell!Waiting
<1> HIDE DEF cut
<1>3. ASSUME NEW c \in ShellCommands
      PROVE  /\ shellResult'[c] \in [code : {Shell!None, "denied", "pid", "zero", "other",
                                             Shell!Killed}, interrupted : BOOLEAN]
             /\ c \in cut => shellResult'[c].code = Shell!Killed
                             /\ (shellMode[c] = "logged" => shellResult'[c].interrupted)
             /\ c \notin cut => shellResult'[c] = shellResult[c]
  BY <1>1 DEF ShellInv, ShellTypes, Shell!Code
<1>4. ShellTypes'
  <2>1. shell' \in [ShellCommands ->
                 {Shell!None, "running", "zero", "other", Shell!Killed, Shell!Timeout}]
    BY <1>1 DEF ShellInv, ShellTypes
  <2>2. shellResult' = [c \in ShellCommands |-> shellResult'[c]]
    BY <1>1
  <2>3. shellTimer' \in [ShellCommands -> {"off", "set", "rang"}]
    BY <1>1 DEF ShellInv, ShellTypes
  <2>4. UNCHANGED shellMode
    BY <1>1
  <2> QED BY <1>3, <2>1, <2>2, <2>3, <2>4 DEF ShellInv, ShellTypes
<1>5. ASSUME NEW c \in ShellCommands PROVE Honest(c)'
  BY <1>1, <1>2, <1>3
     DEF ShellInv, ShellTypes, Honest, Shell!None, Shell!Killed, Shell!Timeout
<1> QED BY <1>4, <1>5 DEF ShellInv

LEMMA CallsHonest ==
  ASSUME ShellInv, NEW c \in ShellCommands,
         \/ Shell!Denies(c) \/ Shell!Runs(c) \/ Shell!Forks(c) \/ Shell!LeftEnds(c)
         \/ Shell!Exits(c) \/ Shell!Rings(c) \/ Shell!Overflows(c) \/ Shell!Closes(c)
         \/ Shell!LateChunk(c)
  PROVE  ShellInv'
<1>1. CASE Shell!Denies(c)
  BY <1>1
     DEF ShellInv, ShellTypes, Honest, Shell!Denies, Shell!Answer, Shell!Code,
         Shell!None,
              Shell!Killed, Shell!Timeout, Shell!Modes, Shell!Unanswered
<1>2. CASE Shell!Runs(c)
  <2>1. PICK m \in Shell!Modes :
          /\ shellMode[c] = Shell!None
          /\ shellMode' = [shellMode EXCEPT ![c] = m]
          /\ shellTimer' = [shellTimer EXCEPT ![c] = IF m = "background" THEN "off" ELSE "set"]
          /\ shell' = [shell EXCEPT ![c] = "running"]
          /\ \/ shellResult' = [shellResult EXCEPT ![c] = Shell!Code("pid", FALSE)]
             \/ shellResult' = shellResult
    BY <1>2 DEF Shell!Runs, Shell!Answer
  <2>2. Shell!Code("pid", FALSE) \in [code : {Shell!None, "denied", "pid", "zero", "other",
                                             Shell!Killed}, interrupted : BOOLEAN]
    BY DEF Shell!Code
  <2>3. shellResult[c] = Shell!Code(Shell!None, FALSE)
    BY <2>1 DEF ShellInv, Honest, Shell!Unanswered
  <2>4. ShellTypes'
    BY <2>1, <2>2 DEF ShellInv, ShellTypes
  <2>5. ASSUME NEW d \in ShellCommands PROVE Honest(d)'
    <3>1. CASE d = c
      <4>1. shellMode'[c] = m /\ shell'[c] = "running" /\ m # Shell!None
        BY <2>1 DEF ShellInv, ShellTypes, Shell!Modes, Shell!None
      <4>2. shellResult'[c].code \in {"pid", Shell!None}
        BY <2>1, <2>3 DEF ShellInv, ShellTypes, Shell!Code
      <4> QED BY <3>1, <4>1, <4>2 DEF Honest, Shell!None, Shell!Killed, Shell!Timeout
    <3>2. CASE d # c
      BY <2>1, <3>2 DEF ShellInv, ShellTypes, Honest
    <3> QED BY <3>1, <3>2
  <2> QED BY <2>4, <2>5 DEF ShellInv
<1>3. CASE Shell!Forks(c) \/ Shell!LeftEnds(c) \/ Shell!LateChunk(c)
  BY <1>3 DEF ShellInv, ShellTypes, Honest, Shell!Forks, Shell!LeftEnds, Shell!LateChunk
<1>4. CASE Shell!Exits(c)
  BY <1>4 DEF ShellInv, ShellTypes, Honest, Shell!Exits, Shell!Goes, Shell!None,
              Shell!Killed, Shell!Timeout
<1>5. CASE Shell!Rings(c)
  BY <1>5
     DEF ShellInv, ShellTypes, Honest, Shell!Rings, Shell!KillsShell, Shell!Goes,
         Shell!None,
              Shell!Killed, Shell!Timeout
<1>6. CASE Shell!Overflows(c)
  BY <1>6 DEF ShellInv, ShellTypes, Honest, Shell!Overflows, Shell!Goes, Shell!None,
              Shell!Killed, Shell!Timeout
<1>7. CASE Shell!Closes(c)
  <2> DEFINE r == Shell!CodeOf(c)
  <2>1. /\ shellResult' = [shellResult EXCEPT ![c] = r]
        /\ shellTimer' = [shellTimer EXCEPT ![c] = "off"]
        /\ UNCHANGED <<shellMode, shell>>
        /\ shell[c] # Shell!None /\ shell[c] # "running"
    BY <1>7 DEF Shell!Closes, Shell!Answer, Shell!Waiting
  <2>2. shell[c] \in {"zero", "other", Shell!Killed, Shell!Timeout}
    BY <2>1 DEF ShellInv, ShellTypes
  <2>3. /\ r.code = IF shell[c] = Shell!Timeout THEN Shell!Killed ELSE shell[c]
        /\ r.interrupted = (shell[c] = Shell!Timeout \/ (shell[c] = Shell!Killed
                                                          /\ shellMode[c] = "logged"))
        /\ r = [code |-> r.code, interrupted |-> r.interrupted]
    BY DEF Shell!CodeOf, Shell!Code
  <2> HIDE DEF r
  <2>4. r \in [code : {Shell!None, "denied", "pid", "zero", "other", Shell!Killed},
               interrupted : BOOLEAN]
    <3>1. r.code \in {"zero", "other", Shell!Killed}
      BY <2>2, <2>3
    <3>2. r.interrupted \in BOOLEAN
      BY <2>3
    <3> QED BY <2>3, <3>1, <3>2
  <2>5. ShellTypes'
    BY <2>1, <2>4 DEF ShellInv, ShellTypes
  <2>6. Honest(c) /\ shellMode[c] # Shell!None
    BY <2>1 DEF ShellInv, Honest
  <2>7. ASSUME NEW d \in ShellCommands PROVE Honest(d)'
    <3>1. CASE d = c
      <4>1. shellResult'[c] = r
        BY <2>1 DEF ShellInv, ShellTypes
      <4>2. r.code = "zero" => shell[c] = "zero"
        BY <2>2, <2>3 DEF Shell!Killed, Shell!Timeout
      <4>3. r.code = Shell!Killed /\ shellMode[c] = "logged" => r.interrupted
        BY <2>2, <2>3 DEF Shell!Killed, Shell!Timeout
      <4> QED BY <2>1, <2>6, <3>1, <4>1, <4>2, <4>3 DEF Honest
    <3>2. CASE d # c
      BY <2>1, <3>2 DEF ShellInv, ShellTypes, Honest
    <3> QED BY <3>1, <3>2
  <2> QED BY <2>5, <2>7 DEF ShellInv
<1> QED BY <1>1, <1>2, <1>3, <1>4, <1>5, <1>6, <1>7

LEMMA NextShell == ShellInv /\ [Shell!Next]_(Shell!vars) => ShellInv'
<1> SUFFICES ASSUME ShellInv, [Shell!Next]_(Shell!vars) PROVE ShellInv'
  OBVIOUS
<1>1. CASE Shell!Next
  BY <1>1, AbortsHonest, CallsHonest DEF Shell!Next
<1>2. CASE UNCHANGED Shell!vars
  BY <1>2 DEF ShellInv, ShellTypes, Honest, Shell!vars
<1> QED BY <1>1, <1>2

(* The call reports code zero only of a shell that ended so by itself,      *)
(* however timer, abort and exit met (shell.ts).                            *)
THEOREM ShellHonestCodeHolds == Spec => []ShellHonestCode
<1>1. Init => ShellInv
  BY InitShell, Zenon DEF Init
<1>2. ShellInv /\ [Next]_vars => ShellInv'
  BY NextShell, ShellSteps
<1>3. ShellInv => ShellHonestCode
  BY DEF ShellInv, Honest, ShellHonestCode, Shell!HonestCode
<1> QED BY <1>1, <1>2, <1>3, PTL DEF Spec

-----------------------------------------------------------------------------
(* The turns around the agent loop.                                        *)

Statuses == {"pending", "in_progress", "completed"}
TaskT == [id : Nat, status : Statuses]
CheckT == [holds : SUBSET Turns, items : BOOLEAN, consumed : BOOLEAN]
TimerT == [absolute : BOOLEAN, active : {"off", "item", "fallback"},
           mode : {"none", "item", "fallback"}, list : BOOLEAN,
           snapshot : SUBSET TaskT, item : Nat]

Distinct(list) == \A x, y \in list : x.id = y.id => x = y

TurnTypes ==
  /\ phase \in [Turns -> {"new", "model", "deliver", "ended"}]
  /\ kind \in [Turns -> Turn!Sessions]
  /\ reason \in [Turns -> {"none", "item", "limit", "operator"}]
  /\ turnTimer \in [Turns -> TimerT]
  /\ current \in Turns \cup {Turn!NoTurn}
  /\ tasks \in [Turn!Sessions -> SUBSET TaskT]
  /\ \A s \in Turn!Sessions : Distinct(tasks[s])
  /\ IsFiniteSet(fresh)
  /\ unsynced \subseteq {t \in Turns : phase[t] = "model"}
  /\ attempt \in [Turns -> 1 .. (MaxAttempts + MaxEmpty)]
  /\ empties \in [Turns -> Nat]
  /\ demand \in [Turns -> {"none", "tool"}]
  /\ tools \in [Turns -> SUBSET {"met", "research", "effect"}]
  /\ checkpoint \in [Turn!Sessions -> CheckT]
  /\ reply \in [Turns -> {"nothing", "said", "kept", "done"}]

(* Turns that run together are of two sessions and noted as overlapped; what  *)
(* is current is no agent's turn, and a turn that no other ran beside is       *)
(* current itself.                                                         *)
Alone(t) == Turn!Running(t) /\ ~Turn!IsAgent(t) /\ t \notin overlapped

TurnsApart ==
  /\ \A t, u \in Turns : t # u /\ Turn!Running(t) /\ Turn!Running(u)
       => kind[t] # kind[u] /\ t \in overlapped /\ u \in overlapped
  /\ current # Turn!NoTurn => ~Turn!IsAgent(current)
  /\ \A t \in Turns : Alone(t) => current = t

(* A timer that counts for an item is in that mode; an agent's turn has none. *)
TimerInv ==
  \A t \in Turns :
    /\ turnTimer[t].active = "item" => turnTimer[t].mode = "item"
    /\ Turn!IsAgent(t) => turnTimer[t] = Turn!IdleTimer

(* A checkpoint holds the evidence of turns of its own session, and what was  *)
(* promised is in one that is not consumed.                                *)
KeptInv ==
  /\ \A s \in Turn!Sessions : \A u \in checkpoint[s].holds : kind[u] = s
  /\ promised \subseteq Turns
  /\ Turn!KeptUntilAnswered

(* A turn that was left without a word had cause to.                        *)
SilentInv ==
  \A t \in Turns : phase[t] \in {"deliver", "ended"} /\ reply[t] = "nothing" => t \in silent

TurnInv ==
  /\ TurnTypes /\ TurnsApart /\ TimerInv /\ Turn!LimitStands /\ Turn!ItemIsOpen
  /\ KeptInv /\ SilentInv

-----------------------------------------------------------------------------
(* Lists of tasks. What the runtime does to a list concerns its own tasks:   *)
(* every other stays as it is.                                             *)

ListOf(list) == list \in SUBSET TaskT /\ Distinct(list)

Follows(new, list) ==
  /\ ListOf(new)
  /\ \A x \in list : x.id \notin Turn!Proactive => x \in new

LEMMA WithFollows ==
  ASSUME NEW list, ListOf(list), NEW id \in Turn!Proactive, NEW status \in Statuses
  PROVE  Follows(Turn!With(list, id, status), list)
<1> DEFINE new == Turn!With(list, id, status)
<1>1. id \in Nat
  BY DEF Turn!Proactive, Turn!First, Turn!Search, Turn!Answer
<1>2. ASSUME NEW x \in list
      PROVE  LET y == IF x.id = id THEN [x EXCEPT !.status = status] ELSE x
             IN y \in TaskT /\ y.id = x.id /\ (x.id = id => y = [id |-> id, status |-> status])
  BY <1>1 DEF ListOf, TaskT
<1>3. ListOf(new)
  <2>1. new \in SUBSET TaskT
    BY <1>2 DEF Turn!With
  <2>2. ASSUME NEW a \in new, NEW b \in new, a.id = b.id PROVE a = b
    <3>1. PICK x \in list : a = IF x.id = id THEN [x EXCEPT !.status = status] ELSE x
      BY DEF Turn!With
    <3>2. PICK y \in list : b = IF y.id = id THEN [y EXCEPT !.status = status] ELSE y
      BY DEF Turn!With
    <3>3. x.id = y.id
      BY <1>2, <2>2, <3>1, <3>2
    <3> QED BY <3>1, <3>2, <3>3 DEF ListOf, Distinct
  <2> QED BY <2>1, <2>2 DEF ListOf, Distinct
<1>4. ASSUME NEW x \in list, x.id \notin Turn!Proactive PROVE x \in new
  <2>1. x.id # id
    BY <1>4
  <2> QED BY <2>1 DEF Turn!With
<1> QED BY <1>3, <1>4 DEF Follows

LEMMA FollowsTwice ==
  ASSUME NEW a, NEW b, NEW c, Follows(b, a), Follows(c, b)
  PROVE  Follows(c, a)
BY DEF Follows

LEMMA FollowsItself ==
  ASSUME NEW a, ListOf(a)
  PROVE  Follows(a, a)
BY DEF Follows

LEMMA PromotedFollows ==
  ASSUME NEW list, ListOf(list)
  PROVE  Follows(Turn!Promoted(list), list)
<1> DEFINE open == {i \in Turn!Proactive : [id |-> i, status |-> "pending"] \in list}
           next == IF Turn!First \in open THEN Turn!First
                   ELSE IF Turn!Search \in open THEN Turn!Search ELSE Turn!Answer
<1>1. Turn!Promoted(list) = list \/ Turn!Promoted(list) = Turn!With(list, next, "in_progress")
  BY DEF Turn!Promoted
<1>2. next \in Turn!Proactive
  BY DEF Turn!Proactive
<1>3. Follows(Turn!With(list, next, "in_progress"), list)
  BY <1>2, WithFollows DEF Statuses
<1> QED BY <1>1, <1>3, FollowsItself

LEMMA LocatedFollows ==
  ASSUME NEW list, ListOf(list)
  PROVE  Follows(Turn!Located(list), list)
<1>1. Follows(Turn!With(list, Turn!First, "completed"), list)
  BY WithFollows DEF Statuses, Turn!Proactive
<1>2. Follows(Turn!Promoted(Turn!With(list, Turn!First, "completed")), list)
  BY <1>1, PromotedFollows, FollowsTwice DEF Follows
<1> QED BY <1>2, FollowsItself DEF Turn!Located

LEMMA AdvancedFollows ==
  ASSUME NEW list, ListOf(list), NEW tool
  PROVE  Follows(Turn!Advanced(list, tool), list)
<1> DEFINE one == Turn!With(list, Turn!First, "completed")
           two == Turn!With(one, Turn!Search, "completed")
           three == Turn!With(two, Turn!Answer, "in_progress")
<1>1. Follows(one, list)
  BY WithFollows DEF Statuses, Turn!Proactive
<1>2. Follows(two, one)
  <2> HIDE DEF one
  <2> QED BY <1>1, WithFollows DEF Statuses, Turn!Proactive, Follows
<1>3. Follows(three, two)
  <2> HIDE DEF two
  <2> QED BY <1>2, WithFollows DEF Statuses, Turn!Proactive, Follows
<1>4. Follows(Turn!Promoted(one), one)
  BY <1>1, PromotedFollows DEF Follows
<1>5. Turn!Advanced(list, tool) \in {three, Turn!Promoted(one), list}
  BY DEF Turn!Advanced
<1> HIDE DEF one, two, three
<1> QED BY <1>1, <1>2, <1>3, <1>4, <1>5, FollowsTwice, FollowsItself

LEMMA FinalizedFollows ==
  ASSUME NEW list, ListOf(list), NEW t, NEW r
  PROVE  Follows(Turn!Finalized(list, t, r), list)
BY WithFollows, FollowsItself DEF Turn!Finalized, Statuses, Turn!Proactive

LEMMA SeededFollows ==
  ASSUME NEW list, ListOf(list), NEW ready \in BOOLEAN
  PROVE  Follows(Turn!Seeded(list, ready), list)
<1> DEFINE old == {x \in list : x.id \notin Turn!Proactive}
           mine == (IF ready THEN {} ELSE {[id |-> Turn!First, status |-> "in_progress"]}) \cup
             {[id |-> Turn!Search, status |-> IF ready THEN "in_progress" ELSE "pending"],
              [id |-> Turn!Answer, status |-> "pending"]}
<1>1. Turn!Seeded(list, ready) = old \cup mine
  BY DEF Turn!Seeded
<1>2. /\ mine \subseteq TaskT /\ \A x \in mine : x.id \in Turn!Proactive
      /\ \A x, y \in mine : x.id = y.id => x = y
  BY DEF TaskT, Statuses, Turn!Proactive, Turn!First, Turn!Search, Turn!Answer
<1> HIDE DEF mine
<1> QED BY <1>1, <1>2 DEF Follows, ListOf, Distinct

-----------------------------------------------------------------------------
(* Timers. What counts for an item counts for one the list has in progress.  *)

Counts(tm, list) ==
  tm.active = "item" =>
    /\ tm.mode = "item"
    /\ [id |-> tm.item, status |-> "in_progress"] \in list

LEMMA ArmedFor ==
  ASSUME NEW tm \in TimerT, NEW list, ListOf(list), NEW S, S \subseteq Turn!Doing(list), S # {}
  PROVE  LET new == Turn!ArmItem(tm, CHOOSE x \in S : TRUE)
         IN new \in TimerT /\ new.absolute = tm.absolute /\ Counts(new, list)
<1> DEFINE x == CHOOSE x \in S : TRUE
<1>1. x \in S
  OBVIOUS
<1>2. x \in list /\ x.status = "in_progress" /\ x \in TaskT
  BY <1>1 DEF Turn!Doing, ListOf
<1>3. x = [id |-> x.id, status |-> "in_progress"] /\ x.id \in Nat
  BY <1>2 DEF TaskT
<1> HIDE DEF x
<1>4. Turn!ArmItem(tm, x) = [tm EXCEPT !.active = "item", !.mode = "item", !.item = x.id]
  BY DEF Turn!ArmItem
<1>5. Turn!ArmItem(tm, x) \in TimerT /\ Turn!ArmItem(tm, x).absolute = tm.absolute
  BY <1>3, <1>4 DEF TimerT
<1>6. Turn!ArmItem(tm, x).item = x.id /\ Turn!ArmItem(tm, x).mode = "item"
  BY <1>4 DEF TimerT
<1>7. Counts(Turn!ArmItem(tm, x), list)
  BY <1>2, <1>3, <1>6 DEF Counts
<1> QED BY <1>5, <1>7 DEF x

LEMMA TimerBegins ==
  ASSUME NEW list, ListOf(list)
  PROVE  LET new == Turn!TimerBeginTurn(list)
         IN new \in TimerT /\ new.absolute /\ Counts(new, list)
<1> DEFINE tm == [Turn!IdleTimer EXCEPT !.absolute = TRUE, !.list = list # {}, !.snapshot = list]
<1>1. tm \in TimerT /\ tm.absolute = TRUE /\ tm.active = "off"
  BY DEF ListOf, TimerT, Turn!IdleTimer, Turn!NoTask
<1> HIDE DEF tm
<1>2. CASE Turn!Doing(list) = {}
  <2>1. Turn!TimerBeginTurn(list) = tm
    BY <1>2 DEF Turn!TimerBeginTurn, tm
  <2> QED BY <1>1, <2>1 DEF Counts
<1>3. CASE Turn!Doing(list) # {}
  <2>1. Turn!TimerBeginTurn(list) = Turn!ArmItem(tm, CHOOSE x \in Turn!Doing(list) : TRUE)
    BY <1>3 DEF Turn!TimerBeginTurn, tm
  <2> QED BY <1>1, <1>3, <2>1, ArmedFor
<1> QED BY <1>2, <1>3

LEMMA WorkKeepsTimer ==
  ASSUME NEW tm \in TimerT
  PROVE  LET new == Turn!OnWorkActivity(tm)
         IN /\ new \in TimerT /\ new.absolute = tm.absolute
            /\ new.active = "item" => new = tm
BY DEF Turn!OnWorkActivity, Turn!ClearActive, TimerT, Turn!NoTask

LEMMA SyncedCounts ==
  ASSUME NEW tm \in TimerT, NEW list, ListOf(list), tm.active = "item" => tm.mode = "item"
  PROVE  LET new == Turn!SyncAfterTodoWrite(tm, list)
         IN new \in TimerT /\ new.absolute = tm.absolute /\ Counts(new, list)
<1> DEFINE seen == [tm EXCEPT !.list = list # {}, !.snapshot = list]
           new == {x \in Turn!Doing(list) : x.id # tm.item}
           result == Turn!SyncAfterTodoWrite(tm, list)
<1>1. /\ seen \in TimerT /\ seen.absolute = tm.absolute /\ seen.active = tm.active
      /\ seen.mode = tm.mode /\ seen.item = tm.item
  BY DEF ListOf, TimerT
<1>2. CASE new # {}
  <2>1. result = Turn!ArmItem(seen, CHOOSE x \in new : TRUE)
    BY <1>2 DEF Turn!SyncAfterTodoWrite
  <2>2. new \subseteq Turn!Doing(list)
    OBVIOUS
  <2> HIDE DEF seen, new, result
  <2>3. result \in TimerT /\ result.absolute = seen.absolute /\ Counts(result, list)
    BY <1>1, <1>2, <2>1, <2>2, ArmedFor
  <2> QED BY <1>1, <2>3 DEF result
<1>3. CASE new = {} /\ Turn!Doing(list) = {} /\ tm.mode = "item"
  <2>1. result = [Turn!ClearActive(seen) EXCEPT !.mode = "none"]
    BY <1>3 DEF Turn!SyncAfterTodoWrite
  <2> HIDE DEF seen, result
  <2>2. result \in TimerT /\ result.absolute = seen.absolute /\ result.active = "off"
    BY <1>1, <2>1 DEF Turn!ClearActive, TimerT, Turn!NoTask
  <2> QED BY <1>1, <2>2 DEF Counts, result
<1>4. CASE new = {} /\ ~(Turn!Doing(list) = {} /\ tm.mode = "item")
  <2>1. result = seen
    BY <1>4, Zenon DEF Turn!SyncAfterTodoWrite
  <2>2. Counts(seen, list)
    <3>1. SUFFICES ASSUME tm.active = "item" PROVE [id |-> tm.item, status |-> "in_progress"] \in list
      BY <1>1 DEF Counts
    <3>2. PICK x \in Turn!Doing(list) : x.id = tm.item
      BY <1>4, <3>1
    <3>3. x \in list /\ x = [id |-> x.id, status |-> "in_progress"]
      BY DEF Turn!Doing, ListOf, TaskT
    <3> QED BY <3>2, <3>3
  <2> HIDE DEF seen, result
  <2> QED BY <1>1, <2>1, <2>2 DEF result
<1> QED BY <1>2, <1>3, <1>4

-----------------------------------------------------------------------------
(* What a step keeps that begins no turn.                                   *)

(* No turn begins or goes back to the model, and who ran beside another did.  *)
NoneBegins ==
  /\ UNCHANGED <<kind, overlapped>>
  /\ \A t \in Turns : /\ phase'[t] = "model" => phase[t] = "model"
                      /\ Turn!Running(t)' => Turn!Running(t)

LEMMA ApartStays ==
  ASSUME TurnInv, NoneBegins, UNCHANGED current
  PROVE  TurnsApart'
<1>1. TurnsApart
  BY DEF TurnInv
<1>2. \A t \in Turns : /\ Turn!Running(t)' => Turn!Running(t)
                       /\ Alone(t)' => Alone(t)
  BY DEF NoneBegins, Alone, Turn!IsAgent
<1>3. Turn!IsAgent(current)' <=> Turn!IsAgent(current)
  BY DEF NoneBegins, Turn!IsAgent
<1>4. \A t, u \in Turns : t # u /\ Turn!Running(t)' /\ Turn!Running(u)'
        => kind'[t] # kind'[u] /\ t \in overlapped' /\ u \in overlapped'
  BY <1>1, <1>2 DEF TurnsApart, NoneBegins
<1>5. \A t \in Turns : Alone(t)' => current' = t
  BY <1>1, <1>2 DEF TurnsApart
<1> QED BY <1>1, <1>3, <1>4, <1>5 DEF TurnsApart, Turn!NoTurn

LEMMA LimitStays ==
  ASSUME TurnInv, NoneBegins,
         \A t \in Turns : /\ turnTimer[t].absolute => turnTimer'[t].absolute \/ reason'[t] # "none"
                          /\ reason[t] # "none" /\ phase'[t] = "model" => reason'[t] # "none"
  PROVE  Turn!LimitStands'
BY DEF TurnInv, NoneBegins, Turn!LimitStands, Turn!IsAgent

LEMMA ItemStays ==
  ASSUME TurnInv, NoneBegins, unsynced \subseteq unsynced',
         \A t \in Turns : turnTimer'[t].active = "item" =>
           turnTimer[t].active = "item" /\ turnTimer'[t].item = turnTimer[t].item,
         \A s \in Turn!Sessions : Follows(tasks'[s], tasks[s])
  PROVE  Turn!ItemIsOpen'
<1> SUFFICES ASSUME NEW t \in Turns, phase'[t] = "model", t \notin overlapped', t \notin unsynced',
                    turnTimer'[t].active = "item", turnTimer'[t].item \notin Turn!Proactive
             PROVE  [id |-> turnTimer'[t].item, status |-> "in_progress"] \in tasks'[kind'[t]]
  BY DEF Turn!ItemIsOpen, Turn!Session
<1>1. [id |-> turnTimer[t].item, status |-> "in_progress"] \in tasks[kind[t]]
  BY DEF NoneBegins, TurnInv, Turn!ItemIsOpen, Turn!Session
<1>2. kind[t] \in Turn!Sessions
  BY DEF TurnInv, TurnTypes
<1> QED BY <1>1, <1>2 DEF Follows, NoneBegins

LEMMA KeptStays ==
  ASSUME TurnInv, UNCHANGED <<kind, checkpoint, promised>>
  PROVE  KeptInv'
BY DEF TurnInv, KeptInv, Turn!KeptUntilAnswered, Turn!ReadCheckpoint, Turn!Session

LEMMA SilentStays ==
  ASSUME TurnInv, UNCHANGED <<reply, silent>>,
         \A t \in Turns : phase'[t] \in {"deliver", "ended"} => phase[t] \in {"deliver", "ended"}
  PROVE  SilentInv'
BY DEF TurnInv, SilentInv

(* A step that leaves the timers, or the clock's part of them, as they are.  *)
LEMMA TimerStays ==
  ASSUME TurnInv, UNCHANGED kind,
         \A t \in Turns : /\ turnTimer'[t].active = "item" =>
                               turnTimer[t].active = "item" /\ turnTimer'[t].mode = turnTimer[t].mode
                          /\ Turn!IsAgent(t) => turnTimer'[t] = turnTimer[t]
  PROVE  TimerInv'
<1>1. \A t \in Turns : Turn!IsAgent(t)' <=> Turn!IsAgent(t)
  BY DEF Turn!IsAgent
<1> QED BY <1>1 DEF TurnInv, TimerInv, Turn!IdleTimer

LEMMA WorkGoesOn ==
  ASSUME TurnInv, Turn!WorkActivity
  PROVE  /\ turnTimer' \in [Turns -> TimerT]
         /\ \A t \in Turns :
              /\ turnTimer'[t].absolute = turnTimer[t].absolute
              /\ turnTimer'[t].active = "item" => turnTimer'[t] = turnTimer[t]
              /\ Turn!IsAgent(t) => turnTimer'[t] = turnTimer[t]
<1>1. turnTimer \in [Turns -> TimerT] /\ current \in Turns \cup {Turn!NoTurn}
      /\ (current # Turn!NoTurn => ~Turn!IsAgent(current))
  BY DEF TurnInv, TurnTypes, TurnsApart
<1>2. CASE current = Turn!NoTurn
  BY <1>1, <1>2 DEF Turn!WorkActivity
<1>3. CASE current # Turn!NoTurn
  <2>1. turnTimer' = [turnTimer EXCEPT ![current] = Turn!OnWorkActivity(turnTimer[current])]
    BY <1>3 DEF Turn!WorkActivity
  <2>2. current \in Turns
    BY <1>1, <1>3
  <2> QED BY <1>1, <1>3, <2>1, <2>2, WorkKeepsTimer
<1> QED BY <1>2, <1>3

-----------------------------------------------------------------------------
(* The steps of a turn.                                                    *)

LEMMA FiresKeeps ==
  ASSUME TurnInv, NEW t \in Turns, Turn!AbsoluteFires(t) \/ Turn!ActiveFires(t)
  PROVE  TurnInv'
<1>1. PICK why \in {"item", "limit"} : reason[t] = "none" /\ reason' = [reason EXCEPT ![t] = why]
  BY DEF Turn!AbsoluteFires, Turn!ActiveFires, Turn!Fire
<1>2. /\ UNCHANGED <<phase, kind, current, tasks, fresh, unsynced, attempt, empties, demand, tools,
                     checkpoint, reply, overlapped, injected, promised, silent>>
      /\ \/ turnTimer' = [turnTimer EXCEPT ![t].absolute = FALSE] /\ turnTimer[t].absolute
         \/ turnTimer' = [turnTimer EXCEPT ![t].active = "off"] /\ turnTimer[t].active # "off"
  BY DEF Turn!AbsoluteFires, Turn!ActiveFires, Turn!lists, Turn!loop, Turn!history
<1>3. /\ turnTimer \in [Turns -> TimerT] /\ turnTimer[t] \in TimerT
      /\ reason \in [Turns -> {"none", "item", "limit", "operator"}]
  BY DEF TurnInv, TurnTypes
<1>4. ~Turn!IsAgent(t)
  <2>1. turnTimer[t] # Turn!IdleTimer
    BY <1>2 DEF Turn!IdleTimer
  <2> QED BY <2>1 DEF TurnInv, TimerInv
<1>5. /\ turnTimer' \in [Turns -> TimerT]
      /\ \A u \in Turns : /\ turnTimer'[u].active = "item" =>
                               /\ turnTimer[u].active = "item" /\ turnTimer'[u].mode = turnTimer[u].mode
                               /\ turnTimer'[u].item = turnTimer[u].item
                          /\ u # t => turnTimer'[u] = turnTimer[u]
  <2>1. PICK tm \in TimerT : /\ turnTimer' = [turnTimer EXCEPT ![t] = tm]
                             /\ tm.active = "item" => /\ turnTimer[t].active = "item"
                                                      /\ tm.mode = turnTimer[t].mode
                                                      /\ tm.item = turnTimer[t].item
    <3>1. CASE turnTimer' = [turnTimer EXCEPT ![t].absolute = FALSE]
      <4> DEFINE tm == [turnTimer[t] EXCEPT !.absolute = FALSE]
      <4>1. tm \in TimerT /\ tm.active = turnTimer[t].active /\ tm.mode = turnTimer[t].mode
            /\ tm.item = turnTimer[t].item
        BY <1>3 DEF TimerT
      <4>2. turnTimer' = [turnTimer EXCEPT ![t] = tm]
        BY <3>1
      <4> QED BY <4>1, <4>2
    <3>2. CASE turnTimer' = [turnTimer EXCEPT ![t].active = "off"]
      <4> DEFINE tm == [turnTimer[t] EXCEPT !.active = "off"]
      <4>1. tm \in TimerT /\ tm.active = "off"
        BY <1>3 DEF TimerT
      <4>2. turnTimer' = [turnTimer EXCEPT ![t] = tm]
        BY <3>2
      <4> QED BY <4>1, <4>2
    <3> QED BY <1>2, <3>1, <3>2
  <2> QED BY <1>3, <2>1
<1>6. \A u \in Turns : /\ turnTimer[u].absolute => turnTimer'[u].absolute \/ reason'[u] # "none"
                       /\ reason[u] # "none" => reason'[u] # "none"
  BY <1>1, <1>2, <1>3, <1>5 DEF TimerT
<1>7. TurnTypes'
  BY <1>1, <1>2, <1>3, <1>5 DEF TurnInv, TurnTypes
<1>8. NoneBegins
  BY <1>2 DEF NoneBegins, Turn!Running
<1>9. \A s \in Turn!Sessions : Follows(tasks'[s], tasks[s])
  BY <1>2, FollowsItself DEF TurnInv, TurnTypes, ListOf
<1>10. TurnsApart'
  BY <1>2, <1>8, ApartStays
<1>11. TimerInv'
  BY <1>2, <1>4, <1>5, TimerStays
<1>12. Turn!LimitStands'
  BY <1>6, <1>8, LimitStays
<1>13. Turn!ItemIsOpen'
  BY <1>2, <1>5, <1>8, <1>9, ItemStays
<1>14. KeptInv' /\ SilentInv'
  BY <1>2, KeptStays, SilentStays
<1> QED BY <1>7, <1>10, <1>11, <1>12, <1>13, <1>14 DEF TurnInv

LEMMA AbortKeeps ==
  ASSUME TurnInv, NEW t \in Turns, NEW why \in {"operator", "limit"}, Turn!Abort(t, why)
  PROVE  TurnInv'
<1>1. /\ reason[t] = "none" /\ reason' = [reason EXCEPT ![t] = why]
      /\ UNCHANGED <<phase, kind, turnTimer, current, tasks, fresh, unsynced, attempt, empties,
                     demand, tools, checkpoint, reply, overlapped, injected, promised, silent>>
  BY DEF Turn!Abort, Turn!Fire, Turn!lists, Turn!loop, Turn!history
<1>2. TurnTypes'
  BY <1>1 DEF TurnInv, TurnTypes
<1>3. NoneBegins
  BY <1>1 DEF NoneBegins, Turn!Running
<1>4. \A s \in Turn!Sessions : Follows(tasks'[s], tasks[s])
  BY <1>1, FollowsItself DEF TurnInv, TurnTypes, ListOf
<1>5. \A u \in Turns : reason[u] # "none" => reason'[u] # "none"
  BY <1>1 DEF TurnInv, TurnTypes
<1>6. TurnsApart'
  BY <1>1, <1>3, ApartStays
<1>7. TimerInv'
  BY <1>1, TimerStays
<1>8. Turn!LimitStands'
  BY <1>1, <1>3, <1>5, LimitStays
<1>9. Turn!ItemIsOpen'
  BY <1>1, <1>3, <1>4, ItemStays
<1>10. KeptInv' /\ SilentInv'
  BY <1>1, KeptStays, SilentStays
<1> QED BY <1>2, <1>6, <1>7, <1>8, <1>9, <1>10 DEF TurnInv

LEMMA ToolRunsKeeps ==
  ASSUME TurnInv, NEW t \in Turns, NEW tool \in {"met", "research", "effect"}, Turn!ToolRuns(t, tool)
  PROVE  TurnInv'
<1> DEFINE s == kind[t]
<1>1. /\ UNCHANGED <<phase, kind, reason, current, fresh, unsynced, attempt, empties, demand,
                     checkpoint, reply, overlapped, injected, promised, silent>>
      /\ tools' = [tools EXCEPT ![t] = @ \cup {tool}]
      /\ tasks' = tasks \/ tasks' = [tasks EXCEPT ![s] = Turn!Advanced(tasks[s], tool)]
      /\ Turn!WorkActivity
  BY DEF Turn!ToolRuns, Turn!history, Turn!Session
<1>2. s \in Turn!Sessions /\ tasks \in [Turn!Sessions -> SUBSET TaskT]
      /\ \A q \in Turn!Sessions : ListOf(tasks[q])
  BY DEF TurnInv, TurnTypes, ListOf
<1>3. \A q \in Turn!Sessions : Follows(tasks'[q], tasks[q])
  BY <1>1, <1>2, AdvancedFollows, FollowsItself
<1>4. tasks' \in [Turn!Sessions -> SUBSET TaskT] /\ \A q \in Turn!Sessions : Distinct(tasks'[q])
  BY <1>1, <1>2, <1>3 DEF Follows, ListOf
<1>5. TurnTypes'
  BY <1>1, <1>4, WorkGoesOn DEF TurnInv, TurnTypes
<1>6. NoneBegins
  BY <1>1 DEF NoneBegins, Turn!Running
<1>7. TurnsApart'
  BY <1>1, <1>6, ApartStays
<1>8. TimerInv'
  BY <1>1, WorkGoesOn, TimerStays
<1>9. Turn!LimitStands'
  BY <1>1, <1>6, WorkGoesOn, LimitStays
<1>10. Turn!ItemIsOpen'
  BY <1>1, <1>3, <1>6, WorkGoesOn, ItemStays
<1>11. KeptInv' /\ SilentInv'
  BY <1>1, KeptStays, SilentStays
<1> QED BY <1>5, <1>7, <1>8, <1>9, <1>10, <1>11 DEF TurnInv

LEMMA TodoWriteKeeps ==
  ASSUME TurnInv, NEW t \in Turns, NEW done \in BOOLEAN, NEW doing \in BOOLEAN,
         Turn!TodoWrite(t, done, doing)
  PROVE  TurnInv'
<1> DEFINE s == kind[t]
           n == 2 * Turn!Cardinality(fresh) + 4
           items == (IF done THEN {[id |-> n, status |-> "completed"]} ELSE {}) \cup
                    (IF doing THEN {[id |-> n + 1, status |-> "in_progress"]} ELSE {})
<1>1. /\ phase[t] = "model"
      /\ UNCHANGED <<phase, kind, reason, current, attempt, empties, demand, tools,
                     checkpoint, reply, overlapped, injected, promised, silent>>
      /\ tasks' = [tasks EXCEPT ![s] = items]
      /\ fresh' = fresh \cup {n}
      /\ unsynced' = unsynced \cup {t}
      /\ Turn!WorkActivity
  BY Zenon DEF Turn!TodoWrite, Turn!loop, Turn!Session
<1>2. n \in Nat
  <2>1. Turn!Cardinality(fresh) = Cardinality(fresh)
    BY DEF Turn!Cardinality, Cardinality
  <2>2. IsFiniteSet(fresh)
    BY Zenon DEF TurnInv, TurnTypes
  <2>3. Cardinality(fresh) \in Nat
    BY <2>2, FS_CardinalityType
  <2> QED BY <2>1, <2>3
<1>3. ListOf(items)
  <2> HIDE DEF n
  <2>1. items \subseteq TaskT
    BY <1>2 DEF TaskT, Statuses
  <2>2. Distinct(items)
    BY <1>2 DEF Distinct
  <2> QED BY <2>1, <2>2 DEF ListOf
<1> HIDE DEF items, n
<1>4. IsFiniteSet(fresh')
  BY <1>1, FS_AddElement DEF TurnInv, TurnTypes
<1>5. s \in Turn!Sessions /\ tasks \in [Turn!Sessions -> SUBSET TaskT]
      /\ \A q \in Turn!Sessions : Distinct(tasks[q])
  BY DEF TurnInv, TurnTypes
<1>6. tasks' \in [Turn!Sessions -> SUBSET TaskT] /\ \A q \in Turn!Sessions : Distinct(tasks'[q])
  BY <1>1, <1>3, <1>5 DEF ListOf
<1>7. TurnTypes'
  BY <1>1, <1>4, <1>6, WorkGoesOn DEF TurnInv, TurnTypes
<1>8. NoneBegins
  BY <1>1 DEF NoneBegins, Turn!Running
<1>9. TurnsApart'
  BY <1>1, <1>8, ApartStays
<1>10. TimerInv'
  BY <1>1, WorkGoesOn, TimerStays
<1>11. Turn!LimitStands'
  BY <1>1, <1>8, WorkGoesOn, LimitStays
<1>12. Turn!ItemIsOpen'
  <2> SUFFICES ASSUME NEW u \in Turns, phase'[u] = "model", u \notin overlapped', u \notin unsynced',
                      turnTimer'[u].active = "item", turnTimer'[u].item \notin Turn!Proactive
               PROVE  [id |-> turnTimer'[u].item, status |-> "in_progress"] \in tasks'[kind'[u]]
    BY DEF Turn!ItemIsOpen, Turn!Session
  <2>1. turnTimer'[u] = turnTimer[u]
    BY WorkGoesOn, <1>1
  <2>2. [id |-> turnTimer[u].item, status |-> "in_progress"] \in tasks[kind[u]]
    BY <1>1, <2>1 DEF TurnInv, Turn!ItemIsOpen, Turn!Session
  <2>3. kind[u] # s
    BY <1>1 DEF TurnInv, TurnsApart, Turn!Running
  <2>4. kind[u] \in Turn!Sessions
    BY DEF TurnInv, TurnTypes
  <2> QED BY <1>1, <1>5, <2>1, <2>2, <2>3, <2>4
<1>13. KeptInv' /\ SilentInv'
  BY <1>1, KeptStays, SilentStays
<1> QED BY <1>7, <1>9, <1>10, <1>11, <1>12, <1>13 DEF TurnInv

LEMMA TodoSyncedKeeps ==
  ASSUME TurnInv, NEW t \in Turns, Turn!TodoSynced(t)
  PROVE  TurnInv'
<1> DEFINE list == tasks[kind[t]]
           synced == Turn!SyncAfterTodoWrite(turnTimer[current], list)
           s == kind[current]
<1>1. /\ t \in unsynced /\ unsynced' = unsynced \ {t}
      /\ UNCHANGED <<phase, kind, reason, current, tasks, fresh, attempt, empties, demand, tools,
                     reply, overlapped, injected, promised, silent>>
  BY Zenon DEF Turn!TodoSynced, Turn!loop, Turn!history
<1>2. /\ current = Turn!NoTurn => UNCHANGED <<turnTimer, checkpoint>>
      /\ current # Turn!NoTurn =>
           /\ turnTimer' = [turnTimer EXCEPT ![current] = synced]
           /\ \/ UNCHANGED checkpoint
              \/ checkpoint' = [checkpoint EXCEPT ![s] =
                   [holds |-> Turn!ReadCheckpoint(s) \cup {current}, items |-> TRUE, consumed |-> FALSE]]
  BY Zenon DEF Turn!TodoSynced, Turn!Session
<1>3. /\ phase[t] = "model" /\ turnTimer \in [Turns -> TimerT]
      /\ current \in Turns \cup {Turn!NoTurn} /\ ListOf(list)
      /\ kind \in [Turns -> Turn!Sessions]
      /\ checkpoint \in [Turn!Sessions -> CheckT]
  BY <1>1 DEF TurnInv, TurnTypes, ListOf
<1>4. current # Turn!NoTurn =>
        /\ current \in Turns /\ ~Turn!IsAgent(current)
        /\ synced \in TimerT /\ synced.absolute = turnTimer[current].absolute /\ Counts(synced, list)
  <2> SUFFICES ASSUME current # Turn!NoTurn
               PROVE  /\ current \in Turns /\ ~Turn!IsAgent(current)
                      /\ synced \in TimerT /\ synced.absolute = turnTimer[current].absolute
                      /\ Counts(synced, list)
    OBVIOUS
  <2>1. current \in Turns /\ ~Turn!IsAgent(current)
    BY <1>3 DEF TurnInv, TurnsApart
  <2>2. turnTimer[current].active = "item" => turnTimer[current].mode = "item"
    BY <2>1 DEF TurnInv, TimerInv
  <2> HIDE DEF list
  <2> QED BY <1>3, <2>1, <2>2, SyncedCounts
<1> HIDE DEF list, synced
<1>5. /\ turnTimer' \in [Turns -> TimerT]
      /\ \A u \in Turns : /\ turnTimer'[u].absolute = turnTimer[u].absolute
                          /\ u # current => turnTimer'[u] = turnTimer[u]
                          /\ u = current => Counts(turnTimer'[u], list)
  <2>1. CASE current = Turn!NoTurn
    BY <1>2, <1>3, <2>1, TurnAssumption DEF Turn!NoTurn
  <2>2. CASE current # Turn!NoTurn
    BY <1>2, <1>3, <1>4, <2>2
  <2> QED BY <2>1, <2>2
<1>6. /\ checkpoint' \in [Turn!Sessions -> CheckT]
      /\ \A q \in Turn!Sessions :
           \/ checkpoint'[q] = checkpoint[q]
           \/ /\ checkpoint'[q].consumed = FALSE
              /\ Turn!ReadCheckpoint(q) \subseteq checkpoint'[q].holds
              /\ \A u \in checkpoint'[q].holds : kind[u] = q
  <2>1. CASE UNCHANGED checkpoint
    BY <1>3, <2>1
  <2>2. CASE current # Turn!NoTurn /\ checkpoint' = [checkpoint EXCEPT ![s] =
                   [holds |-> Turn!ReadCheckpoint(s) \cup {current}, items |-> TRUE, consumed |-> FALSE]]
    <3>1. s \in Turn!Sessions /\ Turn!ReadCheckpoint(s) \subseteq checkpoint[s].holds
      BY <1>3, <1>4, <2>2 DEF Turn!ReadCheckpoint
    <3>2. Turn!ReadCheckpoint(s) \subseteq Turns /\ \A u \in Turn!ReadCheckpoint(s) : kind[u] = s
      BY <1>3, <3>1 DEF TurnInv, KeptInv, CheckT
    <3> DEFINE new == [holds |-> Turn!ReadCheckpoint(s) \cup {current}, items |-> TRUE, consumed |-> FALSE]
    <3>3. /\ new \in CheckT /\ new.consumed = FALSE /\ Turn!ReadCheckpoint(s) \subseteq new.holds
          /\ \A u \in new.holds : kind[u] = s
      BY <1>4, <2>2, <3>2 DEF CheckT
    <3>4. checkpoint' = [checkpoint EXCEPT ![s] = new]
      BY <2>2
    <3> HIDE DEF new
    <3> QED BY <1>3, <3>1, <3>3, <3>4
  <2> QED BY <1>2, <2>1, <2>2
<1>7. TurnTypes'
  BY <1>1, <1>5, <1>6 DEF TurnInv, TurnTypes
<1>8. NoneBegins
  BY <1>1 DEF NoneBegins, Turn!Running
<1>9. TurnsApart'
  BY <1>1, <1>8, ApartStays
<1>10. TimerInv'
  <2>1. \A u \in Turns : Turn!IsAgent(u)' <=> Turn!IsAgent(u)
    BY <1>1 DEF Turn!IsAgent
  <2>2. ASSUME NEW u \in Turns
        PROVE  /\ turnTimer'[u].active = "item" => turnTimer'[u].mode = "item"
               /\ Turn!IsAgent(u)' => turnTimer'[u] = Turn!IdleTimer
    <3>1. CASE u = current
      BY <1>3, <1>4, <1>5, <2>1, <3>1, TurnAssumption DEF Counts, Turn!NoTurn
    <3>2. CASE u # current
      BY <1>5, <2>1, <3>2 DEF TurnInv, TimerInv
    <3> QED BY <3>1, <3>2
  <2> QED BY <2>2 DEF TimerInv, Turn!IdleTimer
<1>11. Turn!LimitStands'
  BY <1>1, <1>5, <1>8, LimitStays
<1>12. Turn!ItemIsOpen'
  <2> SUFFICES ASSUME NEW u \in Turns, phase'[u] = "model", u \notin overlapped', u \notin unsynced',
                      turnTimer'[u].active = "item", turnTimer'[u].item \notin Turn!Proactive
               PROVE  [id |-> turnTimer'[u].item, status |-> "in_progress"] \in tasks'[kind'[u]]
    BY DEF Turn!ItemIsOpen, Turn!Session
  <2>1. u = t
    <3>1. Turn!Running(u) /\ Turn!Running(t) /\ u \notin overlapped
      BY <1>1, <1>3 DEF Turn!Running
    <3> QED BY <3>1 DEF TurnInv, TurnsApart
  <2>2. ~Turn!IsAgent(u)
    <3>1. ~Turn!IsAgent(u)'
      BY <1>10 DEF TimerInv, Turn!IdleTimer
    <3> QED BY <1>1, <3>1 DEF Turn!IsAgent
  <2>3. u = current
    BY <1>1, <2>2 DEF TurnInv, TurnsApart, Alone, Turn!Running
  <2> QED BY <1>1, <1>5, <2>1, <2>3 DEF Counts, list
<1>13. KeptInv'
  <2>1. \A q \in Turn!Sessions : \A u \in checkpoint'[q].holds : kind'[u] = q
    BY <1>1, <1>6 DEF TurnInv, KeptInv
  <2>2. ASSUME NEW u \in promised'
        PROVE  u \in Turns /\ ~checkpoint'[kind'[u]].consumed /\ u \in checkpoint'[kind'[u]].holds
    <3>1. u \in Turns /\ u \in Turn!ReadCheckpoint(kind[u]) /\ kind[u] \in Turn!Sessions
      BY <1>1, <1>3, <2>2 DEF TurnInv, KeptInv, Turn!KeptUntilAnswered, Turn!Session
    <3>2. ~checkpoint[kind[u]].consumed /\ u \in checkpoint[kind[u]].holds
      BY <3>1 DEF Turn!ReadCheckpoint
    <3> QED BY <1>1, <1>6, <3>1, <3>2
  <2> QED BY <2>1, <2>2 DEF KeptInv, Turn!KeptUntilAnswered, Turn!ReadCheckpoint, Turn!Session
<1>14. SilentInv'
  BY <1>1, SilentStays
<1> QED BY <1>7, <1>9, <1>10, <1>11, <1>12, <1>13, <1>14 DEF TurnInv

LEMMA BeginTurnKeeps ==
  ASSUME TurnInv, NEW t \in Turns, Turn!BeginTurn(t)
  PROVE  TurnInv'
<1> DEFINE s == kind[t]
           others == Turn!Beside(t)
<1>1. /\ phase[t] = "new" /\ phase' = [phase EXCEPT ![t] = "model"]
      /\ \A u \in Turns : kind[u] = s => ~Turn!Running(u)
      /\ overlapped' = overlapped \cup others \cup (IF others = {} THEN {} ELSE {t})
      /\ UNCHANGED <<kind, reason, fresh, unsynced, attempt, empties, tools, checkpoint, reply,
                     promised, silent>>
  BY DEF Turn!BeginTurn, Turn!Session, Turn!timing
<1>2. /\ kind \in [Turns -> Turn!Sessions] /\ turnTimer \in [Turns -> TimerT]
      /\ phase \in [Turns -> {"new", "model", "deliver", "ended"}]
      /\ tasks \in [Turn!Sessions -> SUBSET TaskT]
      /\ \A q \in Turn!Sessions : ListOf(tasks[q])
      /\ demand \in [Turns -> {"none", "tool"}]
      /\ unsynced \subseteq {u \in Turns : phase[u] = "model"}
  BY DEF TurnInv, TurnTypes, ListOf
<1>3. /\ Turn!IsAgent(t) => UNCHANGED <<turnTimer, current, tasks, demand>>
      /\ ~Turn!IsAgent(t) =>
           \E list \in {tasks[s], Turn!Located(tasks[s])} :
             /\ turnTimer' = [turnTimer EXCEPT ![t] = Turn!TimerBeginTurn(list)]
             /\ current' = t
             /\ \E new \in {list} \cup {Turn!Seeded(list, ready) : ready \in BOOLEAN} :
                  tasks' = [tasks EXCEPT ![s] = new]
             /\ demand' \in {demand, [demand EXCEPT ![t] = "tool"]}
  BY DEF Turn!BeginTurn, Turn!Session, Turn!timing
<1>4. \E tm \in TimerT, new \in SUBSET TaskT :
        /\ turnTimer' = [turnTimer EXCEPT ![t] = tm] /\ ListOf(new)
        /\ tasks' = [tasks EXCEPT ![s] = new]
        /\ demand' \in [Turns -> {"none", "tool"}]
        /\ Turn!IsAgent(t) => tm = Turn!IdleTimer /\ UNCHANGED current
        /\ ~Turn!IsAgent(t) => tm.absolute /\ current' = t
        /\ tm.active = "item" =>
             /\ tm.mode = "item"
             /\ tm.item \notin Turn!Proactive => [id |-> tm.item, status |-> "in_progress"] \in new
  <2>1. CASE Turn!IsAgent(t)
    <3>1. turnTimer[t] = Turn!IdleTimer
      BY <2>1 DEF TurnInv, TimerInv
    <3>2. /\ turnTimer' = [turnTimer EXCEPT ![t] = turnTimer[t]] /\ turnTimer[t] \in TimerT
          /\ tasks' = [tasks EXCEPT ![s] = tasks[s]] /\ ListOf(tasks[s])
      BY <1>2, <1>3, <2>1
    <3>3. turnTimer[t].active # "item"
      BY <3>1 DEF Turn!IdleTimer
    <3>4. demand' \in [Turns -> {"none", "tool"}] /\ UNCHANGED current /\ tasks[s] \in SUBSET TaskT
      BY <1>2, <1>3, <2>1
    <3> QED BY <2>1, <3>1, <3>2, <3>3, <3>4, Zenon
  <2>2. CASE ~Turn!IsAgent(t)
    <3>1. PICK list \in {tasks[s], Turn!Located(tasks[s])} :
            /\ turnTimer' = [turnTimer EXCEPT ![t] = Turn!TimerBeginTurn(list)]
            /\ current' = t
            /\ \E new \in {list} \cup {Turn!Seeded(list, ready) : ready \in BOOLEAN} :
                 tasks' = [tasks EXCEPT ![s] = new]
            /\ demand' \in {demand, [demand EXCEPT ![t] = "tool"]}
      BY <1>3, <2>2
    <3>2. ListOf(list)
      BY <1>2, LocatedFollows DEF Follows
    <3>3. PICK new \in {list} \cup {Turn!Seeded(list, ready) : ready \in BOOLEAN} :
            tasks' = [tasks EXCEPT ![s] = new]
      BY <3>1
    <3>4. Follows(new, list)
      BY <3>2, FollowsItself, SeededFollows
    <3> DEFINE tm == Turn!TimerBeginTurn(list)
    <3>5. tm \in TimerT /\ tm.absolute /\ Counts(tm, list)
      BY <3>2, TimerBegins
    <3>6. turnTimer' = [turnTimer EXCEPT ![t] = tm]
      BY <3>1
    <3> HIDE DEF tm
    <3>7. tm.active = "item" =>
            /\ tm.mode = "item"
            /\ tm.item \notin Turn!Proactive => [id |-> tm.item, status |-> "in_progress"] \in new
      BY <3>4, <3>5 DEF Counts, Follows
    <3>8. demand' \in [Turns -> {"none", "tool"}]
      BY <1>2, <3>1
    <3> QED BY <2>2, <3>1, <3>3, <3>4, <3>5, <3>6, <3>7, <3>8 DEF Follows, ListOf
  <2> QED BY <2>1, <2>2
<1>5. PICK tm \in TimerT, new \in SUBSET TaskT :
        /\ turnTimer' = [turnTimer EXCEPT ![t] = tm] /\ ListOf(new)
        /\ tasks' = [tasks EXCEPT ![s] = new]
        /\ demand' \in [Turns -> {"none", "tool"}]
        /\ Turn!IsAgent(t) => tm = Turn!IdleTimer /\ UNCHANGED current
        /\ ~Turn!IsAgent(t) => tm.absolute /\ current' = t
        /\ tm.active = "item" =>
             /\ tm.mode = "item"
             /\ tm.item \notin Turn!Proactive => [id |-> tm.item, status |-> "in_progress"] \in new
  BY <1>4, Zenon
<1>6. /\ \A u \in Turns : Turn!IsAgent(u)' <=> Turn!IsAgent(u)
      /\ \A u \in Turns : Turn!Running(u)' => Turn!Running(u) \/ u = t
      /\ \A u \in Turns : u # t => phase'[u] = phase[u] /\ turnTimer'[u] = turnTimer[u]
      /\ turnTimer'[t] = tm /\ tasks'[s] = new
  BY <1>1, <1>2, <1>5 DEF Turn!IsAgent, Turn!Running
<1>7. \A u \in Turns : u # t /\ Turn!Running(u) =>
        kind[u] # s /\ u \in overlapped' /\ t \in overlapped'
  BY <1>1 DEF Turn!Beside, Turn!Session
<1> HIDE DEF others
<1>8. TurnTypes'
  <2>1. /\ turnTimer' \in [Turns -> TimerT] /\ current' \in Turns \cup {Turn!NoTurn}
        /\ tasks' \in [Turn!Sessions -> SUBSET TaskT]
        /\ \A q \in Turn!Sessions : Distinct(tasks'[q])
    BY <1>2, <1>5 DEF TurnInv, TurnTypes, ListOf
  <2>2. /\ phase' \in [Turns -> {"new", "model", "deliver", "ended"}]
        /\ unsynced' \subseteq {u \in Turns : phase'[u] = "model"}
    BY <1>1, <1>2
  <2> QED BY <1>1, <1>5, <2>1, <2>2 DEF TurnInv, TurnTypes
<1>9. TurnsApart'
  <2>1. ASSUME NEW u \in Turns, NEW v \in Turns, u # v, Turn!Running(u)', Turn!Running(v)'
        PROVE  kind'[u] # kind'[v] /\ u \in overlapped' /\ v \in overlapped'
    <3>1. CASE u = t
      BY <1>1, <1>6, <1>7, <2>1, <3>1
    <3>2. CASE v = t
      BY <1>1, <1>6, <1>7, <2>1, <3>2
    <3>3. CASE u # t /\ v # t
      BY <1>1, <1>6, <2>1, <3>3 DEF TurnInv, TurnsApart
    <3> QED BY <3>1, <3>2, <3>3
  <2>2. current' # Turn!NoTurn => ~Turn!IsAgent(current)'
    BY <1>1, <1>5 DEF TurnInv, TurnsApart, Turn!IsAgent
  <2>3. ASSUME NEW u \in Turns, Alone(u)' PROVE current' = u
    <3>1. u = t
      BY <1>6, <1>7, <2>3 DEF Alone
    <3>2. ~Turn!IsAgent(t)
      BY <1>6, <2>3, <3>1 DEF Alone
    <3> QED BY <1>5, <3>1, <3>2
  <2> QED BY <2>1, <2>2, <2>3 DEF TurnsApart, Turn!NoTurn
<1>10. TimerInv'
  <2>1. ASSUME NEW u \in Turns
        PROVE  /\ turnTimer'[u].active = "item" => turnTimer'[u].mode = "item"
               /\ Turn!IsAgent(u)' => turnTimer'[u] = Turn!IdleTimer
    <3>1. CASE u = t
      BY <1>5, <1>6, <3>1
    <3>2. CASE u # t
      BY <1>6, <3>2 DEF TurnInv, TimerInv
    <3> QED BY <3>1, <3>2
  <2> QED BY <2>1 DEF TimerInv, Turn!IdleTimer
<1>11. Turn!LimitStands'
  <2>1. ASSUME NEW u \in Turns, phase'[u] = "model", ~Turn!IsAgent(u)', u \notin overlapped'
        PROVE  turnTimer'[u].absolute \/ reason'[u] # "none"
    <3>1. u = t
      BY <1>6, <1>7, <2>1 DEF Turn!Running
    <3> QED BY <1>5, <1>6, <2>1, <3>1
  <2> QED BY <2>1 DEF Turn!LimitStands, Turn!IsAgent
<1>12. Turn!ItemIsOpen'
  <2> SUFFICES ASSUME NEW u \in Turns, phase'[u] = "model", u \notin overlapped', u \notin unsynced',
                      turnTimer'[u].active = "item", turnTimer'[u].item \notin Turn!Proactive
               PROVE  [id |-> turnTimer'[u].item, status |-> "in_progress"] \in tasks'[kind'[u]]
    BY DEF Turn!ItemIsOpen, Turn!Session
  <2>1. u = t
    BY <1>6, <1>7 DEF Turn!Running
  <2> QED BY <1>1, <1>5, <1>6, <2>1
<1>13. KeptInv'
  BY <1>1, KeptStays
<1>14. SilentInv'
  BY <1>1, <1>2, SilentStays
<1> QED BY <1>8, <1>9, <1>10, <1>11, <1>12, <1>13, <1>14 DEF TurnInv

(* The list at the end of an attempt follows the one it had.                *)
LEMMA FinalizedLists ==
  ASSUME TurnInv, NEW t \in Turns, NEW r,
         \/ tasks' = tasks
         \/ tasks' = [tasks EXCEPT ![kind[t]] = Turn!Finalized(tasks[kind[t]], t, r)]
  PROVE  /\ tasks' \in [Turn!Sessions -> SUBSET TaskT]
         /\ \A q \in Turn!Sessions : Distinct(tasks'[q]) /\ Follows(tasks'[q], tasks[q])
<1>1. /\ kind[t] \in Turn!Sessions /\ tasks \in [Turn!Sessions -> SUBSET TaskT]
      /\ \A q \in Turn!Sessions : ListOf(tasks[q])
  BY DEF TurnInv, TurnTypes, ListOf
<1>2. \A q \in Turn!Sessions : Follows(tasks'[q], tasks[q])
  BY <1>1, FinalizedFollows, FollowsItself
<1>3. \A q \in Turn!Sessions : tasks'[q] \in SUBSET TaskT /\ Distinct(tasks'[q])
  BY <1>2 DEF Follows, ListOf
<1> QED BY <1>1, <1>2, <1>3

LEMMA AttemptEndsKeeps ==
  ASSUME TurnInv, NEW t \in Turns, NEW r \in Turn!Results, Turn!AttemptEnds(t, r)
  PROVE  TurnInv'
<1>1. /\ UNCHANGED <<phase, kind, reason, turnTimer, current, fresh, unsynced, demand,
                     checkpoint, reply, overlapped, injected, promised, silent>>
      /\ empties' \in {empties, [empties EXCEPT ![t] = empties[t] + 1]}
      /\ attempt' = [attempt EXCEPT ![t] = (attempt[t] % (MaxAttempts + MaxEmpty)) + 1]
      /\ tools' = [tools EXCEPT ![t] = {}]
      /\ \/ tasks' = tasks
         \/ tasks' = [tasks EXCEPT ![kind[t]] = Turn!Finalized(tasks[kind[t]], t, r)]
  BY DEF Turn!AttemptEnds, Turn!history, Turn!Counted, Turn!Session
<1>2. /\ tasks' \in [Turn!Sessions -> SUBSET TaskT]
      /\ \A q \in Turn!Sessions : Distinct(tasks'[q]) /\ Follows(tasks'[q], tasks[q])
  BY <1>1, FinalizedLists
<1>3. /\ attempt \in [Turns -> 1 .. (MaxAttempts + MaxEmpty)] /\ empties \in [Turns -> Nat]
      /\ tools \in [Turns -> SUBSET {"met", "research", "effect"}]
  BY DEF TurnInv, TurnTypes
<1>4. attempt' \in [Turns -> 1 .. (MaxAttempts + MaxEmpty)]
  <2>1. attempt[t] \in Nat /\ MaxAttempts + MaxEmpty \in Nat \ {0}
    BY <1>3, TurnAssumption
  <2> DEFINE n == MaxAttempts + MaxEmpty
             a == attempt[t]
  <2>2. (a % n) + 1 \in 1 .. n
    <3> HIDE DEF n, a
    <3> QED BY <2>1 DEF n, a
  <2> QED BY <1>1, <1>3, <2>2
<1>5. empties' \in [Turns -> Nat] /\ tools' \in [Turns -> SUBSET {"met", "research", "effect"}]
  BY <1>1, <1>3
<1>6. TurnTypes'
  BY <1>1, <1>2, <1>4, <1>5 DEF TurnInv, TurnTypes
<1>7. NoneBegins
  BY <1>1 DEF NoneBegins, Turn!Running
<1>8. TurnsApart'
  BY <1>1, <1>7, ApartStays
<1>9. TimerInv'
  BY <1>1, TimerStays
<1>10. Turn!LimitStands'
  BY <1>1, <1>7, LimitStays
<1>11. Turn!ItemIsOpen'
  BY <1>1, <1>2, <1>7, ItemStays
<1>12. KeptInv' /\ SilentInv'
  BY <1>1, KeptStays, SilentStays
<1> QED BY <1>6, <1>8, <1>9, <1>10, <1>11, <1>12 DEF TurnInv

(* What the reply does to the evidence: an answer consumes that of its        *)
(* session, and an interruption that says it is kept adds that of the turn or *)
(* leaves what there is.                                                   *)
LEMMA ReplyKeepsEvidence ==
  ASSUME TurnInv, NEW t \in Turns, NEW r \in Turn!Results, Turn!Reply(t, r)
  PROVE  /\ checkpoint' \in [Turn!Sessions -> CheckT]
         /\ KeptInv'
<1> DEFINE s == kind[t]
           list == IF Turn!IsAgent(t) THEN tasks[s] ELSE Turn!Finalized(tasks[s], t, r)
           said == Turn!Said(t, r, list)
           used == (Turn!Exhausted(t) \/ r.text) /\ ~r.error
           merged == Turn!MergeOnAbort(t)
<1>1. /\ UNCHANGED kind
      /\ used => /\ checkpoint' = [checkpoint EXCEPT ![s].consumed = TRUE]
                 /\ promised' = {u \in promised : kind[u] # s}
      /\ ~used /\ said = "kept" =>
           /\ checkpoint' = [checkpoint EXCEPT ![s] = merged]
           /\ promised' = promised \cup merged.holds
      /\ ~used /\ said # "kept" => UNCHANGED <<checkpoint, promised>>
  <2>1. UNCHANGED kind
    BY Zenon DEF Turn!Reply
  <2>2. (CASE used
           -> /\ Turn!Consume(s)
              /\ promised' = {u \in promised : Turn!Session(u) # s}
          [] said = "kept"
           -> /\ checkpoint' = [checkpoint EXCEPT ![s] = merged]
              /\ promised' = promised \cup merged.holds
          [] OTHER -> UNCHANGED <<checkpoint, promised>>)
    BY Zenon DEF Turn!Reply, Turn!Session
  <2>3. said = "kept" => ~used
    BY Zenon DEF Turn!Said, Turn!SaidWithoutText
  <2>4. Turn!Consume(s) => checkpoint' = [checkpoint EXCEPT ![s].consumed = TRUE]
    BY DEF Turn!Consume
  <2> HIDE DEF said, used, merged
  <2> QED BY <2>1, <2>2, <2>3, <2>4 DEF Turn!Session
<1>2. /\ s \in Turn!Sessions /\ kind \in [Turns -> Turn!Sessions]
      /\ checkpoint \in [Turn!Sessions -> CheckT]
      /\ \A q \in Turn!Sessions : \A u \in checkpoint[q].holds : kind[u] = q
      /\ \A u \in promised : /\ u \in Turns /\ ~checkpoint[kind[u]].consumed
                             /\ u \in checkpoint[kind[u]].holds
  BY DEF TurnInv, TurnTypes, KeptInv, Turn!KeptUntilAnswered, Turn!ReadCheckpoint, Turn!Session
<1>3. said = "kept" => "research" \in tools[t] \/ Turn!CompletedItems(s)
  BY Zenon DEF Turn!Said, Turn!SaidWithoutText, Turn!Session
<1> HIDE DEF said, used, merged
<1>4. SUFFICES /\ checkpoint' \in [Turn!Sessions -> CheckT]
               /\ \A q \in Turn!Sessions : \A u \in checkpoint'[q].holds : kind[u] = q
               /\ \A u \in promised' : /\ u \in Turns /\ ~checkpoint'[kind[u]].consumed
                                       /\ u \in checkpoint'[kind[u]].holds
  BY <1>1 DEF KeptInv, Turn!KeptUntilAnswered, Turn!ReadCheckpoint, Turn!Session
<1>5. CASE used
  <2> DEFINE new == [checkpoint[s] EXCEPT !.consumed = TRUE]
  <2>1. new \in CheckT /\ new.holds = checkpoint[s].holds
    <3>1. checkpoint[s] \in CheckT
      BY <1>2
    <3>2. ASSUME NEW c \in CheckT, NEW b \in BOOLEAN
          PROVE  /\ [c EXCEPT !.consumed = b] \in CheckT
                 /\ [c EXCEPT !.consumed = b].holds = c.holds
      BY DEF CheckT
    <3> QED BY <3>1, <3>2, Zenon DEF new
  <2>2. checkpoint' = [checkpoint EXCEPT ![s] = new] /\ promised' = {u \in promised : kind[u] # s}
    BY <1>1, <1>5
  <2> HIDE DEF new
  <2> QED BY <1>2, <2>1, <2>2
<1>6. CASE ~used /\ said = "kept"
  <2>1. /\ merged \in CheckT /\ ~merged.consumed
        /\ \A u \in merged.holds : kind[u] = s
        /\ ~checkpoint[s].consumed => checkpoint[s].holds \subseteq merged.holds
    <3>1. CASE "research" \in tools[t]
      <4>1. PICK items \in BOOLEAN : items = Turn!CompletedItems(s)
        BY <1>2 DEF Turn!CompletedItems, CheckT
      <4>2. merged = [holds |-> Turn!ReadCheckpoint(s) \cup {t}, items |-> items, consumed |-> FALSE]
        BY <3>1, <4>1 DEF merged, Turn!MergeOnAbort, Turn!SavedFromTurn, Turn!Session
      <4>3. /\ Turn!ReadCheckpoint(s) \subseteq checkpoint[s].holds
            /\ ~checkpoint[s].consumed => Turn!ReadCheckpoint(s) = checkpoint[s].holds
            /\ checkpoint[s].holds \subseteq Turns
        BY <1>2 DEF Turn!ReadCheckpoint, CheckT
      <4>4. merged.holds = Turn!ReadCheckpoint(s) \cup {t}
        BY <4>2
      <4>5. merged.holds \subseteq Turns
        BY <4>3, <4>4
      <4>6. merged \in CheckT /\ ~merged.consumed
        BY <4>2, <4>4, <4>5 DEF CheckT
      <4> QED BY <1>2, <4>3, <4>4, <4>6
    <3>2. CASE "research" \notin tools[t]
      <4>1. merged = checkpoint[s] /\ ~checkpoint[s].consumed
        BY <1>3, <1>6, <3>2 DEF merged, Turn!MergeOnAbort, Turn!CompletedItems, Turn!Session
      <4> QED BY <1>2, <4>1
    <3> QED BY <3>1, <3>2
  <2>2. checkpoint' = [checkpoint EXCEPT ![s] = merged] /\ promised' = promised \cup merged.holds
    BY <1>1, <1>6
  <2>3. merged.holds \subseteq Turns
    BY <2>1 DEF CheckT
  <2> QED BY <1>2, <2>1, <2>2, <2>3
<1>7. CASE ~used /\ said # "kept"
  BY <1>1, <1>2, <1>7
<1> QED BY <1>5, <1>6, <1>7

LEMMA ReplyKeeps ==
  ASSUME TurnInv, NEW t \in Turns, NEW r \in Turn!Results, Turn!Reply(t, r)
  PROVE  TurnInv'
<1> DEFINE s == kind[t]
           list == IF Turn!IsAgent(t) THEN tasks[s] ELSE Turn!Finalized(tasks[s], t, r)
           said == Turn!Said(t, r, list)
           cause == ~r.text /\ ~Turn!Cut(r) /\ ~Turn!Exhausted(t) /\ ~r.output
<1>1. /\ phase[t] = "model" /\ t \notin unsynced /\ phase' = [phase EXCEPT ![t] = "deliver"]
      /\ UNCHANGED <<kind, reason, turnTimer, current, fresh, unsynced, attempt, empties, demand,
                     tools, overlapped>>
      /\ reply' = [reply EXCEPT ![t] = said]
      /\ tasks' = [tasks EXCEPT ![s] = list]
      /\ silent' = IF cause THEN silent \cup {t} ELSE silent
  <2>1. /\ phase[t] = "model" /\ t \notin unsynced /\ phase' = [phase EXCEPT ![t] = "deliver"]
        /\ UNCHANGED <<kind, reason, turnTimer, current, fresh, unsynced, attempt, empties, demand,
                       tools, overlapped>>
    BY DEF Turn!Reply, Turn!Returned, Turn!loop
  <2>2. /\ reply' = [reply EXCEPT ![t] = said]
        /\ tasks' = [tasks EXCEPT ![s] = list]
        /\ silent' = IF cause THEN silent \cup {t} ELSE silent
    BY Zenon DEF Turn!Reply, Turn!Session
  <2> QED BY <2>1, <2>2
<1>2. /\ phase \in [Turns -> {"new", "model", "deliver", "ended"}]
      /\ unsynced \subseteq {u \in Turns : phase[u] = "model"}
      /\ reply \in [Turns -> {"nothing", "said", "kept", "done"}]
      /\ tasks \in [Turn!Sessions -> SUBSET TaskT]
  BY DEF TurnInv, TurnTypes
<1>3. said \in {"nothing", "said", "kept", "done"} /\ (said = "nothing" => cause)
  BY Zenon DEF Turn!Said, Turn!SaidWithoutText
<1>4. \/ tasks' = tasks
      \/ tasks' = [tasks EXCEPT ![s] = Turn!Finalized(tasks[s], t, r)]
  BY <1>1, <1>2
<1>5. /\ tasks' \in [Turn!Sessions -> SUBSET TaskT]
      /\ \A q \in Turn!Sessions : Distinct(tasks'[q]) /\ Follows(tasks'[q], tasks[q])
  BY <1>4, FinalizedLists
<1> HIDE DEF said, cause, list
<1>6. /\ phase' \in [Turns -> {"new", "model", "deliver", "ended"}]
      /\ unsynced' \subseteq {u \in Turns : phase'[u] = "model"}
      /\ reply' \in [Turns -> {"nothing", "said", "kept", "done"}]
      /\ \A u \in Turns : u # t => phase'[u] = phase[u] /\ reply'[u] = reply[u]
      /\ phase'[t] = "deliver" /\ reply'[t] = said
  BY <1>1, <1>2, <1>3
<1>7. TurnTypes'
  BY <1>1, <1>5, <1>6, ReplyKeepsEvidence DEF TurnInv, TurnTypes
<1>8. NoneBegins
  BY <1>1, <1>6 DEF NoneBegins, Turn!Running
<1>9. TurnsApart'
  BY <1>1, <1>8, ApartStays
<1>10. TimerInv'
  BY <1>1, TimerStays
<1>11. Turn!LimitStands'
  BY <1>1, <1>8, LimitStays
<1>12. Turn!ItemIsOpen'
  BY <1>1, <1>5, <1>8, ItemStays
<1>13. SilentInv'
  BY <1>1, <1>3, <1>6 DEF TurnInv, SilentInv
<1> QED BY <1>7, <1>9, <1>10, <1>11, <1>12, <1>13, ReplyKeepsEvidence DEF TurnInv

LEMMA ThrowsKeeps ==
  ASSUME TurnInv, NEW t \in Turns, Turn!Throws(t)
  PROVE  TurnInv'
<1> DEFINE said == IF reason[t] = "operator" THEN "nothing" ELSE "said"
<1>1. /\ phase[t] = "model" /\ t \notin unsynced /\ phase' = [phase EXCEPT ![t] = "deliver"]
      /\ UNCHANGED <<kind, reason, turnTimer, current, tasks, fresh, unsynced, attempt, empties,
                     demand, tools, checkpoint, overlapped, promised>>
      /\ reply' = [reply EXCEPT ![t] = said]
      /\ silent' = IF reason[t] = "operator" THEN silent \cup {t} ELSE silent
  BY DEF Turn!Throws, Turn!timing, Turn!lists, Turn!loop
<1>2. /\ phase \in [Turns -> {"new", "model", "deliver", "ended"}]
      /\ unsynced \subseteq {u \in Turns : phase[u] = "model"}
      /\ reply \in [Turns -> {"nothing", "said", "kept", "done"}]
  BY DEF TurnInv, TurnTypes
<1>3. /\ phase' \in [Turns -> {"new", "model", "deliver", "ended"}]
      /\ unsynced' \subseteq {u \in Turns : phase'[u] = "model"}
      /\ reply' \in [Turns -> {"nothing", "said", "kept", "done"}]
      /\ \A u \in Turns : u # t => phase'[u] = phase[u] /\ reply'[u] = reply[u]
      /\ phase'[t] = "deliver" /\ reply'[t] = said
  BY <1>1, <1>2
<1>4. TurnTypes'
  BY <1>1, <1>3 DEF TurnInv, TurnTypes
<1>5. NoneBegins
  BY <1>1, <1>3 DEF NoneBegins, Turn!Running
<1>6. \A q \in Turn!Sessions : Follows(tasks'[q], tasks[q])
  BY <1>1, FollowsItself DEF TurnInv, TurnTypes, ListOf
<1>7. TurnsApart'
  BY <1>1, <1>5, ApartStays
<1>8. TimerInv'
  BY <1>1, TimerStays
<1>9. Turn!LimitStands'
  BY <1>1, <1>5, LimitStays
<1>10. Turn!ItemIsOpen'
  BY <1>1, <1>5, <1>6, ItemStays
<1>11. KeptInv'
  BY <1>1, KeptStays
<1>12. SilentInv'
  BY <1>1, <1>3 DEF TurnInv, SilentInv
<1> QED BY <1>4, <1>7, <1>8, <1>9, <1>10, <1>11, <1>12 DEF TurnInv

LEMMA LeaveKeeps ==
  ASSUME TurnInv, NEW t \in Turns, Turn!Leave(t)
  PROVE  TurnInv'
<1>1. /\ phase[t] = "deliver" /\ phase' = [phase EXCEPT ![t] = "ended"]
      /\ UNCHANGED <<kind, tasks, fresh, unsynced, checkpoint, reply, overlapped, injected, promised, silent>>
      /\ turnTimer' = [u \in Turns |-> CASE u = t -> Turn!IdleTimer
                                         [] u # t /\ u = current -> Turn!Disposed(turnTimer[u])
                                         [] OTHER -> turnTimer[u]]
      /\ current' = Turn!NoTurn
      /\ reason' = [reason EXCEPT ![t] = "none"]
      /\ attempt' = [attempt EXCEPT ![t] = 1]
      /\ empties' = [empties EXCEPT ![t] = 0]
      /\ demand' = [demand EXCEPT ![t] = "none"]
      /\ tools' = [tools EXCEPT ![t] = {}]
  BY DEF Turn!Leave, Turn!lists, Turn!history
<1>2. /\ phase \in [Turns -> {"new", "model", "deliver", "ended"}]
      /\ unsynced \subseteq {u \in Turns : phase[u] = "model"}
      /\ turnTimer \in [Turns -> TimerT]
      /\ reason \in [Turns -> {"none", "item", "limit", "operator"}]
      /\ attempt \in [Turns -> 1 .. (MaxAttempts + MaxEmpty)]
      /\ empties \in [Turns -> Nat]
      /\ demand \in [Turns -> {"none", "tool"}]
      /\ tools \in [Turns -> SUBSET {"met", "research", "effect"}]
  BY DEF TurnInv, TurnTypes
<1>3. /\ phase' \in [Turns -> {"new", "model", "deliver", "ended"}]
      /\ unsynced' \subseteq {u \in Turns : phase'[u] = "model"}
      /\ \A u \in Turns : u # t => phase'[u] = phase[u] /\ reason'[u] = reason[u]
      /\ phase'[t] = "ended" /\ Turn!Running(t)
  BY <1>1, <1>2 DEF Turn!Running
<1>4. /\ turnTimer'[t] = Turn!IdleTimer
      /\ \A u \in Turns : u # t =>
           turnTimer'[u] = IF u = current THEN Turn!Disposed(turnTimer[u]) ELSE turnTimer[u]
  BY <1>1
<1>5. Turn!IdleTimer \in TimerT /\ Turn!IdleTimer.active = "off"
  BY DEF TimerT, Turn!IdleTimer, Turn!NoTask
<1>6. \A tm \in TimerT : Turn!Disposed(tm) \in TimerT /\ Turn!Disposed(tm).active = "off"
  BY DEF TimerT, Turn!Disposed, Turn!ClearActive, Turn!NoTask
<1>7. ASSUME NEW u \in Turns
      PROVE  /\ turnTimer'[u] \in TimerT
             /\ turnTimer'[u].active # "off" => u # t /\ turnTimer'[u] = turnTimer[u]
  BY <1>2, <1>4, <1>5, <1>6
<1>8. turnTimer' \in [Turns -> TimerT]
  <2>1. turnTimer' = [u \in Turns |-> turnTimer'[u]]
    BY <1>1
  <2> QED BY <1>7, <2>1
<1>9. /\ reason' \in [Turns -> {"none", "item", "limit", "operator"}]
      /\ attempt' \in [Turns -> 1 .. (MaxAttempts + MaxEmpty)]
      /\ empties' \in [Turns -> Nat]
      /\ demand' \in [Turns -> {"none", "tool"}]
      /\ tools' \in [Turns -> SUBSET {"met", "research", "effect"}]
  <2>1. 1 \in 1 .. (MaxAttempts + MaxEmpty)
    BY TurnAssumption
  <2> QED BY <1>1, <1>2, <2>1
<1>10. TurnTypes'
  BY <1>1, <1>3, <1>8, <1>9 DEF TurnInv, TurnTypes
<1>11. NoneBegins
  BY <1>1, <1>3 DEF NoneBegins, Turn!Running
<1>12. \A u \in Turns : u # t /\ Turn!Running(u) => u \in overlapped
  BY <1>3 DEF TurnInv, TurnsApart
<1>13. TurnsApart'
  <2>1. \A u, v \in Turns : u # v /\ Turn!Running(u)' /\ Turn!Running(v)'
          => kind'[u] # kind'[v] /\ u \in overlapped' /\ v \in overlapped'
    BY <1>1, <1>11 DEF NoneBegins, TurnInv, TurnsApart
  <2>2. \A u \in Turns : ~Alone(u)'
    BY <1>1, <1>3, <1>11, <1>12 DEF NoneBegins, Alone, Turn!Running
  <2> QED BY <1>1, <2>1, <2>2 DEF TurnsApart, Turn!NoTurn
<1>14. TimerInv'
  <2>1. \A u \in Turns : Turn!IsAgent(u)' <=> Turn!IsAgent(u)
    BY <1>1 DEF Turn!IsAgent
  <2>2. ASSUME NEW u \in Turns
        PROVE  /\ turnTimer'[u].active = "item" => turnTimer'[u].mode = "item"
               /\ Turn!IsAgent(u)' => turnTimer'[u] = Turn!IdleTimer
    <3>1. turnTimer'[u].active = "item" => turnTimer'[u].mode = "item"
      BY <1>7 DEF TurnInv, TimerInv
    <3>2. Turn!IsAgent(u) => u = t \/ u # current
      BY TurnAssumption DEF TurnInv, TurnsApart, Turn!NoTurn
    <3>3. Turn!IsAgent(u) => turnTimer[u] = Turn!IdleTimer
      BY DEF TurnInv, TimerInv
    <3> QED BY <1>4, <2>1, <3>1, <3>2, <3>3
  <2> QED BY <2>2 DEF TimerInv, Turn!IdleTimer
<1>15. Turn!LimitStands'
  <2>1. ASSUME NEW u \in Turns, phase'[u] = "model" PROVE u \in overlapped'
    BY <1>1, <1>3, <1>12, <2>1 DEF Turn!Running
  <2> QED BY <2>1 DEF Turn!LimitStands
<1>16. Turn!ItemIsOpen'
  <2>1. ASSUME NEW u \in Turns, phase'[u] = "model" PROVE u \in overlapped'
    BY <1>1, <1>3, <1>12, <2>1 DEF Turn!Running
  <2> QED BY <2>1 DEF Turn!ItemIsOpen
<1>17. KeptInv' /\ SilentInv'
  <2>1. \A u \in Turns : phase'[u] \in {"deliver", "ended"} => phase[u] \in {"deliver", "ended"}
    BY <1>1, <1>3
  <2> QED BY <1>1, <2>1, KeptStays, SilentStays
<1> QED BY <1>10, <1>13, <1>14, <1>15, <1>16, <1>17 DEF TurnInv

LEMMA InitTurn == Turn!Init => TurnInv
<1> SUFFICES ASSUME Turn!Init PROVE TurnInv
  OBVIOUS
<1>1. /\ phase = [t \in Turns |-> "new"] /\ kind \in [Turns -> Turn!Sessions]
      /\ turnTimer = [t \in Turns |-> Turn!IdleTimer]
      /\ reply = [t \in Turns |-> "nothing"] /\ current = Turn!NoTurn /\ unsynced = {}
      /\ tasks = [s \in Turn!Sessions |-> {}]
      /\ checkpoint = [s \in Turn!Sessions |-> Turn!NoCheckpoint]
  BY DEF Turn!Init
<1>2. Turn!IdleTimer \in TimerT /\ Turn!IdleTimer.active = "off"
  BY DEF TimerT, Turn!IdleTimer, Turn!NoTask
<1>3. TurnTypes
  <2>1. attempt \in [Turns -> 1 .. (MaxAttempts + MaxEmpty)]
    BY TurnAssumption DEF Turn!Init
  <2>2. /\ fresh = {} /\ reason \in [Turns -> {"none", "item", "limit", "operator"}]
        /\ empties \in [Turns -> Nat] /\ demand \in [Turns -> {"none", "tool"}]
        /\ tools \in [Turns -> SUBSET {"met", "research", "effect"}]
    BY DEF Turn!Init
  <2>3. IsFiniteSet(fresh)
    BY <2>2, FS_EmptySet
  <2>4. checkpoint \in [Turn!Sessions -> CheckT]
    BY <1>1 DEF Turn!NoCheckpoint, CheckT
  <2>5. /\ phase \in [Turns -> {"new", "model", "deliver", "ended"}]
        /\ turnTimer \in [Turns -> TimerT]
        /\ tasks \in [Turn!Sessions -> SUBSET TaskT]
        /\ \A s \in Turn!Sessions : Distinct(tasks[s])
        /\ reply \in [Turns -> {"nothing", "said", "kept", "done"}]
    BY <1>1, <1>2 DEF Distinct
  <2> QED BY <1>1, <2>1, <2>2, <2>3, <2>4, <2>5 DEF TurnTypes
<1>4. TurnsApart
  BY <1>1 DEF TurnsApart, Alone, Turn!Running, Turn!NoTurn
<1>5. TimerInv /\ Turn!LimitStands /\ Turn!ItemIsOpen
  BY <1>1, <1>2 DEF TimerInv, Turn!LimitStands, Turn!ItemIsOpen
<1>6. KeptInv /\ SilentInv
  <2>1. promised = {}
    BY DEF Turn!Init
  <2> QED BY <1>1, <2>1 DEF KeptInv, SilentInv, Turn!KeptUntilAnswered, Turn!NoCheckpoint
<1> QED BY <1>3, <1>4, <1>5, <1>6 DEF TurnInv

LEMMA NextTurn == TurnInv /\ [Turn!Next]_(Turn!vars) => TurnInv'
<1>1. ASSUME TurnInv, Turn!Next PROVE TurnInv'
  <2>1. PICK t \in Turns :
          \/ Turn!BeginTurn(t) \/ Turn!Throws(t) \/ Turn!Leave(t) \/ Turn!TodoSynced(t)
          \/ Turn!AbsoluteFires(t) \/ Turn!ActiveFires(t)
          \/ \E why \in {"operator", "limit"} : Turn!Abort(t, why)
          \/ \E tool \in {"met", "research", "effect"} : Turn!ToolRuns(t, tool)
          \/ \E done, doing \in BOOLEAN : Turn!TodoWrite(t, done, doing)
          \/ \E r \in Turn!Results : Turn!AttemptEnds(t, r) \/ Turn!Reply(t, r)
    BY <1>1, Zenon DEF Turn!Next
  <2> QED BY <1>1, <2>1, BeginTurnKeeps, ThrowsKeeps, LeaveKeeps, TodoSyncedKeeps, FiresKeeps,
             AbortKeeps, ToolRunsKeeps, TodoWriteKeeps, AttemptEndsKeeps, ReplyKeeps
<1>2. ASSUME TurnInv, UNCHANGED Turn!vars PROVE TurnInv'
  <2>1. UNCHANGED <<phase, kind, reason, turnTimer, current, tasks, fresh, unsynced, attempt,
                    empties, demand, tools, checkpoint, reply, overlapped, injected, promised, silent>>
    BY <1>2 DEF Turn!vars, Turn!timing, Turn!lists, Turn!loop, Turn!history
  <2>2. NoneBegins
    BY <2>1 DEF NoneBegins, Turn!Running
  <2>3. \A q \in Turn!Sessions : Follows(tasks'[q], tasks[q])
    BY <1>2, <2>1, FollowsItself DEF TurnInv, TurnTypes, ListOf
  <2>4. TurnTypes'
    BY <1>2, <2>1 DEF TurnInv, TurnTypes
  <2>5. TurnsApart' /\ TimerInv' /\ Turn!LimitStands'
    BY <1>2, <2>1, <2>2, ApartStays, TimerStays, LimitStays
  <2>6. Turn!ItemIsOpen' /\ KeptInv' /\ SilentInv'
    BY <1>2, <2>1, <2>2, <2>3, ItemStays, KeptStays, SilentStays
  <2> QED BY <2>4, <2>5, <2>6 DEF TurnInv
<1> QED BY <1>1, <1>2

(* The invariant of the turns: their timers, lists and replies.             *)
LEMMA TurnHolds == Spec => []TurnInv
<1>1. Init => TurnInv
  BY InitTurn, Zenon DEF Init
<1>2. TurnInv /\ [Next]_vars => TurnInv'
  BY NextTurn, TurnSteps
<1> QED BY <1>1, <1>2, PTL DEF Spec

(* A turn that no other ran beside has a limit on its time until it is over   *)
(* (beginTurn and the timers of taskItemTimer.ts).                          *)
THEOREM LimitStandsHolds == Spec => []LimitStands
<1>1. TurnInv => LimitStands
  BY DEF TurnInv, LimitStands
<1> QED BY <1>1, TurnHolds, PTL

(* The timer of such a turn runs for an item that its list has in progress   *)
(* still (syncAfterTodoWrite).                                              *)
THEOREM ItemIsOpenHolds == Spec => []ItemIsOpen
<1>1. TurnInv => ItemIsOpen
  BY DEF TurnInv, ItemIsOpen
<1> QED BY <1>1, TurnHolds, PTL

(* Only a turn that has cause to ends without a word: one the operator        *)
(* stopped, or one whose model said nothing.                                *)
THEOREM NeverSilentHolds == Spec => []NeverSilent
<1>1. TurnInv => NeverSilent
  BY DEF TurnInv, SilentInv, NeverSilent, Turn!NeverSilent
<1> QED BY <1>1, TurnHolds, PTL

(* The evidence a cut turn said is kept is in the checkpoint of its session   *)
(* until a later turn of the session has answered or used up its attempts     *)
(* (runtime.ts, researchCheckpoint.ts).                                     *)
THEOREM KeptUntilAnsweredHolds == Spec => []KeptUntilAnswered
<1>1. TurnInv => KeptUntilAnswered
  BY DEF TurnInv, KeptInv, KeptUntilAnswered
<1> QED BY <1>1, TurnHolds, PTL

(* What the run of the tools checks as one property: a turn keeps its limit   *)
(* and its timer, says how it ended, reports the code of a shell as it was,   *)
(* and is spoken by one player, once, or given as text.                     *)
THEOREM TurnAnswersHolds == Spec => []TurnAnswers
<1>1. LimitStands /\ ItemIsOpen /\ NeverSilent /\ ShellHonestCode /\ OnePlays /\ SaidOnce
        /\ ReadAtLeast => TurnAnswers
  BY DEF TurnAnswers
<1> QED BY <1>1, LimitStandsHolds, ItemIsOpenHolds, NeverSilentHolds, ShellHonestCodeHolds,
           OnePlaysHolds, SaidOnceHolds, ReadAtLeastHolds, PTL

-----------------------------------------------------------------------------
(* The file tools.                                                         *)

(* A step is one of the file tools or leaves the file as it is.              *)
LEMMA FileSteps == [Next]_vars => [File!Next]_(File!vars)
<1> SUFFICES ASSUME [Next]_vars PROVE File!Next \/ UNCHANGED fileVars
  BY DEF fileVars, File!vars, File!seen
<1>1. CASE UNCHANGED vars
  BY <1>1, Zenon DEF vars
<1>2. CASE Only("file") /\ File!Next
  BY <1>2
<1>3. CASE \E p \in {"gate", "turn", "memory", "web", "schedule", "shell", "spoken"} : Only(p)
  BY <1>3 DEF Only
<1> QED BY <1>1, <1>2, <1>3, Zenon DEF Next

Versions == {history[i] : i \in DOMAIN history}
FileResults == {"none", "not_found", "file_too_large", "text", "error", "written", "warned"}

FileDisk ==
  /\ content \in File!Contents
  /\ fileMtime \in 1 .. MaxMtime
  /\ dirty \subseteq FileSessions

(* Who recorded an overtaken read has not read the file as it is; the reads    *)
(* that were overtaken are under way.                                       *)
FileSeen ==
  /\ blind \subseteq dirty
  /\ overtaken \subseteq {c \in FileCalls : filePc[c] = "reading"}

(* What a call has read is a content, not the absence of one.               *)
FileCallTypes ==
  /\ readState \in [FileSessions -> 0 .. MaxMtime]
  /\ filePc \in [FileCalls -> {"idle", "reading", "writing", "editing", "end"}]
  /\ session \in [FileCalls -> FileSessions]
  /\ taken \in [FileCalls -> File!Contents]
  /\ fileResult \in [FileCalls -> FileResults]
  /\ \A c \in FileCalls : filePc[c] \in {"reading", "editing"} => taken[c] # <<>>

FileHistory ==
  /\ history \in Seq(File!Contents \ {<<>>})
  /\ replaced \subseteq File!Contents
  /\ replaced \subseteq Versions

FileInv == FileDisk /\ FileSeen /\ FileCallTypes /\ FileHistory

LEMMA ContentIs ==
  ASSUME NEW n \in 0 .. MaxBlocks, NEW x \in [1 .. n -> File!Writers]
  PROVE  x \in File!Contents
BY DEF File!Contents

LEMMA ContentHas ==
  ASSUME NEW x \in File!Contents
  PROVE  \E n \in 0 .. MaxBlocks : x \in [1 .. n -> File!Writers] /\ Len(x) = n
BY FileAssumption DEF File!Contents

LEMMA RepeatedIs ==
  ASSUME NEW n \in 0 .. MaxBlocks, NEW w \in File!Writers
  PROVE  [i \in 1 .. n |-> w] \in File!Contents
BY ContentIs

(* No file, and what another program leaves.                                 *)
LEMMA SmallContents == <<>> \in File!Contents /\ <<"outside">> \in File!Contents
<1>1. 0 \in 0 .. MaxBlocks /\ 1 \in 0 .. MaxBlocks /\ "outside" \in File!Writers
  BY FileAssumption DEF File!Writers
<1>2. [i \in 1 .. 0 |-> "outside"] \in File!Contents /\ [i \in 1 .. 1 |-> "outside"] \in File!Contents
  BY <1>1, RepeatedIs, Zenon
<1>3. <<>> = [i \in 1 .. 0 |-> "outside"]
  OBVIOUS
<1>4. <<"outside">> = [i \in 1 .. 1 |-> "outside"]
  OBVIOUS
<1> QED BY <1>2, <1>3, <1>4, Zenon

LEMMA FirstBlock ==
  ASSUME NEW x \in File!Contents, x # <<>>
  PROVE  SubSeq(x, 1, 1) \in File!Contents /\ SubSeq(x, 1, 1) # <<>>
<1>1. PICK n \in 0 .. MaxBlocks : x \in [1 .. n -> File!Writers] /\ Len(x) = n
  BY ContentHas
<1>2. n >= 1 /\ 1 \in 0 .. MaxBlocks
  BY <1>1, FileAssumption
<1>3. x \in Seq(File!Writers)
  BY <1>1
<1> DEFINE y == SubSeq(x, 1, 1)
<1>4. y \in Seq(File!Writers) /\ Len(y) = 1
  BY <1>1, <1>2, <1>3, SubSeqProperties
<1> HIDE DEF y
<1>5. y \in [1 .. 1 -> File!Writers] /\ y # <<>>
  BY <1>4
<1>6. y \in File!Contents
  BY <1>2, <1>5, ContentIs
<1> QED BY <1>5, <1>6 DEF y

LEMMA EditIsContent ==
  ASSUME NEW x \in File!Contents, NEW w, NEW at, NEW c \in FileCalls
  PROVE  File!ApplyEdit(x, w, at, c) \in File!Contents
<1>1. PICK n \in 0 .. MaxBlocks : x \in [1 .. n -> File!Writers] /\ Len(x) = n
  BY ContentHas
<1>2. File!ApplyEdit(x, w, at, c) \in [1 .. n -> File!Writers]
  BY <1>1 DEF File!ApplyEdit, File!Writers
<1> QED BY <1>2, ContentIs

LEMMA PutKeepsDisk ==
  ASSUME FileDisk, NEW x \in File!Contents, File!Put(x)
  PROVE  FileDisk'
BY FileAssumption DEF FileDisk, File!Put, File!seen

LEMMA PutKeepsSeen ==
  ASSUME FileInv, NEW x, File!Put(x),
         \A c \in FileCalls : filePc[c] = "reading" => filePc'[c] = "reading"
  PROVE  FileSeen'
BY DEF FileInv, FileDisk, FileSeen, File!Put, File!seen

LEMMA SeenStays ==
  ASSUME FileInv, UNCHANGED <<dirty, overtaken, blind>>,
         \A c \in FileCalls : filePc[c] = "reading" => filePc'[c] = "reading"
  PROVE  FileSeen'
BY DEF FileInv, FileSeen

(* The history only grows.                                                  *)
LEMMA TrackKeeps ==
  ASSUME FileHistory, NEW x \in File!Contents, x # <<>>, File!TrackEdit(x),
         replaced' = replaced \/ replaced' = replaced \cup {x}
  PROVE  FileHistory'
<1> DEFINE V == File!Contents \ {<<>>}
<1>1. history \in Seq(V) /\ x \in V /\ history' = Append(history, x)
  BY DEF FileHistory, File!TrackEdit
<1> HIDE DEF V
<1>2. /\ history' \in Seq(V) /\ Len(history') = Len(history) + 1
      /\ \A i \in 1 .. Len(history) : history'[i] = history[i]
      /\ history'[Len(history) + 1] = x
  BY <1>1, AppendProperties
<1>3. DOMAIN history = 1 .. Len(history) /\ DOMAIN history' = 1 .. Len(history) + 1 /\ Len(history) \in Nat
  BY <1>1, <1>2
<1>4. Versions \subseteq Versions' /\ x \in Versions'
  BY <1>2, <1>3 DEF Versions
<1>5. replaced' \subseteq Versions' /\ replaced' \subseteq File!Contents
  BY <1>4 DEF FileHistory
<1> QED BY <1>2, <1>5 DEF FileHistory, V

LEMMA SameHistory ==
  ASSUME FileHistory, UNCHANGED <<history, replaced>>
  PROVE  FileHistory'
BY DEF FileHistory, Versions

LEMMA InitFile == File!Init => FileInv
<1> SUFFICES ASSUME File!Init PROVE FileInv
  OBVIOUS
<1>1. FileDisk
  <2>1. [i \in 1 .. MaxBlocks |-> "outside"] \in File!Contents
    <3>1. MaxBlocks \in 0 .. MaxBlocks /\ "outside" \in File!Writers
      BY FileAssumption DEF File!Writers
    <3> QED BY <3>1, RepeatedIs, Zenon
  <2> QED BY <2>1, SmallContents, FileAssumption DEF File!Init, FileDisk
<1>2. FileCallTypes
  <2>1. (CHOOSE s \in FileSessions : TRUE) \in FileSessions
    BY FileAssumption
  <2> QED BY <2>1, SmallContents, FileAssumption DEF File!Init, FileCallTypes, FileResults
<1>3. FileHistory
  BY DEF File!Init, FileHistory, Versions
<1>4. FileSeen
  BY DEF File!Init, FileSeen
<1> QED BY <1>1, <1>2, <1>3, <1>4 DEF FileInv

(* A call that begins takes a session.                                      *)
LEMMA BeginKeepsSession ==
  ASSUME FileCallTypes, NEW c \in FileCalls, NEW s \in FileSessions, File!Begins(c, s)
  PROVE  session' \in [FileCalls -> FileSessions]
BY DEF FileCallTypes, File!Begins

LEMMA NextFile == FileInv /\ [File!Next]_(File!vars) => FileInv'
<1> SUFFICES ASSUME FileInv, [File!Next]_(File!vars) PROVE FileInv'
  OBVIOUS
<1>0. FileDisk /\ FileCallTypes /\ FileHistory /\ content \in File!Contents
  BY DEF FileInv, FileDisk
<1>a. ASSUME UNCHANGED <<content, fileMtime, dirty>> PROVE FileDisk'
  BY <1>0, <1>a DEF FileDisk
<1>b. ASSUME NEW c \in FileCalls, filePc[c] # "reading", NEW at, filePc' = [filePc EXCEPT ![c] = at]
      PROVE  \A b \in FileCalls : filePc[b] = "reading" => filePc'[b] = "reading"
  BY <1>0, <1>b DEF FileCallTypes
<1>c. ASSUME NEW c \in FileCalls, NEW s, File!Begins(c, s) PROVE filePc[c] # "reading"
  BY <1>c DEF File!Begins
<1>1. ASSUME NEW c \in FileCalls, File!ReadTakes(c) PROVE FileInv'
  <2>1. PICK s \in FileSessions : File!Begins(c, s)
    BY <1>1 DEF File!ReadTakes
  <2>2. session' \in [FileCalls -> FileSessions]
    BY <1>0, <2>1, BeginKeepsSession
  <2>3. UNCHANGED <<content, fileMtime, readState, history, replaced, dirty, overtaken, blind>>
    BY <1>1 DEF File!ReadTakes, File!fileVars, File!seen
  <2>4. FileCallTypes'
    <3>1. CASE taken' = taken /\ File!Ends(c, "not_found")
      BY <1>0, <2>2, <2>3, <3>1 DEF FileCallTypes, File!Ends, FileResults
    <3>2. CASE taken' = taken /\ File!Ends(c, "file_too_large")
      BY <1>0, <2>2, <2>3, <3>2 DEF FileCallTypes, File!Ends, FileResults
    <3>3. CASE File!Exists /\ taken' = [taken EXCEPT ![c] = File!ReadWithLimit] /\ File!Waits(c, "reading")
      <4>1. File!ReadWithLimit \in File!Contents /\ File!ReadWithLimit # <<>>
        BY <1>0, <3>3, FirstBlock DEF File!Exists, File!ReadWithLimit
      <4> QED BY <1>0, <2>2, <2>3, <3>3, <4>1 DEF FileCallTypes, File!Waits
    <3> QED BY <1>1, <3>1, <3>2, <3>3, Zenon DEF File!ReadTakes
  <2>5. PICK at : filePc' = [filePc EXCEPT ![c] = at]
    BY <1>1 DEF File!ReadTakes, File!Ends, File!Waits
  <2>6. FileSeen'
    BY <1>b, <1>c, <2>1, <2>3, <2>5, SeenStays
  <2> QED BY <1>0, <1>a, <2>3, <2>4, <2>6, SameHistory DEF FileInv
<1>2. ASSUME NEW c \in FileCalls, File!ReadEnds(c) PROVE FileInv'
  <2>1. /\ filePc[c] = "reading" /\ session' = session /\ File!Ends(c, "text")
        /\ File!SetReadFileState(session[c])
        /\ File!TrackEdit(taken[c]) \/ history' = history
        /\ UNCHANGED <<content, fileMtime, taken, replaced>>
        /\ \/ dirty' = dirty \cup {session[c]} /\ blind' = blind \cup {session[c]}
           \/ dirty' = dirty \ {session[c]} /\ blind' = blind \ {session[c]}
        /\ overtaken' = overtaken \ {c}
    BY <1>2 DEF File!ReadEnds, File!Goes
  <2>2. FileDisk'
    BY <1>0, <2>1 DEF FileDisk, FileCallTypes
  <2>3. readState' \in [FileSessions -> 0 .. MaxMtime]
    BY <1>0, <2>1, FileAssumption DEF FileCallTypes, FileDisk, File!SetReadFileState
  <2>4. FileCallTypes'
    BY <1>0, <2>1, <2>3 DEF FileCallTypes, File!Ends, FileResults
  <2>5. taken[c] \in File!Contents /\ taken[c] # <<>>
    BY <1>0, <2>1 DEF FileCallTypes
  <2>6. FileHistory'
    BY <1>0, <2>1, <2>5, TrackKeeps, SameHistory
  <2>7. FileSeen'
    <3>1. blind' \subseteq dirty'
      BY <2>1 DEF FileInv, FileSeen
    <3>2. \A b \in FileCalls \ {c} : filePc'[b] = filePc[b]
      BY <1>0, <2>1 DEF FileCallTypes, File!Ends
    <3> QED BY <2>1, <3>1, <3>2 DEF FileInv, FileSeen
  <2> QED BY <2>2, <2>4, <2>6, <2>7 DEF FileInv
<1>3. ASSUME NEW c \in FileCalls, File!Rejected(c, "write") PROVE FileInv'
  <2>1. PICK s \in FileSessions : File!Begins(c, s)
    BY <1>3 DEF File!Rejected
  <2>2. session' \in [FileCalls -> FileSessions]
    BY <1>0, <2>1, BeginKeepsSession
  <2>3. UNCHANGED <<content, fileMtime, readState, history, replaced, dirty, overtaken, blind, taken>>
        /\ File!Ends(c, "error")
    BY <1>3 DEF File!Rejected, File!fileVars, File!seen
  <2>4. FileCallTypes'
    BY <1>0, <2>2, <2>3 DEF FileCallTypes, File!Ends, FileResults
  <2>5. FileSeen'
    BY <1>b, <1>c, <2>1, <2>3, SeenStays DEF File!Ends
  <2> QED BY <1>0, <1>a, <2>3, <2>4, <2>5, SameHistory DEF FileInv
<1>4. ASSUME NEW c \in FileCalls, File!WriteNew(c) PROVE FileInv'
  <2>1. PICK s \in FileSessions : File!Begins(c, s)
    BY <1>4 DEF File!WriteNew
  <2>2. session' \in [FileCalls -> FileSessions]
    BY <1>0, <2>1, BeginKeepsSession
  <2>3. PICK n \in 1 .. MaxBlocks : File!Put([i \in 1 .. n |-> c])
    BY <1>4 DEF File!WriteNew
  <2>4. [i \in 1 .. n |-> c] \in File!Contents
    <3>1. n \in 0 .. MaxBlocks /\ c \in File!Writers
      BY FileAssumption DEF File!Writers
    <3> QED BY <3>1, RepeatedIs, Zenon
  <2>5. UNCHANGED <<readState, history, taken, replaced>> /\ File!Ends(c, "written")
    BY <1>4 DEF File!WriteNew
  <2>6. FileCallTypes'
    BY <1>0, <2>2, <2>5 DEF FileCallTypes, File!Ends, FileResults
  <2>7. FileDisk'
    BY <1>0, <2>3, <2>4, PutKeepsDisk
  <2>8. FileSeen'
    BY <1>b, <1>c, <2>1, <2>3, <2>5, PutKeepsSeen DEF File!Ends
  <2> QED BY <1>0, <2>5, <2>6, <2>7, <2>8, SameHistory DEF FileInv
<1>5. ASSUME NEW c \in FileCalls, File!WriteChecks(c) PROVE FileInv'
  <2>1. PICK s \in FileSessions : /\ File!Begins(c, s) /\ filePc' = [filePc EXCEPT ![c] = "writing"]
                                  /\ fileResult' = [fileResult EXCEPT ![c] = File!Written(s)]
    BY <1>5 DEF File!WriteChecks
  <2>2. session' \in [FileCalls -> FileSessions]
    BY <1>0, <2>1, BeginKeepsSession
  <2>3. UNCHANGED <<content, fileMtime, readState, history, replaced, dirty, overtaken, blind, taken>>
    BY <1>5 DEF File!WriteChecks, File!fileVars, File!seen
  <2>4. File!Written(s) \in FileResults
    BY DEF File!Written, FileResults
  <2>5. FileCallTypes'
    BY <1>0, <2>1, <2>2, <2>3, <2>4 DEF FileCallTypes
  <2>6. FileSeen'
    BY <1>b, <1>c, <2>1, <2>3, SeenStays
  <2> QED BY <1>0, <1>a, <2>3, <2>5, <2>6, SameHistory DEF FileInv
<1>6. ASSUME NEW c \in FileCalls, File!WriteWrites(c) PROVE FileInv'
  <2>1. filePc[c] = "writing" /\ session' = session /\ UNCHANGED <<readState, taken>>
    BY <1>6 DEF File!WriteWrites, File!Goes
  <2>2. CASE File!Exists
    <3>1. PICK n \in 1 .. MaxBlocks : File!WriteOver(c, [i \in 1 .. n |-> c])
      BY <1>6, <2>2 DEF File!WriteWrites
    <3>2. filePc' = [filePc EXCEPT ![c] = "end"] /\ fileResult' = fileResult
      BY <1>6, <2>2 DEF File!WriteWrites
    <3>3. [i \in 1 .. n |-> c] \in File!Contents
      <4>1. n \in 0 .. MaxBlocks /\ c \in File!Writers
        BY FileAssumption DEF File!Writers
      <4> QED BY <4>1, RepeatedIs, Zenon
    <3>4. FileDisk'
      BY <1>0, <3>1, <3>3, PutKeepsDisk DEF File!WriteOver
    <3>5. FileHistory'
      BY <1>0, <2>2, <3>1, TrackKeeps DEF File!WriteOver, File!Exists
    <3>6. FileCallTypes'
      BY <1>0, <2>1, <3>2 DEF FileCallTypes
    <3>7. FileSeen'
      BY <1>b, <2>1, <3>1, <3>2, PutKeepsSeen DEF File!WriteOver
    <3> QED BY <3>4, <3>5, <3>6, <3>7 DEF FileInv
  <2>3. CASE ~File!Exists
    <3>1. File!Ends(c, "error") /\ UNCHANGED <<content, fileMtime, history, replaced, dirty, overtaken, blind>>
      BY <1>6, <2>3 DEF File!WriteWrites, File!seen
    <3>2. FileCallTypes'
      BY <1>0, <2>1, <3>1 DEF FileCallTypes, File!Ends, FileResults
    <3>3. FileSeen'
      BY <1>b, <2>1, <3>1, SeenStays DEF File!Ends
    <3> QED BY <1>0, <1>a, <3>1, <3>2, <3>3, SameHistory DEF FileInv
  <2> QED BY <2>2, <2>3
<1>7. ASSUME NEW c \in FileCalls, File!EditReads(c) PROVE FileInv'
  <2>1. PICK s \in FileSessions :
          /\ File!Begins(c, s)
          /\ \/ File!Ends(c, "error") /\ UNCHANGED taken
             \/ /\ File!Exists /\ taken' = [taken EXCEPT ![c] = content]
                /\ filePc' = [filePc EXCEPT ![c] = "editing"]
                /\ fileResult' = [fileResult EXCEPT ![c] = File!Written(s)]
    BY <1>7, Zenon DEF File!EditReads
  <2>2. session' \in [FileCalls -> FileSessions]
    BY <1>0, <2>1, BeginKeepsSession
  <2>3. UNCHANGED <<content, fileMtime, readState, history, replaced, dirty, overtaken, blind>>
    BY <1>7 DEF File!EditReads, File!fileVars, File!seen
  <2>4. File!Written(s) \in FileResults
    BY DEF File!Written, FileResults
  <2>5. FileCallTypes'
    <3>1. CASE File!Ends(c, "error") /\ UNCHANGED taken
      BY <1>0, <2>2, <2>3, <3>1 DEF FileCallTypes, File!Ends, FileResults
    <3>2. CASE /\ File!Exists /\ taken' = [taken EXCEPT ![c] = content]
               /\ filePc' = [filePc EXCEPT ![c] = "editing"]
               /\ fileResult' = [fileResult EXCEPT ![c] = File!Written(s)]
      BY <1>0, <2>2, <2>3, <2>4, <3>2 DEF FileCallTypes, File!Exists
    <3> QED BY <2>1, <3>1, <3>2
  <2>6. PICK at : filePc' = [filePc EXCEPT ![c] = at]
    BY <2>1 DEF File!Ends
  <2>7. FileSeen'
    BY <1>b, <1>c, <2>1, <2>3, <2>6, SeenStays
  <2> QED BY <1>0, <1>a, <2>3, <2>5, <2>7, SameHistory DEF FileInv
<1>8. ASSUME NEW c \in FileCalls, File!EditWrites(c) PROVE FileInv'
  <2> DEFINE x == taken[c]
  <2>1. filePc[c] = "editing" /\ session' = session /\ UNCHANGED <<readState, taken>>
    BY <1>8 DEF File!EditWrites, File!Goes
  <2>2. x \in File!Contents /\ x # <<>>
    BY <1>0, <2>1 DEF FileCallTypes
  <2>3. CASE \E w, at : /\ File!Put(File!ApplyEdit(x, w, at, c)) /\ File!TrackEdit(x)
                        /\ replaced' = IF content = x THEN replaced \cup {x} ELSE replaced
                        /\ filePc' = [filePc EXCEPT ![c] = "end"] /\ UNCHANGED fileResult
    <3>1. PICK w, at : /\ File!Put(File!ApplyEdit(x, w, at, c)) /\ File!TrackEdit(x)
                       /\ replaced' = IF content = x THEN replaced \cup {x} ELSE replaced
                       /\ filePc' = [filePc EXCEPT ![c] = "end"] /\ UNCHANGED fileResult
      BY <2>3
    <3>2. File!ApplyEdit(x, w, at, c) \in File!Contents
      BY <2>2, EditIsContent
    <3>3. FileDisk'
      BY <1>0, <3>1, <3>2, PutKeepsDisk
    <3>4. FileHistory'
      BY <1>0, <2>2, <3>1, TrackKeeps
    <3>5. FileCallTypes'
      BY <1>0, <2>1, <3>1 DEF FileCallTypes
    <3>6. FileSeen'
      BY <1>b, <2>1, <3>1, PutKeepsSeen
    <3> QED BY <3>3, <3>4, <3>5, <3>6 DEF FileInv
  <2>4. CASE File!Ends(c, "error") /\ UNCHANGED <<content, fileMtime, history, replaced, dirty, overtaken, blind>>
    <3>1. FileCallTypes'
      BY <1>0, <2>1, <2>4 DEF FileCallTypes, File!Ends, FileResults
    <3>2. FileSeen'
      BY <1>b, <2>1, <2>4, SeenStays DEF File!Ends
    <3> QED BY <1>0, <1>a, <2>4, <3>1, <3>2, SameHistory DEF FileInv
  <2> QED BY <1>8, <2>3, <2>4, Zenon DEF File!EditWrites, File!seen
<1>9. CASE File!Outside
  <2>1. PICK x \in {<<>>, <<"outside">>} : File!Put(x)
    BY <1>9 DEF File!Outside
  <2>2. UNCHANGED <<readState, history, filePc, session, taken, fileResult, replaced>>
    BY <1>9 DEF File!Outside
  <2>3. FileDisk'
    BY <1>0, <2>1, SmallContents, PutKeepsDisk
  <2>4. FileCallTypes'
    BY <1>0, <2>2 DEF FileCallTypes
  <2>5. FileSeen'
    BY <2>1, <2>2, PutKeepsSeen
  <2> QED BY <1>0, <2>2, <2>3, <2>4, <2>5, SameHistory DEF FileInv
<1>10. CASE UNCHANGED File!vars
  BY <1>0, <1>10, SameHistory DEF File!vars, File!seen, FileInv, FileDisk, FileSeen, FileCallTypes
<1> QED
  <2>1. CASE File!Next
    BY <2>1, <1>1, <1>2, <1>3, <1>4, <1>5, <1>6, <1>7, <1>8, <1>9, Zenon DEF File!Next
  <2> QED BY <2>1, <1>10

LEMMA FileHolds == Spec => []FileInv
<1>1. Init => FileInv
  BY InitFile, Zenon DEF Init
<1>2. FileInv /\ [Next]_vars => FileInv'
  BY NextFile, FileSteps
<1> QED BY <1>1, <1>2, PTL DEF Spec

(* What a Write, or an Edit that still found what it had read, wrote over is a *)
(* version of the file's history, however the calls of the sessions and other *)
(* programs interleave (trackEdit).                                        *)
THEOREM FileRecoverableHolds == Spec => []FileRecoverable
<1>1. FileInv => FileRecoverable
  BY DEF FileInv, FileHistory, Versions, FileRecoverable, File!Recoverable
<1> QED BY <1>1, FileHolds, PTL

LEMMA FileTyped == FileInv => File!TypeOK
<1> SUFFICES ASSUME FileInv PROVE File!TypeOK
  OBVIOUS
<1>1. \A i \in DOMAIN history : history[i] \in File!Contents \ {<<>>}
  <2> DEFINE V == File!Contents \ {<<>>}
  <2>1. history \in Seq(V)
    BY DEF FileInv, FileHistory
  <2> HIDE DEF V
  <2>2. \A i \in DOMAIN history : history[i] \in V
    BY <2>1
  <2> QED BY <2>2 DEF V
<1> QED BY <1>1 DEF FileInv, FileDisk, FileSeen, FileCallTypes, FileHistory, FileResults, File!TypeOK

-----------------------------------------------------------------------------
(* memory.md and the cached block.                                         *)

(* A step is one of the memory files or leaves them as they are.             *)
LEMMA MemorySteps == [Next]_vars => [Memory!Next]_(Memory!vars)
<1> SUFFICES ASSUME [Next]_vars PROVE Memory!Next \/ UNCHANGED memoryVars
  BY DEF memoryVars, Memory!vars
<1>1. CASE UNCHANGED vars
  BY <1>1, Zenon DEF vars
<1>2. CASE Only("memory") /\ Memory!Next
  BY <1>2
<1>3. CASE \E p \in {"gate", "turn", "file", "web", "schedule", "shell", "spoken"} : Only(p)
  BY <1>3 DEF Only
<1> QED BY <1>1, <1>2, <1>3, Zenon DEF Next

SectionT == [title : Titles, body : 1 .. MaxWrites]
MemoryT == [head : BOOLEAN, secs : Seq(SectionT)]
CacheT == [set : BOOLEAN, mtime : Nat, wings : [Wings -> 0 .. MaxWrites], memory : MemoryT]

MemoryTypes ==
  /\ wings \in [Wings -> 0 .. MaxWrites]
  /\ memory \in MemoryT
  /\ by \in {"boot", "filed", "reset", "outside"}
  /\ writes \in 0 .. MaxWrites
  /\ memoryMtime \in 0 .. writes
  /\ memoryCache \in CacheT
  /\ stat \in Nat

(* A time that was read is not later than that of the file; and a block that  *)
(* was kept for the time the file has is the file's.                        *)
MemoryInv ==
  /\ MemoryTypes
  /\ by = "filed" => Len(memory.secs) \in 1 .. MaxSecs
  /\ stat <= Memory!StatOf(memoryMtime)
  /\ memoryCache.set => memoryCache.mtime > 0 /\ memoryCache.mtime <= Memory!StatOf(memoryMtime)
  /\ Memory!CachedIsCurrent

LEMMA MemoryIs ==
  ASSUME NEW h \in BOOLEAN, NEW secs \in Seq(SectionT)
  PROVE  [head |-> h, secs |-> secs] \in MemoryT
BY DEF MemoryT

LEMMA HeadChanged ==
  ASSUME NEW md \in MemoryT, NEW h
  PROVE  [md EXCEPT !.head = h] = [head |-> h, secs |-> md.secs]
BY DEF MemoryT

LEMMA SecsChanged ==
  ASSUME NEW md \in MemoryT, NEW secs
  PROVE  [md EXCEPT !.secs = secs] = [head |-> md.head, secs |-> secs]
BY DEF MemoryT

LEMMA MemoryChanged ==
  ASSUME NEW md \in MemoryT, NEW section
  PROVE  /\ [md EXCEPT !.head = FALSE] = [head |-> FALSE, secs |-> md.secs]
         /\ [md EXCEPT !.secs = @ \o section] = [head |-> md.head, secs |-> md.secs \o section]
         /\ md.head \in BOOLEAN /\ md.secs \in Seq(SectionT)
<1>1. [md EXCEPT !.head = FALSE] = [head |-> FALSE, secs |-> md.secs]
  BY HeadChanged, Zenon
<1>2. [md EXCEPT !.secs = md.secs \o section] = [head |-> md.head, secs |-> md.secs \o section]
  BY SecsChanged, Zenon
<1>3. md.head \in BOOLEAN /\ md.secs \in Seq(SectionT)
  BY DEF MemoryT
<1> QED BY <1>1, <1>2, <1>3, Zenon

LEMMA EmptyIs ==
  Memory!Header \in MemoryT /\ Memory!NoCache \in CacheT /\ ~Memory!NoCache.set
BY MemoryAssumption DEF Memory!Header, Memory!NoCache, MemoryT, CacheT

LEMMA InitMemory == Memory!Init => MemoryInv
<1> SUFFICES ASSUME Memory!Init PROVE MemoryInv
  OBVIOUS
<1>1. Memory!Header \in MemoryT /\ Memory!NoCache \in CacheT /\ ~Memory!NoCache.set
  BY EmptyIs
<1>2. wings \in [Wings -> 0 .. MaxWrites]
  BY MemoryAssumption DEF Memory!Init
<1>3. MemoryTypes
  BY <1>1, <1>2, MemoryAssumption DEF Memory!Init, MemoryTypes
<1> QED BY <1>1, <1>3 DEF Memory!Init, MemoryInv, Memory!StatOf, Memory!CachedIsCurrent

(* Every write of memory.md has a time of its own, later than what was read.  *)
LEMMA WriteKeepsMemory ==
  ASSUME MemoryInv, NEW who \in {"boot", "filed", "reset", "outside"}, Memory!Wrote(who),
         NEW m \in MemoryT, Memory!MemoryWrite(m), UNCHANGED <<wings, sameRoot, memoryCache, stat>>,
         who = "filed" => Len(m.secs) \in 1 .. MaxSecs
  PROVE  MemoryInv'
<1>1. /\ writes \in Nat /\ writes' = writes + 1 /\ writes' \in 0 .. MaxWrites
      /\ memoryMtime \in Nat /\ memoryMtime <= writes /\ memoryMtime' = writes' /\ memory' = m /\ by' = who
      /\ memoryCache \in CacheT /\ stat \in Nat
  BY MemoryAssumption DEF MemoryInv, MemoryTypes, Memory!Wrote, Memory!MemoryWrite
<1>2. MemoryTypes'
  BY <1>1 DEF MemoryInv, MemoryTypes
<1>3. sameRoot => Memory!StatOf(memoryMtime) < Memory!StatOf(memoryMtime)'
  BY <1>1 DEF Memory!StatOf
<1>4. Memory!StatOf(memoryMtime) <= Memory!StatOf(memoryMtime)' /\ Memory!StatOf(memoryMtime) \in Nat
      /\ Memory!StatOf(memoryMtime)' \in Nat
  BY <1>1 DEF Memory!StatOf
<1>5. memoryCache.mtime \in Nat
  BY <1>1 DEF CacheT
<1>6. /\ stat' <= Memory!StatOf(memoryMtime)'
      /\ memoryCache.set => memoryCache.mtime > 0 /\ memoryCache.mtime <= Memory!StatOf(memoryMtime)'
      /\ memoryCache.set /\ sameRoot => memoryCache.mtime # Memory!StatOf(memoryMtime)'
  BY <1>1, <1>3, <1>4, <1>5 DEF MemoryInv
<1> QED BY <1>1, <1>2, <1>6 DEF MemoryInv, Memory!CachedIsCurrent, Memory!StatOf

(* A write of another file.                                                *)
LEMMA WingKeepsMemory ==
  ASSUME MemoryInv, NEW who \in {"boot", "outside"}, Memory!Wrote(who), NEW w \in Wings,
         wings' = [wings EXCEPT ![w] = writes + 1],
         UNCHANGED <<memory, memoryMtime, sameRoot, memoryCache, stat>>
  PROVE  MemoryInv'
<1>1. /\ writes \in Nat /\ writes' = writes + 1 /\ writes' \in 0 .. MaxWrites
      /\ memoryMtime \in 0 .. writes /\ by' = who
      /\ wings \in [Wings -> 0 .. MaxWrites]
  BY MemoryAssumption DEF MemoryInv, MemoryTypes, Memory!Wrote
<1>2. MemoryTypes'
  BY <1>1 DEF MemoryInv, MemoryTypes
<1> QED BY <1>1, <1>2 DEF MemoryInv, Memory!CachedIsCurrent, Memory!StatOf

LEMMA UpsertIsMemory ==
  ASSUME NEW md \in MemoryT, NEW t \in Titles, NEW body \in 1 .. MaxWrites
  PROVE  Memory!Upsert(md, t, body) \in MemoryT /\ Len(Memory!Upsert(md, t, body).secs) >= 1
<1> DEFINE section == Memory!Section(t, body)
           secs == IF Memory!Has(md, t)
                   THEN [i \in DOMAIN md.secs |->
                          IF md.secs[i].title = t THEN section ELSE md.secs[i]]
                   ELSE Append(md.secs, section)
<1>1. section \in SectionT /\ md.secs \in Seq(SectionT) /\ md.head \in BOOLEAN
  BY DEF Memory!Section, SectionT, MemoryT
<1>2. secs \in Seq(SectionT) /\ Len(secs) >= 1
  <2> HIDE DEF section
  <2>1. CASE Memory!Has(md, t)
    <3>1. Len(md.secs) >= 1
      BY <1>1, <2>1 DEF Memory!Has
    <3>2. secs = [i \in 1 .. Len(md.secs) |-> IF md.secs[i].title = t THEN section ELSE md.secs[i]]
      BY <1>1, <2>1
    <3> QED BY <1>1, <3>1, <3>2
  <2>2. CASE ~Memory!Has(md, t)
    BY <1>1, <2>2
  <2> QED BY <2>1, <2>2
<1>3. Memory!Upsert(md, t, body) = Memory!Rendered(md, secs)
  BY DEF Memory!Upsert
<1> HIDE DEF secs
<1>4. md.secs # <<>> => Head(md.secs) \in SectionT
  BY <1>1
<1>5. md.secs # <<>> => /\ <<Head(md.secs)>> \o secs \in Seq(SectionT)
                        /\ Len(<<Head(md.secs)>> \o secs) >= 1
  BY <1>2, <1>4
<1> QED BY <1>1, <1>2, <1>3, <1>5 DEF Memory!Rendered, MemoryT

LEMMA NextMemory == MemoryInv /\ [Memory!Next]_(Memory!vars) => MemoryInv'
<1> SUFFICES ASSUME MemoryInv, [Memory!Next]_(Memory!vars) PROVE MemoryInv'
  OBVIOUS
<1>0. /\ memory \in MemoryT /\ writes \in 0 .. MaxWrites /\ MaxWrites \in Nat /\ MaxSecs \in Nat
      /\ memoryMtime \in Nat /\ stat \in Nat /\ memoryCache \in CacheT /\ wings \in [Wings -> 0 .. MaxWrites]
  BY MemoryAssumption DEF MemoryInv, MemoryTypes
<1>1. ASSUME NEW t \in Titles, Memory!FileMemory(t) PROVE MemoryInv'
  <2> DEFINE new == Memory!Upsert(memory, t, writes + 1)
  <2>1. /\ Memory!Wrote("filed") /\ Len(new.secs) <= MaxSecs /\ Memory!MemoryWrite(new)
        /\ UNCHANGED <<wings, sameRoot, memoryCache, stat>>
    BY <1>1 DEF Memory!FileMemory
  <2>2. writes + 1 \in 1 .. MaxWrites
    BY <1>0, <2>1 DEF Memory!Wrote
  <2>3. new \in MemoryT /\ Len(new.secs) >= 1
    BY <1>0, <2>2, UpsertIsMemory
  <2> HIDE DEF new
  <2>4. Len(new.secs) \in 1 .. MaxSecs
    <3>1. new.secs \in Seq(SectionT)
      BY <2>3 DEF MemoryT
    <3> QED BY <1>0, <2>1, <2>3, <3>1
  <2> QED BY <2>1, <2>3, <2>4, WriteKeepsMemory
<1>2. ASSUME NEW w \in Wings, Memory!WriteBootWing(w) PROVE MemoryInv'
  BY <1>2, WingKeepsMemory DEF Memory!WriteBootWing
<1>3. ASSUME NEW t \in Titles, NEW a \in BOOLEAN, Memory!WriteBootMemory(t, a) PROVE MemoryInv'
  <2> DEFINE section == <<Memory!Section(t, writes + 1)>>
             m == IF a THEN [memory EXCEPT !.secs = @ \o section] ELSE [head |-> FALSE, secs |-> section]
  <2>1. Memory!Wrote("boot") /\ Memory!MemoryWrite(m) /\ UNCHANGED <<wings, sameRoot, memoryCache, stat>>
    BY <1>3 DEF Memory!WriteBootMemory
  <2>2. writes + 1 \in 1 .. MaxWrites
    BY <1>0, <2>1 DEF Memory!Wrote
  <2>3. section \in Seq(SectionT)
    BY <2>2 DEF Memory!Section, SectionT
  <2> HIDE DEF section
  <2>4. m \in MemoryT
    <3>1. /\ [memory EXCEPT !.secs = @ \o section] = [head |-> memory.head, secs |-> memory.secs \o section]
          /\ memory.head \in BOOLEAN /\ memory.secs \in Seq(SectionT)
      BY <1>0, MemoryChanged
    <3>2. memory.secs \o section \in Seq(SectionT)
      BY <2>3, <3>1
    <3> QED BY <2>3, <3>1, <3>2, MemoryIs
  <2> HIDE DEF m
  <2> QED BY <2>1, <2>4, WriteKeepsMemory
<1>4. CASE Memory!ClearProfileMemory
  <2>1. Memory!Header \in MemoryT
    BY EmptyIs
  <2> QED BY <1>4, <2>1, WriteKeepsMemory DEF Memory!ClearProfileMemory
<1>5. CASE Memory!Outside
  <2>1. Memory!Wrote("outside") /\ UNCHANGED <<sameRoot, memoryCache, stat>>
    BY <1>5 DEF Memory!Outside
  <2>2. Memory!Header \in MemoryT /\ [memory EXCEPT !.head = FALSE] \in MemoryT
    <3>1. /\ [memory EXCEPT !.head = FALSE] = [head |-> FALSE, secs |-> memory.secs]
          /\ memory.secs \in Seq(SectionT)
      BY <1>0, MemoryChanged
    <3> QED BY <3>1, MemoryIs, EmptyIs
  <2>3. CASE \E w \in Wings : wings' = [wings EXCEPT ![w] = writes + 1] /\ UNCHANGED <<memory, memoryMtime>>
    BY <2>1, <2>3, WingKeepsMemory
  <2>4. CASE Memory!MemoryWrite([memory EXCEPT !.head = FALSE]) /\ UNCHANGED wings
    BY <2>1, <2>2, <2>4, WriteKeepsMemory
  <2>5. CASE Memory!MemoryWrite(Memory!Header) /\ UNCHANGED wings
    BY <2>1, <2>2, <2>5, WriteKeepsMemory
  <2> QED BY <1>5, <2>3, <2>4, <2>5 DEF Memory!Outside
<1>6. CASE Memory!Stat
  <2>1. /\ stat' = Memory!StatOf(memoryMtime)
        /\ UNCHANGED <<wings, memory, memoryMtime, by, writes, sameRoot, memoryCache>>
    BY <1>6 DEF Memory!Stat, Memory!files
  <2>2. stat' \in Nat /\ stat' <= Memory!StatOf(memoryMtime)'
    BY <1>0, <2>1 DEF Memory!StatOf
  <2> QED BY <2>1, <2>2 DEF MemoryInv, MemoryTypes, Memory!StatOf, Memory!CachedIsCurrent
<1>7. CASE Memory!GetCachedBootBlock
  <2>1. /\ stat > 0 /\ stat' = 0 /\ memoryCache' = IF Memory!Hit THEN memoryCache ELSE Memory!Kept
        /\ UNCHANGED <<wings, memory, memoryMtime, by, writes, sameRoot>>
    BY <1>7 DEF Memory!GetCachedBootBlock, Memory!files
  <2>2. Memory!StatOf(memoryMtime) \in Nat /\ Memory!StatOf(memoryMtime)' = Memory!StatOf(memoryMtime)
    BY <1>0, <2>1 DEF Memory!StatOf
  <2>3. CASE memoryCache' = memoryCache
    BY <2>1, <2>2, <2>3
       DEF MemoryInv, MemoryTypes, Memory!CachedIsCurrent, Memory!StatOf
  <2>4. CASE memoryCache' = Memory!Kept
    <3>1. /\ Memory!Kept \in CacheT /\ Memory!Kept.mtime = stat /\ Memory!Kept.memory = memory
      BY <1>0 DEF Memory!Kept, CacheT
    <3> HIDE DEF Memory!Kept
    <3>2. MemoryTypes'
      BY <2>1, <2>4, <3>1 DEF MemoryInv, MemoryTypes
    <3> QED BY <1>0, <2>1, <2>2, <2>4, <3>1, <3>2 DEF MemoryInv, Memory!CachedIsCurrent
  <2> QED BY <2>1, <2>3, <2>4
<1>8. CASE Memory!Restart
  <2>1. Memory!NoCache \in CacheT /\ ~Memory!NoCache.set
    BY EmptyIs
  <2>2. memoryCache' = Memory!NoCache /\ UNCHANGED <<wings, memory, memoryMtime, by, writes, sameRoot, stat>>
    BY <1>8 DEF Memory!Restart, Memory!files
  <2> QED BY <2>1, <2>2 DEF MemoryInv, MemoryTypes, Memory!StatOf, Memory!CachedIsCurrent
<1>9. CASE UNCHANGED Memory!vars
  BY <1>9 DEF Memory!vars, MemoryInv, MemoryTypes, Memory!StatOf, Memory!CachedIsCurrent
<1> QED BY <1>1, <1>2, <1>3, <1>4, <1>5, <1>6, <1>7, <1>8, <1>9 DEF Memory!Next

LEMMA MemoryHolds == Spec => []MemoryInv
<1>1. Init => MemoryInv
  BY InitMemory, Zenon DEF Init
<1>2. MemoryInv /\ [Next]_vars => MemoryInv'
  BY NextMemory, MemorySteps
<1> QED BY <1>1, <1>2, PTL DEF Spec

(* A block that is kept for the time memory.md has is what the file holds,    *)
(* whoever writes between the stat and the read (getCachedBootBlock).       *)
THEOREM MemoryCachedIsCurrentHolds == Spec => []MemoryCachedIsCurrent
<1>1. MemoryInv => MemoryCachedIsCurrent
  BY DEF MemoryInv, MemoryCachedIsCurrent
<1> QED BY <1>1, MemoryHolds, PTL

LEMMA MemoryTyped == MemoryInv => Memory!TypeOK
<1> SUFFICES ASSUME MemoryInv PROVE Memory!TypeOK
  OBVIOUS
<1>1. /\ memoryMtime \in 0 .. MaxWrites /\ stat \in 0 .. MaxWrites + 1
  BY MemoryAssumption DEF MemoryInv, MemoryTypes, Memory!StatOf
<1>2. MemoryT = Memory!Memories
  BY DEF MemoryT, SectionT, Memory!Memories
<1>3. memoryCache.wings \in [Wings -> 0 .. MaxWrites] /\ memoryCache.memory \in MemoryT
  BY DEF MemoryInv, MemoryTypes, CacheT
<1> QED BY <1>1, <1>2, <1>3 DEF MemoryInv, MemoryTypes, Memory!TypeOK

-----------------------------------------------------------------------------
(* Induction.  The theorems of the library take the predicate as an operator, *)
(* which the provers cannot instantiate; with a set in its place they can. *)

\* Every nonempty set of numbers has a smallest element.
LEMMA Smallest ==
  ASSUME NEW S \in SUBSET Nat, S # {}
  PROVE  \E n \in S : \A m \in S : ~ (m < n)
<1> DEFINE R == {ss \in Nat \X Nat : ss[1] < ss[2]}
<1>1. IsWellFoundedOn(R, Nat)
  BY NatLessThanWellFounded DEF OpToRel
<1> HIDE DEF R
<1>2. \E x \in S : \A y \in S : ~ (<<y, x>> \in R)
  BY <1>1, WFMin
<1> USE DEF R
<1>3. QED
  BY <1>2

\* Induction over a set of numbers; the form with a predicate takes an
\* operator as a parameter.
LEMMA SetInduction ==
  ASSUME NEW S, 0 \in S, \A n \in Nat : n \in S => n + 1 \in S
  PROVE  \A n \in Nat : n \in S
<1>1. SUFFICES ASSUME Nat \ S # {} PROVE FALSE
  OBVIOUS
<1>2. PICK n \in Nat \ S : \A m \in Nat \ S : ~ (m < n)
  BY <1>1, Smallest
<1>3. n - 1 \in S
  BY <1>2
<1>4. QED
  BY <1>2, <1>3

\* Induction up to a bound: what every lemma about a recursive function uses.
LEMMA UpTo ==
  ASSUME NEW N \in Nat, NEW S, 0 \in S, \A n \in 1 .. N : n - 1 \in S => n \in S
  PROVE  \A n \in 0 .. N : n \in S
<1> DEFINE T == {n \in Nat : n <= N => n \in S}
<1>1. 0 \in T
  OBVIOUS
<1>2. ASSUME NEW n \in Nat, n \in T
      PROVE  n + 1 \in T
  <2>1. CASE n + 1 <= N
    <3>1. n + 1 \in 1 .. N /\ (n + 1) - 1 = n /\ n \in S
      BY <1>2, <2>1
    <3>2. QED
      BY <3>1
  <2>2. QED
    BY <2>1
<1> HIDE DEF T
<1>3. \A n \in Nat : n \in T
  BY <1>1, <1>2, SetInduction
<1>4. QED
  BY <1>3 DEF T

\* F[n] is the n-th of N functions that take a value of D to the next, from d.
Iterable(N, D, d, F) == N \in Nat /\ d \in D /\ F \in [1 .. N -> [D -> D]]

\* Such functions can be applied one after the other.
LEMMA Iteration ==
  ASSUME NEW N, NEW D, NEW d, NEW F, Iterable(N, D, d, F)
  PROVE  \E p \in [0 .. N -> D] : p[0] = d /\ \A n \in 1 .. N : p[n] = F[n][p[n - 1]]
<1> USE DEF Iterable
<1> DEFINE Good(p, m) == p[0] = d /\ \A n \in 1 .. m : p[n] = F[n][p[n - 1]]
           S == {m \in Nat : \E p \in [0 .. m -> D] : Good(p, m)}
<1>1. 0 \in S
  <2>1. Good([n \in 0 .. 0 |-> d], 0) /\ [n \in 0 .. 0 |-> d] \in [0 .. 0 -> D]
    OBVIOUS
  <2>2. QED
    BY <2>1
<1>2. ASSUME NEW m \in 1 .. N, m - 1 \in S
      PROVE  m \in S
  <2>1. PICK p \in [0 .. m - 1 -> D] : Good(p, m - 1)
    BY <1>2
  <2> DEFINE q == [n \in 0 .. m |-> IF n < m THEN p[n] ELSE F[m][p[m - 1]]]
  <2>2. \A n \in 0 .. m - 1 : q[n] = p[n]
    OBVIOUS
  <2>3. q[m] = F[m][p[m - 1]] /\ F[m][p[m - 1]] \in D
    BY <2>1
  <2>4. q \in [0 .. m -> D]
    BY <2>3
  <2> HIDE DEF q
  <2>5. \A n \in 1 .. m : q[n] = F[n][q[n - 1]]
    BY <2>1, <2>2, <2>3
  <2>6. q[0] = d
    BY <2>1, <2>2
  <2>7. QED
    BY <2>4, <2>5, <2>6
<1> HIDE DEF S
<1>3. \A m \in 0 .. N : m \in S
  BY <1>1, <1>2, UpTo
<1>4. QED
  BY <1>3 DEF S

-----------------------------------------------------------------------------
(* The cache of pages.                                                     *)

EntryT == [url : Urls, size : Sizes, at : 0 .. MaxTime, expires : Ttl .. MaxTime + Ttl]

LEMMA EntryHas ==
  ASSUME NEW e \in EntryT
  PROVE  e.url \in Urls /\ e.size \in Sizes /\ e.size \in Nat
BY WebAssumption DEF EntryT

(* No page is in the cache twice.                                          *)
PagesOnce(c) == \A i, j \in 1 .. Len(c) : c[i].url = c[j].url => i = j

\* p[n] is the size of the first n entries of c.
SumRun(c, p) ==
  /\ p \in [0 .. Len(c) -> Nat]
  /\ Web!BytesOf(c) = p[Len(c)]
  /\ p[0] = 0
  /\ \A n \in 1 .. Len(c) : p[n] = p[n - 1] + c[n].size

\* The size of a cache is computed entry by entry.
LEMMA SumUnfold ==
  ASSUME NEW c \in Seq(EntryT)
  PROVE  \E p : SumRun(c, p)
<1> DEFINE N == Len(c)
           F == [n \in 1 .. N |-> [x \in Nat |-> x + c[n].size]]
           Is(p) == p = [n \in 0 .. N |-> IF n = 0 THEN 0 ELSE p[n - 1] + c[n].size]
           q == CHOOSE p : Is(p)
<1>1. N \in Nat /\ 0 \in Nat
  OBVIOUS
<1>2. \A n \in 1 .. N : c[n].size \in Nat
  BY EntryHas
<1>3. Web!BytesOf(c) = q[N]
  BY Zenon DEF Web!BytesOf
<1> HIDE DEF N
<1>4. F \in [1 .. N -> [Nat -> Nat]] /\ \A n \in 1 .. N : \A x \in Nat : F[n][x] = x + c[n].size
  BY <1>2
<1> HIDE DEF F
<1>5. PICK p \in [0 .. N -> Nat] : p[0] = 0 /\ \A n \in 1 .. N : p[n] = F[n][p[n - 1]]
  <2>1. Iterable(N, Nat, 0, F)
    BY <1>1, <1>4 DEF Iterable
  <2>2. QED
    BY <2>1, Iteration
<1>6. Is(p)
  <2>1. ASSUME NEW n \in 1 .. N
        PROVE  p[n] = p[n - 1] + c[n].size
    <3>1. n - 1 \in 0 .. N
      BY <1>1
    <3>2. p[n - 1] \in Nat
      BY <1>5, <3>1
    <3>3. QED
      BY <1>4, <1>5, <3>2
  <2>2. \A n \in 0 .. N : p[n] = IF n = 0 THEN 0 ELSE p[n - 1] + c[n].size
    BY <1>1, <1>5, <2>1
  <2>3. QED
    BY <2>2, <1>5
<1> HIDE DEF q
<1>7. Is(q)
  <2> HIDE DEF Is
  <2>1. QED
    BY <1>6 DEF q
<1>8. q[0] = 0 /\ \A n \in 1 .. N : q[n] = q[n - 1] + c[n].size
  BY <1>1, <1>7
<1>9. q \in [0 .. N -> Nat]
  <2> DEFINE S == {n \in Nat : q[n] \in Nat}
  <2>1. 0 \in S
    BY <1>8
  <2>2. ASSUME NEW n \in 1 .. N, n - 1 \in S
        PROVE  n \in S
    <3>1. n \in Nat /\ q[n - 1] \in Nat /\ c[n].size \in Nat
      BY <1>1, <1>2, <2>2
    <3>2. q[n] = q[n - 1] + c[n].size
      BY <1>8
    <3>3. q[n] \in Nat
      BY <3>1, <3>2
    <3>4. QED
      BY <3>1, <3>3
  <2> HIDE DEF S
  <2>3. \A n \in 0 .. N : n \in S
    BY <1>1, <2>1, <2>2, UpTo
  <2>4. QED
    BY <1>7, <2>3 DEF S
<1>10. QED
  BY <1>3, <1>8, <1>9 DEF N, SumRun

\* The size is a number, and none for an empty cache.
LEMMA BytesTyped ==
  ASSUME NEW c \in Seq(EntryT)
  PROVE  Web!BytesOf(c) \in Nat
<1>1. PICK p : SumRun(c, p)
  BY SumUnfold, Zenon
<1> QED BY <1>1 DEF SumRun

LEMMA BytesEmpty == Web!BytesOf(<<>>) = 0
<1>1. <<>> \in Seq(EntryT) /\ Len(<<>>) = 0
  OBVIOUS
<1>2. PICK p : SumRun(<<>>, p)
  BY <1>1, SumUnfold, Zenon
<1> QED BY <1>1, <1>2 DEF SumRun

\* An entry at the end adds its size.
LEMMA BytesAppend ==
  ASSUME NEW c \in Seq(EntryT), NEW e \in EntryT
  PROVE  Web!BytesOf(Append(c, e)) = Web!BytesOf(c) + e.size
<1> DEFINE d == Append(c, e)
<1>1. d \in Seq(EntryT) /\ Len(c) \in Nat /\ Len(d) = Len(c) + 1 /\ d[Len(c) + 1] = e
      /\ \A i \in 1 .. Len(c) : d[i] = c[i]
  OBVIOUS
<1> HIDE DEF d
<1>2. PICK p : SumRun(c, p)
  BY SumUnfold, Zenon
<1>3. PICK q : SumRun(d, q)
  BY <1>1, SumUnfold, Zenon
<1> DEFINE S == {n \in 0 .. Len(c) : q[n] = p[n]}
<1>4. 0 \in S
  BY <1>1, <1>2, <1>3 DEF SumRun
<1>5. ASSUME NEW n \in 1 .. Len(c), n - 1 \in S PROVE n \in S
  BY <1>1, <1>2, <1>3, <1>5 DEF SumRun
<1> HIDE DEF S
<1>6. \A n \in 0 .. Len(c) : n \in S
  BY <1>1, <1>4, <1>5, UpTo
<1>7. q[Len(c)] = p[Len(c)]
  BY <1>1, <1>6 DEF S
<1>8. q[Len(c) + 1] = q[Len(c)] + e.size
  <2>1. Len(c) + 1 \in 1 .. Len(d) /\ (Len(c) + 1) - 1 = Len(c)
    BY <1>1
  <2> QED BY <1>1, <1>3, <2>1 DEF SumRun
<1> QED BY <1>1, <1>2, <1>3, <1>7, <1>8 DEF SumRun, d

\* One step of Sift: what its n-th value makes of the one before it.
SiftStep(c, S, n, r) == IF c[n] \in S THEN Append(r, c[n]) ELSE r

\* p[n] is what Sift keeps of the first n entries.
SiftRun(c, S, p) ==
  /\ p \in [0 .. Len(c) -> Seq(EntryT)]
  /\ Web!Sift(c, S) = p[Len(c)]
  /\ p[0] = <<>>
  /\ \A n \in 1 .. Len(c) : p[n] = SiftStep(c, S, n, p[n - 1])

\* Sift is computed entry by entry.
LEMMA SiftUnfold ==
  ASSUME NEW c \in Seq(EntryT), NEW S
  PROVE  \E p : SiftRun(c, S, p)
<1> DEFINE N == Len(c)
           D == Seq(EntryT)
           d == <<>>
           F == [n \in 1 .. N |-> [x \in D |-> SiftStep(c, S, n, x)]]
           Is(p) == p = [n \in 0 .. N |-> IF n = 0 THEN d ELSE SiftStep(c, S, n, p[n - 1])]
           q == CHOOSE p : Is(p)
<1>1. N \in Nat /\ d \in D
  OBVIOUS
<1>2. \A n \in 1 .. N : \A x \in D : SiftStep(c, S, n, x) \in D
  BY DEF SiftStep
<1>3. Web!Sift(c, S) = q[N]
  BY Zenon DEF Web!Sift, SiftStep
<1> HIDE DEF N, D, d
<1>4. F \in [1 .. N -> [D -> D]] /\ \A n \in 1 .. N : \A x \in D : F[n][x] = SiftStep(c, S, n, x)
  BY <1>2
<1> HIDE DEF F
<1>5. PICK p \in [0 .. N -> D] : p[0] = d /\ \A n \in 1 .. N : p[n] = F[n][p[n - 1]]
  <2>1. Iterable(N, D, d, F)
    BY <1>1, <1>4 DEF Iterable
  <2>2. QED
    BY <2>1, Iteration
<1>6. Is(p)
  <2>1. \A n \in 1 .. N : p[n] = SiftStep(c, S, n, p[n - 1])
    BY <1>1, <1>4, <1>5
  <2>2. \A n \in 0 .. N : p[n] = IF n = 0 THEN d ELSE SiftStep(c, S, n, p[n - 1])
    BY <1>1, <1>5, <2>1
  <2>3. QED
    BY <2>2, <1>5
<1> HIDE DEF q
<1>7. Is(q)
  <2> HIDE DEF Is
  <2>1. QED
    BY <1>6 DEF q
<1>8. q[0] = d /\ \A n \in 1 .. N : q[n] = SiftStep(c, S, n, q[n - 1])
  BY <1>1, <1>7
<1>9. q \in [0 .. N -> D]
  <2> DEFINE E == {n \in Nat : q[n] \in D}
  <2>1. 0 \in E /\ \A n \in 1 .. N : n - 1 \in E => n \in E
    BY <1>1, <1>2, <1>8
  <2> HIDE DEF E
  <2>2. \A n \in 0 .. N : n \in E
    BY <1>1, <2>1, UpTo
  <2>3. QED
    BY <1>7, <2>2 DEF E
<1>10. QED
  BY <1>3, <1>8, <1>9 DEF N, D, d, SiftRun

\* What is kept are entries of the cache that are in S, no more and no larger.
LEMMA SiftSound ==
  ASSUME NEW c \in Seq(EntryT), NEW S
  PROVE  LET d == Web!Sift(c, S)
         IN  /\ d \in Seq(EntryT)
             /\ Len(d) <= Len(c)
             /\ Web!BytesOf(d) <= Web!BytesOf(c)
             /\ \A k \in 1 .. Len(d) : d[k] \in S /\ \E i \in 1 .. Len(c) : d[k] = c[i]
<1>1. PICK p : SiftRun(c, S, p)
  BY SiftUnfold, Zenon
<1>2. PICK g : SumRun(c, g)
  BY SumUnfold, Zenon
<1> DEFINE Kept(n) == \A k \in 1 .. Len(p[n]) : p[n][k] \in S /\ \E i \in 1 .. n : p[n][k] = c[i]
           E == {n \in 0 .. Len(c) : Len(p[n]) <= n /\ Web!BytesOf(p[n]) <= g[n] /\ Kept(n)}
<1>3. 0 \in E
  <2>1. p[0] = <<>> /\ g[0] = 0 /\ Len(p[0]) = 0
    BY <1>1, <1>2 DEF SiftRun, SumRun
  <2>2. Web!BytesOf(p[0]) <= g[0]
    BY <2>1, BytesEmpty
  <2>3. Kept(0)
    BY <2>1
  <2> QED BY <2>1, <2>2, <2>3
<1>4. ASSUME NEW n \in 1 .. Len(c), n - 1 \in E PROVE n \in E
  <2>1. /\ n \in Nat /\ p[n] = SiftStep(c, S, n, p[n - 1]) /\ g[n] = g[n - 1] + c[n].size
        /\ c[n] \in EntryT
    BY <1>1, <1>2 DEF SiftRun, SumRun
  <2>2. n - 1 \in 0 .. Len(c)
    OBVIOUS
  <2>3. p[n - 1] \in Seq(EntryT) /\ g[n - 1] \in Nat /\ Web!BytesOf(p[n - 1]) \in Nat
        /\ c[n].size \in Nat /\ Len(p[n - 1]) \in Nat
    <3>1. p[n - 1] \in Seq(EntryT) /\ g[n - 1] \in Nat
      BY <1>1, <1>2, <2>2 DEF SiftRun, SumRun
    <3>2. Web!BytesOf(p[n - 1]) \in Nat /\ Len(p[n - 1]) \in Nat
      BY <3>1, BytesTyped
    <3>3. c[n].size \in Nat
      BY <2>1, EntryHas
    <3> QED BY <3>1, <3>2, <3>3
  <2>4. Len(p[n - 1]) <= n - 1 /\ Web!BytesOf(p[n - 1]) <= g[n - 1] /\ Kept(n - 1)
    BY <1>4
  <2>5. CASE c[n] \in S
    <3>1. p[n] = Append(p[n - 1], c[n])
      BY <2>1, <2>5 DEF SiftStep
    <3>2. Web!BytesOf(p[n]) = Web!BytesOf(p[n - 1]) + c[n].size
      BY <2>1, <2>3, <3>1, BytesAppend
    <3>3. Len(p[n]) = Len(p[n - 1]) + 1 /\ p[n][Len(p[n - 1]) + 1] = c[n]
          /\ \A k \in 1 .. Len(p[n - 1]) : p[n][k] = p[n - 1][k]
      BY <2>1, <2>3, <3>1
    <3>4. Kept(n)
      <4> SUFFICES ASSUME NEW k \in 1 .. Len(p[n])
                   PROVE  p[n][k] \in S /\ \E i \in 1 .. n : p[n][k] = c[i]
        OBVIOUS
      <4>1. CASE k \in 1 .. Len(p[n - 1])
        BY <2>1, <2>4, <3>3, <4>1
      <4>2. CASE k = Len(p[n - 1]) + 1
        BY <2>1, <2>5, <3>3, <4>2
      <4> QED BY <2>3, <3>3, <4>1, <4>2
    <3> HIDE DEF Kept
    <3>5. Len(p[n]) <= n /\ Web!BytesOf(p[n]) <= g[n]
      BY <2>1, <2>3, <2>4, <3>2, <3>3
    <3> QED BY <3>4, <3>5
  <2>6. CASE c[n] \notin S
    <3>1. p[n] = p[n - 1]
      BY <2>1, <2>6 DEF SiftStep
    <3>2. Kept(n)
      BY <2>1, <2>4, <3>1
    <3> HIDE DEF Kept
    <3>3. Len(p[n]) <= n /\ Web!BytesOf(p[n]) <= g[n]
      BY <2>1, <2>3, <2>4, <3>1
    <3> QED BY <3>2, <3>3
  <2> QED BY <2>5, <2>6
<1>5. Len(c) \in Nat
  OBVIOUS
<1> HIDE DEF E
<1>6. Len(c) \in E
  <2>1. \A n \in 0 .. Len(c) : n \in E
    BY <1>3, <1>4, <1>5, UpTo
  <2> QED BY <1>5, <2>1
<1>7. Web!Sift(c, S) = p[Len(c)] /\ p[Len(c)] \in Seq(EntryT) /\ Web!BytesOf(c) = g[Len(c)]
  BY <1>1, <1>2, <1>5 DEF SiftRun, SumRun
<1> QED BY <1>6, <1>7 DEF E

\* No page comes to be there twice.
LEMMA SiftOnce ==
  ASSUME NEW c \in Seq(EntryT), NEW S, PagesOnce(c)
  PROVE  PagesOnce(Web!Sift(c, S))
<1>1. PICK p : SiftRun(c, S, p)
  BY SiftUnfold, Zenon
<1> DEFINE Kept(n) == \A k \in 1 .. Len(p[n]) : \E i \in 1 .. n : p[n][k] = c[i]
           E == {n \in 0 .. Len(c) : Kept(n) /\ PagesOnce(p[n])}
<1>2. 0 \in E
  <2>1. p[0] = <<>> /\ Len(p[0]) = 0
    BY <1>1 DEF SiftRun
  <2> QED BY <2>1 DEF PagesOnce
<1>3. ASSUME NEW n \in 1 .. Len(c), n - 1 \in E PROVE n \in E
  <2>1. n \in Nat /\ p[n] = SiftStep(c, S, n, p[n - 1]) /\ c[n] \in EntryT
    BY <1>1 DEF SiftRun
  <2>2. n - 1 \in 0 .. Len(c)
    OBVIOUS
  <2>3. p[n - 1] \in Seq(EntryT) /\ Len(p[n - 1]) \in Nat
    BY <1>1, <2>2 DEF SiftRun
  <2>4. Kept(n - 1) /\ PagesOnce(p[n - 1])
    BY <1>3
  <2>5. CASE c[n] \in S
    <3>1. p[n] = Append(p[n - 1], c[n])
      BY <2>1, <2>5 DEF SiftStep
    <3>2. Len(p[n]) = Len(p[n - 1]) + 1 /\ p[n][Len(p[n - 1]) + 1] = c[n]
          /\ \A k \in 1 .. Len(p[n - 1]) : p[n][k] = p[n - 1][k]
      BY <2>1, <2>3, <3>1
    <3>3. \A k \in 1 .. Len(p[n - 1]) : \E i \in 1 .. Len(c) : i < n /\ p[n][k] = c[i]
      BY <2>1, <2>4, <3>2
    <3>4. \A k \in 1 .. Len(p[n - 1]) : p[n][k].url # c[n].url
      BY <3>3 DEF PagesOnce
    <3>5. Kept(n)
      <4> SUFFICES ASSUME NEW k \in 1 .. Len(p[n])
                   PROVE  \E i \in 1 .. n : p[n][k] = c[i]
        OBVIOUS
      <4>1. CASE k \in 1 .. Len(p[n - 1])
        BY <2>1, <2>4, <3>2, <4>1
      <4>2. CASE k = Len(p[n - 1]) + 1
        BY <2>1, <3>2, <4>2
      <4> QED BY <2>3, <3>2, <4>1, <4>2
    <3> HIDE DEF Kept
    <3>6. PagesOnce(p[n])
      <4> SUFFICES ASSUME NEW i \in 1 .. Len(p[n]), NEW j \in 1 .. Len(p[n]), p[n][i].url = p[n][j].url
                   PROVE  i = j
        BY DEF PagesOnce
      <4> DEFINE L == Len(p[n - 1])
      <4>1. \A k \in 1 .. Len(p[n]) : k \in 1 .. L \/ k = L + 1
        BY <2>3, <3>2
      <4>2. CASE i \in 1 .. L /\ j \in 1 .. L
        BY <2>4, <3>2, <4>2 DEF PagesOnce
      <4>3. CASE i = L + 1 /\ j \in 1 .. L
        BY <3>2, <3>4, <4>3
      <4>4. CASE i \in 1 .. L /\ j = L + 1
        BY <3>2, <3>4, <4>4
      <4> HIDE DEF L
      <4> QED BY <4>1, <4>2, <4>3, <4>4
    <3> QED BY <3>5, <3>6
  <2>6. CASE c[n] \notin S
    <3>1. p[n] = p[n - 1]
      BY <2>1, <2>6 DEF SiftStep
    <3>2. Kept(n)
      BY <2>1, <2>4, <3>1
    <3> QED BY <2>4, <3>1, <3>2
  <2> QED BY <2>5, <2>6
<1>4. Len(c) \in Nat
  OBVIOUS
<1> HIDE DEF E
<1>5. Len(c) \in E
  <2>1. \A n \in 0 .. Len(c) : n \in E
    BY <1>2, <1>3, <1>4, UpTo
  <2> QED BY <1>4, <2>1
<1> QED BY <1>1, <1>5 DEF E, SiftRun

\* Without a page that is there, the cache is one entry and its size smaller.
LEMMA WithoutSmaller ==
  ASSUME NEW c \in Seq(EntryT), PagesOnce(c), NEW k \in 1 .. Len(c)
  PROVE  LET d == Web!Without(c, c[k].url)
         IN  Len(d) = Len(c) - 1 /\ Web!BytesOf(d) = Web!BytesOf(c) - c[k].size
<1> DEFINE S == {e \in Web!Entries(c) : e.url # c[k].url}
<1>1. \A i \in 1 .. Len(c) : c[i] \in S <=> i # k
  BY DEF PagesOnce, Web!Entries
<1>2. Web!Without(c, c[k].url) = Web!Sift(c, S)
  BY Zenon DEF Web!Without
<1> HIDE DEF S
<1>3. PICK p : SiftRun(c, S, p)
  BY SiftUnfold, Zenon
<1>4. PICK g : SumRun(c, g)
  BY SumUnfold, Zenon
<1> DEFINE E == {n \in 0 .. Len(c) :
                  /\ n < k => Len(p[n]) = n /\ Web!BytesOf(p[n]) = g[n]
                  /\ k <= n => Len(p[n]) = n - 1 /\ Web!BytesOf(p[n]) = g[n] - c[k].size}
<1>5. 0 \in E
  BY <1>3, <1>4, BytesEmpty DEF SiftRun, SumRun
<1>6. ASSUME NEW n \in 1 .. Len(c), n - 1 \in E PROVE n \in E
  <2>1. /\ n \in Nat /\ p[n] = SiftStep(c, S, n, p[n - 1]) /\ g[n] = g[n - 1] + c[n].size
        /\ c[n] \in EntryT /\ c[k].size \in Nat
    BY <1>3, <1>4, EntryHas DEF SiftRun, SumRun
  <2>2. n - 1 \in 0 .. Len(c)
    OBVIOUS
  <2>3. p[n - 1] \in Seq(EntryT) /\ g[n - 1] \in Nat /\ Web!BytesOf(p[n - 1]) \in Nat
        /\ c[n].size \in Nat /\ Len(p[n - 1]) \in Nat
    <3>1. p[n - 1] \in Seq(EntryT) /\ g[n - 1] \in Nat
      BY <1>3, <1>4, <2>2 DEF SiftRun, SumRun
    <3>2. Web!BytesOf(p[n - 1]) \in Nat /\ Len(p[n - 1]) \in Nat
      BY <3>1, BytesTyped
    <3>3. c[n].size \in Nat
      BY <2>1, EntryHas
    <3> QED BY <3>1, <3>2, <3>3
  <2>4. /\ n - 1 < k => Len(p[n - 1]) = n - 1 /\ Web!BytesOf(p[n - 1]) = g[n - 1]
        /\ k <= n - 1 => Len(p[n - 1]) = n - 1 - 1 /\ Web!BytesOf(p[n - 1]) = g[n - 1] - c[k].size
    BY <1>6
  <2>5. CASE n # k
    <3>1. p[n] = Append(p[n - 1], c[n])
      BY <1>1, <2>1, <2>5 DEF SiftStep
    <3>2. Len(p[n]) = Len(p[n - 1]) + 1 /\ Web!BytesOf(p[n]) = Web!BytesOf(p[n - 1]) + c[n].size
      BY <2>1, <2>3, <3>1, BytesAppend
    <3>3. k \in Nat
      OBVIOUS
    <3>4. CASE n < k
      <4>1. n - 1 < k
        BY <2>1, <3>3, <3>4
      <4>2. Len(p[n - 1]) = n - 1 /\ Web!BytesOf(p[n - 1]) = g[n - 1]
        BY <2>4, <4>1
      <4>3. Len(p[n]) = n
        BY <2>1, <3>2, <4>2
      <4>4. Web!BytesOf(p[n]) = g[n]
        BY <2>1, <3>2, <4>2
      <4>5. ~ k <= n
        BY <2>1, <3>3, <3>4
      <4> QED BY <4>3, <4>4, <4>5
    <3>5. CASE k < n
      <4>1. k <= n - 1
        BY <2>1, <3>3, <3>5
      <4>2. Len(p[n - 1]) = n - 1 - 1 /\ Web!BytesOf(p[n - 1]) = g[n - 1] - c[k].size
        BY <2>4, <4>1
      <4>3. Len(p[n]) = n - 1
        BY <2>1, <3>2, <4>2
      <4>4. Web!BytesOf(p[n]) = g[n] - c[k].size
        BY <2>1, <2>3, <3>2, <4>2
      <4>5. ~ n < k
        BY <2>1, <3>3, <3>5
      <4> QED BY <4>3, <4>4, <4>5
    <3> QED BY <2>1, <2>5, <3>3, <3>4, <3>5
  <2>6. CASE n = k
    <3>1. p[n] = p[n - 1]
      BY <1>1, <2>1, <2>6 DEF SiftStep
    <3>2. n - 1 < k
      BY <2>1, <2>6
    <3>3. Len(p[n]) = n - 1 /\ Web!BytesOf(p[n]) = g[n - 1]
      BY <2>4, <3>1, <3>2
    <3>4. g[n - 1] = g[n] - c[k].size
      BY <2>1, <2>3, <2>6
    <3>5. ~ n < k
      BY <2>1, <2>6
    <3> QED BY <3>3, <3>4, <3>5
  <2> QED BY <2>5, <2>6
<1>7. Len(c) \in Nat
  OBVIOUS
<1> HIDE DEF E
<1>8. Len(c) \in E
  <2>1. \A n \in 0 .. Len(c) : n \in E
    BY <1>5, <1>6, <1>7, UpTo
  <2> QED BY <1>7, <2>1
<1> QED BY <1>2, <1>3, <1>4, <1>8 DEF E, SiftRun, SumRun

-----------------------------------------------------------------------------
(* What the tools do with the cache.                                       *)

CacheSound(c) ==
  /\ c \in Seq(EntryT) /\ PagesOnce(c)
  /\ Web!BytesOf(c) <= MaxBytes /\ Len(c) <= MaxEntries

\* The count is kept beside the map.
CacheInv == CacheSound(webCache) /\ bytes = Web!BytesOf(webCache)

\* Adding a page that is not there keeps pages once.
LEMMA PagesAppend ==
  ASSUME NEW c \in Seq(EntryT), PagesOnce(c), NEW e \in EntryT,
         \A i \in 1 .. Len(c) : c[i].url # e.url
  PROVE  Append(c, e) \in Seq(EntryT) /\ PagesOnce(Append(c, e)) /\ Len(Append(c, e)) = Len(c) + 1
<1> DEFINE d == Append(c, e)
           L == Len(c)
<1>1. d \in Seq(EntryT) /\ L \in Nat /\ Len(d) = L + 1 /\ d[L + 1] = e
      /\ \A i \in 1 .. L : d[i] = c[i]
  OBVIOUS
<1> HIDE DEF d
<1>2. ASSUME NEW i \in 1 .. Len(d), NEW j \in 1 .. Len(d), d[i].url = d[j].url
      PROVE  i = j
  <2>1. (i \in 1 .. L \/ i = L + 1) /\ (j \in 1 .. L \/ j = L + 1)
    BY <1>1
  <2>2. CASE i \in 1 .. L /\ j \in 1 .. L
    BY <1>1, <1>2, <2>2 DEF PagesOnce
  <2>3. CASE i = L + 1 /\ j \in 1 .. L
    BY <1>1, <1>2, <2>3
  <2>4. CASE i \in 1 .. L /\ j = L + 1
    BY <1>1, <1>2, <2>4
  <2> QED BY <2>1, <2>2, <2>3, <2>4
<1>3. PagesOnce(d)
  BY <1>2 DEF PagesOnce
<1> QED BY <1>1, <1>3 DEF d

\* Without a page, it is not there.
LEMMA WithoutSound ==
  ASSUME NEW c \in Seq(EntryT), PagesOnce(c), NEW u
  PROVE  LET d == Web!Without(c, u)
         IN  /\ d \in Seq(EntryT) /\ PagesOnce(d)
             /\ Len(d) <= Len(c) /\ Web!BytesOf(d) <= Web!BytesOf(c)
             /\ \A k \in 1 .. Len(d) : d[k].url # u
<1> DEFINE S == {e \in Web!Entries(c) : e.url # u}
<1>1. Web!Without(c, u) = Web!Sift(c, S)
  BY Zenon DEF Web!Without
<1>2. \A e \in S : e.url # u
  OBVIOUS
<1> HIDE DEF S
<1> QED BY <1>1, <1>2, SiftSound, SiftOnce

\* A page that is there is one of the entries.
LEMMA EntryOfIs ==
  ASSUME NEW c \in Seq(EntryT), NEW u \in Web!KeysOf(c)
  PROVE  \E k \in 1 .. Len(c) : Web!EntryOf(c, u) = c[k] /\ c[k].url = u
<1>1. \E e \in Web!Entries(c) : e.url = u
  BY DEF Web!KeysOf
<1>2. Web!EntryOf(c, u) \in Web!Entries(c) /\ Web!EntryOf(c, u).url = u
  BY <1>1, Zenon DEF Web!EntryOf
<1> QED BY <1>2 DEF Web!Entries

\* get: the entries change their order and nothing else.
LEMMA TouchedSound ==
  ASSUME NEW c, CacheSound(c), NEW u \in Web!KeysOf(c)
  PROVE  CacheSound(Web!Touched(c, u)) /\ Web!BytesOf(Web!Touched(c, u)) = Web!BytesOf(c)
<1>1. c \in Seq(EntryT) /\ PagesOnce(c) /\ Len(c) \in Nat
  BY DEF CacheSound
<1>2. PICK k \in 1 .. Len(c) : Web!EntryOf(c, u) = c[k] /\ c[k].url = u
  BY <1>1, EntryOfIs
<1> DEFINE d == Web!Without(c, u)
<1>3. /\ d \in Seq(EntryT) /\ PagesOnce(d) /\ \A i \in 1 .. Len(d) : d[i].url # u
      /\ Len(d) \in Nat
  BY <1>1, WithoutSound
<1>4. Len(d) = Len(c) - 1 /\ Web!BytesOf(d) = Web!BytesOf(c) - c[k].size
  BY <1>1, <1>2, WithoutSmaller
<1>5. Web!Touched(c, u) = Append(d, c[k])
  BY <1>2, Zenon DEF Web!Touched
<1> HIDE DEF d
<1>6. c[k] \in EntryT /\ c[k].size \in Nat
  BY <1>1, EntryHas
<1>7. /\ Append(d, c[k]) \in Seq(EntryT) /\ PagesOnce(Append(d, c[k]))
      /\ Len(Append(d, c[k])) = Len(d) + 1
  BY <1>2, <1>3, <1>6, PagesAppend
<1>8. Web!BytesOf(Append(d, c[k])) = Web!BytesOf(d) + c[k].size
  BY <1>3, <1>6, BytesAppend
<1>9. Web!BytesOf(c) \in Nat /\ Web!BytesOf(d) \in Nat
  BY <1>1, <1>3, BytesTyped
<1>10. Web!BytesOf(Append(d, c[k])) = Web!BytesOf(c) /\ Len(Append(d, c[k])) = Len(c)
  BY <1>1, <1>3, <1>4, <1>6, <1>7, <1>8, <1>9
<1> QED BY <1>5, <1>7, <1>10 DEF CacheSound

\* A set of numbers has the smallest that Min chooses.
LEMMA MinIn ==
  ASSUME NEW S \in SUBSET Nat, S # {}
  PROVE  Web!Min(S) \in S
<1>1. PICK n \in S : \A m \in S : ~ (m < n)
  BY Smallest
<1>2. \A m \in S : n <= m
  BY <1>1
<1> QED BY <1>2, Zenon DEF Web!Min

\* The end of a cache is one.
LEMMA EndSound ==
  ASSUME NEW c \in Seq(EntryT), PagesOnce(c), NEW n \in 0 .. Len(c)
  PROVE  LET d == SubSeq(c, n + 1, Len(c)) IN d \in Seq(EntryT) /\ PagesOnce(d)
<1> DEFINE d == SubSeq(c, n + 1, Len(c))
<1>1. Len(c) \in Nat /\ n \in Nat /\ n + 1 \in 1 .. Len(c) + 1
  OBVIOUS
<1>2. d \in Seq(EntryT) /\ Len(d) = Len(c) - n /\ \A i \in 1 .. Len(c) - n : d[i] = c[n + i]
  <2>1. n + 1 \in Int /\ Len(c) \in Int
    BY <1>1
  <2>2. CASE n < Len(c)
    BY <1>1, <2>2, SubSeqProperties
  <2>3. CASE n = Len(c)
    <3>1. d = <<>> /\ Len(c) - n = 0
      BY <1>1, <2>3, SubSeqProperties
    <3> QED BY <3>1
  <2> QED BY <1>1, <2>2, <2>3
<1> HIDE DEF d
<1>3. ASSUME NEW i \in 1 .. Len(d), NEW j \in 1 .. Len(d), d[i].url = d[j].url
      PROVE  i = j
  <2>1. n + i \in 1 .. Len(c) /\ n + j \in 1 .. Len(c)
    BY <1>1, <1>2
  <2>2. c[n + i].url = c[n + j].url
    BY <1>2, <1>3
  <2>3. n + i = n + j
    BY <2>1, <2>2 DEF PagesOnce
  <2> QED BY <1>1, <2>3
<1> QED BY <1>2, <1>3 DEF PagesOnce, d

\* evictIfNeeded: what is left fits.
LEMMA FittingSound ==
  ASSUME NEW c \in Seq(EntryT), PagesOnce(c)
  PROVE  CacheSound(Web!Fitting(c))
<1> DEFINE Kept(n) == SubSeq(c, n + 1, Len(c))
           S == {n \in 0 .. Len(c) : Web!Fits(Kept(n))}
<1>1. Web!Fitting(c) = Kept(Web!Min(S))
  BY Zenon DEF Web!Fitting
<1>2. Len(c) \in S
  <2>1. Kept(Len(c)) = <<>>
    BY SubSeqProperties
  <2>2. 0 <= MaxEntries /\ 0 <= MaxBytes
    BY WebAssumption
  <2>3. Len(Kept(Len(c))) <= MaxEntries
    BY <2>1, <2>2
  <2>4. Web!BytesOf(Kept(Len(c))) <= MaxBytes
    BY <2>1, <2>2, BytesEmpty
  <2> HIDE DEF Kept
  <2>5. Len(c) \in 0 .. Len(c)
    OBVIOUS
  <2> QED BY <2>3, <2>4, <2>5 DEF Web!Fits
<1>3. Web!Min(S) \in S
  <2>1. S \in SUBSET Nat
    OBVIOUS
  <2> HIDE DEF S
  <2> QED BY <1>2, <2>1, MinIn
<1>4. ASSUME NEW n \in S PROVE CacheSound(Kept(n))
  <2>1. Kept(n) \in Seq(EntryT) /\ PagesOnce(Kept(n))
    BY EndSound
  <2>2. Len(Kept(n)) <= MaxEntries /\ Web!BytesOf(Kept(n)) <= MaxBytes
    BY DEF Web!Fits
  <2> HIDE DEF Kept
  <2> QED BY <2>1, <2>2 DEF CacheSound
<1> HIDE DEF S, Kept
<1> QED BY <1>1, <1>3, <1>4

\* The count follows what is dropped.
LEMMA LessIs ==
  ASSUME NEW b \in Nat, NEW c \in Seq(EntryT), NEW d \in Seq(EntryT), b = Web!BytesOf(c)
  PROVE  Web!Less(b, c, d) = Web!BytesOf(d)
<1>1. Web!BytesOf(d) \in Nat
  BY BytesTyped
<1> QED BY <1>1 DEF Web!Less

\* getCachedFetch, of a page that is there or not.
LEMMA TouchKeeps ==
  ASSUME CacheInv, NEW u \in Web!KeysOf(webCache), webCache' = Web!Touched(webCache, u), bytes' = bytes
  PROVE  CacheInv'
<1>1. CacheSound(webCache') /\ Web!BytesOf(webCache') = Web!BytesOf(webCache)
  BY TouchedSound DEF CacheInv
<1>2. CacheSound(webCache)' /\ bytes' = Web!BytesOf(webCache)'
  BY <1>1 DEF CacheSound, PagesOnce, Web!BytesOf, CacheInv
<1> QED BY <1>2 DEF CacheInv

LEMMA DropKeeps ==
  ASSUME CacheInv, NEW u, webCache' = Web!Without(webCache, u),
         bytes' = Web!Less(bytes, webCache, webCache')
  PROVE  CacheInv'
<1> DEFINE d == Web!Without(webCache, u)
<1>1. webCache \in Seq(EntryT) /\ PagesOnce(webCache) /\ bytes = Web!BytesOf(webCache)
      /\ Web!BytesOf(webCache) <= MaxBytes /\ Len(webCache) <= MaxEntries
  BY DEF CacheInv, CacheSound
<1>2. d \in Seq(EntryT) /\ PagesOnce(d) /\ Len(d) <= Len(webCache)
      /\ Web!BytesOf(d) <= Web!BytesOf(webCache)
  BY <1>1, WithoutSound
<1> HIDE DEF d
<1>3. /\ bytes \in Nat /\ Web!BytesOf(d) \in Nat /\ Len(d) \in Nat /\ Len(webCache) \in Nat
      /\ MaxBytes \in Nat /\ MaxEntries \in Nat
  BY <1>1, <1>2, BytesTyped, WebAssumption
<1>4. CacheSound(d)
  BY <1>1, <1>2, <1>3 DEF CacheSound
<1>5. bytes' = Web!BytesOf(d)
  BY <1>1, <1>2, <1>3, LessIs DEF d
<1>6. webCache' = d
  BY DEF d
<1> QED BY <1>4, <1>5, <1>6 DEF CacheSound, PagesOnce, Web!BytesOf, CacheInv

\* set: what is replaced and evicted is taken off the count, what is put there
\* is added.
LEMMA SetKeeps ==
  ASSUME CacheInv, now \in 0 .. MaxTime, NEW u \in Urls, NEW size \in Sizes, Web!Set(u, size)
  PROVE  CacheInv'
<1> DEFINE others == Web!Without(webCache, u)
           e == Web!Entry(u, size)
           added == Append(others, e)
           live == Web!Unexpired(added)
           kept == Web!Fitting(live)
<1>1. webCache \in Seq(EntryT) /\ PagesOnce(webCache) /\ bytes = Web!BytesOf(webCache)
  BY DEF CacheInv, CacheSound
<1>2. others \in Seq(EntryT) /\ PagesOnce(others) /\ \A k \in 1 .. Len(others) : others[k].url # u
  BY <1>1, WithoutSound
<1>3. e \in EntryT /\ e.url = u /\ e.size = size /\ size \in Nat
  BY WebAssumption DEF Web!Entry, EntryT
<1>4. webCache' = kept /\ bytes' = Web!Less(Web!Less(bytes, webCache, others) + size, added, webCache')
  BY Zenon DEF Web!Set
<1> HIDE DEF others, e
<1>5. added \in Seq(EntryT) /\ PagesOnce(added)
  BY <1>2, <1>3, PagesAppend
<1>6. Web!BytesOf(added) = Web!BytesOf(others) + size
  BY <1>2, <1>3, BytesAppend
<1> HIDE DEF added
<1>7. CacheSound(kept)
  <2>1. live \in Seq(EntryT) /\ PagesOnce(live)
    BY <1>5, SiftSound, SiftOnce DEF Web!Unexpired
  <2> HIDE DEF live
  <2> QED BY <2>1, FittingSound
<1> HIDE DEF kept
<1>8. kept \in Seq(EntryT)
  BY <1>7 DEF CacheSound
<1>9. /\ bytes \in Nat /\ Web!BytesOf(others) \in Nat /\ Web!BytesOf(added) \in Nat
      /\ Web!BytesOf(kept) \in Nat
  BY <1>1, <1>2, <1>5, <1>8, BytesTyped
<1>10. Web!Less(bytes, webCache, others) + size = Web!BytesOf(added)
  BY <1>1, <1>2, <1>6, <1>9, LessIs
<1>11. bytes' = Web!BytesOf(kept)
  <2>1. Web!Less(Web!BytesOf(added), added, kept) = Web!BytesOf(kept)
    BY <1>5, <1>8, <1>9, LessIs
  <2> QED BY <1>4, <1>10, <2>1
<1> QED BY <1>4, <1>7, <1>11 DEF CacheSound, PagesOnce, Web!BytesOf, CacheInv

-----------------------------------------------------------------------------
(* The calls of the web tools.                                             *)

WebPcs == {"idle", "look", "hop", "single", "curl", "ask", "scrape", "found", "done"}
WebResults == {Web!None, "cached", "own", "other", "found", "failed"}

WebTypes ==
  /\ webPc \in [WebCalls -> WebPcs]
  /\ action \in [WebCalls -> {"fetch", "search", "image_search"}]
  /\ url \in [WebCalls -> Urls]
  /\ tries \in [WebCalls -> 0 .. MaxRedirects + MaxRetries]
  /\ webResult \in [WebCalls -> WebResults]
  /\ now \in 0 .. MaxTime
  /\ sources \subseteq 0 .. now

\* Within its limits, counted and of its kind.
WebInv == CacheInv /\ WebTypes

LEMMA FunctionChanged ==
  ASSUME NEW A, NEW B, NEW f \in [A -> B], NEW a, NEW b \in B
  PROVE  [f EXCEPT ![a] = b] \in [A -> B]
OBVIOUS

\* A call goes on, to where and with what result.
LEMMA ToKeeps ==
  ASSUME WebInv, NEW c, NEW w \in WebPcs, Web!To(c, w)
  PROVE  webPc' \in [WebCalls -> WebPcs]
<1>1. webPc' = [webPc EXCEPT ![c] = w]
  BY DEF Web!To
<1>2. webPc \in [WebCalls -> WebPcs]
  BY DEF WebInv, WebTypes
<1> HIDE DEF WebPcs
<1> QED BY <1>1, <1>2, FunctionChanged, Zenon

LEMMA EndKeeps ==
  ASSUME WebInv, NEW c, NEW r \in WebResults, Web!End(c, r)
  PROVE  webPc' \in [WebCalls -> WebPcs] /\ webResult' \in [WebCalls -> WebResults]
<1>1. Web!To(c, "done") /\ webResult' = [webResult EXCEPT ![c] = r]
  BY DEF Web!End
<1>2. webResult \in [WebCalls -> WebResults]
  BY DEF WebInv, WebTypes
<1>3. "done" \in WebPcs
  BY DEF WebPcs
<1> HIDE DEF WebPcs, WebResults
<1>4. webPc' \in [WebCalls -> WebPcs]
  BY <1>1, <1>3, ToKeeps, Zenon
<1>5. webResult' \in [WebCalls -> WebResults]
  BY <1>1, <1>2, FunctionChanged, Zenon
<1> QED BY <1>4, <1>5

LEMMA ExtractKeeps ==
  ASSUME WebInv, NEW c, NEW r \in WebResults, Web!Extract(c, r), now' = now
  PROVE  /\ webPc' \in [WebCalls -> WebPcs] /\ webResult' \in [WebCalls -> WebResults]
         /\ sources' \subseteq 0 .. now' /\ now' \in 0 .. MaxTime
<1>1. Web!End(c, r) /\ sources' = sources \cup {now}
  BY DEF Web!Extract
<1>2. webPc' \in [WebCalls -> WebPcs] /\ webResult' \in [WebCalls -> WebResults]
  BY <1>1, EndKeeps, Zenon
<1>3. now \in 0 .. MaxTime /\ sources \subseteq 0 .. now
  BY DEF WebInv, WebTypes
<1>4. now \in 0 .. now
  BY <1>3, WebAssumption
<1> QED BY <1>1, <1>2, <1>3, <1>4

LEMMA RemainderIs == \A a, m \in Nat : a % (m + 1) \in 0 .. m
OBVIOUS

\* Tries are bounded by what they count up to.
LEMMA TriesKeep ==
  ASSUME WebInv, NEW c, NEW n \in 0 .. MaxRedirects + MaxRetries,
         tries' = [tries EXCEPT ![c] = n]
  PROVE  tries' \in [WebCalls -> 0 .. MaxRedirects + MaxRetries]
<1>1. tries \in [WebCalls -> 0 .. MaxRedirects + MaxRetries]
  BY DEF WebInv, WebTypes
<1> QED BY <1>1, FunctionChanged, Zenon

LEMMA AnswerKeeps ==
  ASSUME WebInv, NEW c \in WebCalls, NEW r \in WebResults, Web!Answer(c, r), UNCHANGED <<action, url, now>>
  PROVE  WebInv'
<1>1. PICK size \in Sizes : Web!Set(url[c], size)
  BY DEF Web!Answer
<1>2. url[c] \in Urls /\ now \in 0 .. MaxTime
  BY DEF WebInv, WebTypes
<1>3. CacheInv'
  BY <1>1, <1>2, SetKeeps, Zenon DEF WebInv
<1>4. Web!Extract(c, r) /\ UNCHANGED tries
  BY DEF Web!Answer
<1>5. /\ webPc' \in [WebCalls -> WebPcs] /\ webResult' \in [WebCalls -> WebResults]
      /\ sources' \subseteq 0 .. now' /\ now' \in 0 .. MaxTime
  BY <1>4, ExtractKeeps, Zenon
<1> QED BY <1>3, <1>4, <1>5 DEF WebInv, WebTypes, WebPcs, WebResults, Web!None
LEMMA CacheSame == CacheInv /\ webCache' = webCache /\ bytes' = bytes => CacheInv'
BY DEF CacheInv, CacheSound, PagesOnce, Web!BytesOf

LEMMA InitWeb == Web!Init => WebInv
<1> SUFFICES ASSUME Web!Init PROVE WebInv
  OBVIOUS
<1>1. webCache = <<>> /\ bytes = 0 /\ sources = {} /\ now = 0
  BY DEF Web!Init
<1>2. CacheInv
  <2>1. webCache \in Seq(EntryT) /\ Len(webCache) = 0
    BY <1>1
  <2>2. PagesOnce(webCache)
    BY <2>1 DEF PagesOnce
  <2>3. Web!BytesOf(webCache) = 0
    BY <1>1, BytesEmpty
  <2> QED BY <1>1, <2>1, <2>2, <2>3, WebAssumption DEF CacheInv, CacheSound
<1>3. Web!AnyUrl \in Urls
  BY WebAssumption, Zenon DEF Web!AnyUrl
<1>4. /\ webPc \in [WebCalls -> WebPcs]
      /\ action \in [WebCalls -> {"fetch", "search", "image_search"}]
      /\ webResult \in [WebCalls -> WebResults]
  BY DEF Web!Init, WebPcs, WebResults
<1>5. url \in [WebCalls -> Urls]
  BY <1>3 DEF Web!Init
<1>6. tries \in [WebCalls -> 0 .. MaxRedirects + MaxRetries]
  BY WebAssumption DEF Web!Init
<1>7. now \in 0 .. MaxTime
  BY <1>1, WebAssumption
<1> QED BY <1>1, <1>2, <1>4, <1>5, <1>6, <1>7 DEF WebInv, WebTypes

LEMMA FetchKeeps ==
  ASSUME WebInv, NEW c \in WebCalls, NEW u \in Urls, Web!Fetch(c, u)
  PROVE  WebInv'
<1>1. /\ action' = [action EXCEPT ![c] = "fetch"] /\ url' = [url EXCEPT ![c] = u]
      /\ UNCHANGED <<webCache, bytes, tries, sources, now>>
  BY DEF Web!Fetch, Web!cacheVars
<1>2. Web!End(c, "failed") \/ (Web!To(c, "look") /\ UNCHANGED webResult)
  BY DEF Web!Fetch
<1>3. "failed" \in WebResults /\ "look" \in WebPcs
  BY DEF WebResults, WebPcs
<1>4. webPc' \in [WebCalls -> WebPcs] /\ webResult' \in [WebCalls -> WebResults]
  <2>1. CASE Web!End(c, "failed")
    BY <1>3, <2>1, EndKeeps, Zenon
  <2>2. CASE Web!To(c, "look") /\ UNCHANGED webResult
    <3>1. webPc' \in [WebCalls -> WebPcs]
      BY <1>3, <2>2, ToKeeps, Zenon
    <3> QED BY <2>2, <3>1 DEF WebInv, WebTypes
  <2> QED BY <1>2, <2>1, <2>2
<1>5. CacheInv'
  BY <1>1, CacheSame DEF WebInv
<1>6. /\ action' \in [WebCalls -> {"fetch", "search", "image_search"}]
      /\ url' \in [WebCalls -> Urls]
  BY <1>1 DEF WebInv, WebTypes
<1> QED BY <1>1, <1>4, <1>5, <1>6 DEF WebInv, WebTypes, WebPcs, WebResults, Web!None

LEMMA LookKeeps ==
  ASSUME WebInv, NEW c \in WebCalls, Web!Look(c)
  PROVE  WebInv'
<1> DEFINE u == url[c]
           Hit == /\ u \in Web!KeysOf(webCache)
                  /\ webCache' = Web!Touched(webCache, u)
                  /\ Web!Extract(c, "cached")
                  /\ UNCHANGED bytes
           Miss == /\ webCache' = Web!Without(webCache, u)
                   /\ bytes' = Web!Less(bytes, webCache, webCache')
                   /\ Web!To(c, "hop")
                   /\ UNCHANGED <<webResult, sources>>
<1>1. UNCHANGED <<action, url, tries, now>>
  BY DEF Web!Look
<1>2. Hit \/ Miss
  BY Zenon DEF Web!Look
<1>3. "cached" \in WebResults /\ "hop" \in WebPcs
  BY DEF WebResults, WebPcs
<1>4. CASE Hit
  <2>1. CacheInv'
    BY <1>4, TouchKeeps DEF WebInv
  <2>2. /\ webPc' \in [WebCalls -> WebPcs] /\ webResult' \in [WebCalls -> WebResults]
        /\ sources' \subseteq 0 .. now' /\ now' \in 0 .. MaxTime
    BY <1>1, <1>3, <1>4, ExtractKeeps, Zenon
  <2> QED BY <1>1, <2>1, <2>2 DEF WebInv, WebTypes, WebPcs, WebResults, Web!None
<1>5. CASE Miss
  <2>1. CacheInv'
    BY <1>5, DropKeeps, Zenon DEF WebInv
  <2>2. webPc' \in [WebCalls -> WebPcs]
    BY <1>3, <1>5, ToKeeps, Zenon
  <2> QED BY <1>1, <1>5, <2>1, <2>2 DEF WebInv, WebTypes, WebPcs, WebResults, Web!None
<1> QED BY <1>2, <1>4, <1>5

\* A request without an answer leaves the cache as it is.
LEMMA ElsewhereKeeps ==
  ASSUME WebInv, NEW c \in WebCalls, NEW w \in WebPcs, Web!To(c, w),
         tries' \in [WebCalls -> 0 .. MaxRedirects + MaxRetries],
         UNCHANGED <<webCache, bytes, webResult, sources, action, url, now>>
  PROVE  WebInv'
<1>1. webPc' \in [WebCalls -> WebPcs]
  BY ToKeeps, Zenon
<1>2. CacheInv'
  BY CacheSame DEF WebInv
<1> QED BY <1>1, <1>2 DEF WebInv, WebTypes, WebPcs, WebResults, Web!None

LEMMA HopKeeps ==
  ASSUME WebInv, NEW c \in WebCalls, Web!Hop(c)
  PROVE  WebInv'
<1>1. UNCHANGED <<action, url, now>>
  BY DEF Web!Hop
<1>2. {"hop", "single"} \subseteq WebPcs /\ "own" \in WebResults
  BY DEF WebPcs, WebResults
<1>3. tries[c] \in Nat /\ MaxRedirects \in Nat /\ MaxRetries \in Nat
  BY WebAssumption DEF WebInv, WebTypes
<1>4. CASE Web!Answer(c, "own")
  BY <1>1, <1>2, <1>4, AnswerKeeps, Zenon
<1>5. CASE Web!Permitted(c) /\ UNCHANGED <<webCache, bytes, latest, webResult, sources>>
  <2> DEFINE n == (tries[c] + 1) % (MaxRedirects + 1)
             w == IF tries[c] < MaxRedirects THEN "hop" ELSE "single"
  <2>1. n \in 0 .. MaxRedirects
    <3>1. tries[c] + 1 \in Nat /\ MaxRedirects \in Nat
      BY <1>3
    <3> QED BY <3>1, RemainderIs, Zenon
  <2>2. tries' = [tries EXCEPT ![c] = n] /\ Web!To(c, w)
    BY <1>5, Zenon DEF Web!Permitted
  <2>3. w \in WebPcs
    BY <1>2
  <2> HIDE DEF n, w
  <2>4. n \in 0 .. MaxRedirects + MaxRetries
    BY <1>3, <2>1
  <2>5. tries' \in [WebCalls -> 0 .. MaxRedirects + MaxRetries]
    BY <2>2, <2>4, TriesKeep, Zenon
  <2>6. UNCHANGED <<webCache, bytes, webResult, sources, action, url, now>>
    BY <1>1, <1>5
  <2> QED BY <2>2, <2>3, <2>5, <2>6, ElsewhereKeeps, Zenon
<1>6. CASE /\ Web!To(c, "single") /\ tries' = [tries EXCEPT ![c] = 0]
           /\ UNCHANGED <<webCache, bytes, latest, webResult, sources>>
  <2>1. 0 \in 0 .. MaxRedirects + MaxRetries /\ "single" \in WebPcs
    BY <1>2, <1>3
  <2>2. tries' \in [WebCalls -> 0 .. MaxRedirects + MaxRetries]
    BY <1>6, <2>1, TriesKeep, Zenon
  <2>3. UNCHANGED <<webCache, bytes, webResult, sources, action, url, now>>
    BY <1>1, <1>6
  <2> QED BY <1>6, <2>1, <2>2, <2>3, ElsewhereKeeps, Zenon
<1> QED BY <1>4, <1>5, <1>6, Zenon DEF Web!Hop, Web!cacheVars

LEMMA SingleKeeps ==
  ASSUME WebInv, NEW c \in WebCalls, Web!Single(c)
  PROVE  WebInv'
<1>1. UNCHANGED <<action, url, now>>
  BY DEF Web!Single
<1>2. {"own", "other"} \subseteq WebResults /\ "curl" \in WebPcs
  BY DEF WebPcs, WebResults
<1>3. ASSUME NEW site \in {"own", "other"}, Web!Answer(c, site) PROVE WebInv'
  <2>1. site \in WebResults
    BY <1>2
  <2> QED BY <1>1, <1>3, <2>1, AnswerKeeps, Zenon
<1>4. CASE Web!To(c, "curl") /\ UNCHANGED <<webCache, bytes, latest, tries, webResult, sources>>
  <2>1. tries' \in [WebCalls -> 0 .. MaxRedirects + MaxRetries]
    BY <1>4 DEF WebInv, WebTypes
  <2>2. UNCHANGED <<webCache, bytes, webResult, sources, action, url, now>>
    BY <1>1, <1>4
  <2> QED BY <1>2, <1>4, <2>1, <2>2, ElsewhereKeeps, Zenon
<1> QED BY <1>3, <1>4 DEF Web!Single, Web!cacheVars

LEMMA CurlKeeps ==
  ASSUME WebInv, NEW c \in WebCalls, Web!Curl(c)
  PROVE  WebInv'
<1>1. PICK r \in {"own", "other", "failed"} : Web!Extract(c, r)
  BY DEF Web!Curl
<1>2. UNCHANGED <<webCache, bytes, action, url, tries, now>>
  BY DEF Web!Curl, Web!cacheVars
<1>3. r \in WebResults
  BY DEF WebResults
<1>4. /\ webPc' \in [WebCalls -> WebPcs] /\ webResult' \in [WebCalls -> WebResults]
      /\ sources' \subseteq 0 .. now' /\ now' \in 0 .. MaxTime
  BY <1>1, <1>2, <1>3, ExtractKeeps, Zenon
<1>5. CacheInv'
  BY <1>2, CacheSame DEF WebInv
<1> QED BY <1>2, <1>4, <1>5 DEF WebInv, WebTypes, WebPcs, WebResults, Web!None

\* A search moves a call on, ends it or counts a try.
LEMMA SearchingKeeps ==
  ASSUME WebInv, NEW c \in WebCalls,
         action' \in [WebCalls -> {"fetch", "search", "image_search"}],
         tries' \in [WebCalls -> 0 .. MaxRedirects + MaxRetries],
         UNCHANGED <<webCache, bytes, url, sources, now>>,
         \/ \E w \in WebPcs : Web!To(c, w) /\ UNCHANGED webResult
         \/ \E r \in WebResults : Web!End(c, r)
         \/ UNCHANGED <<webPc, webResult>>
  PROVE  WebInv'
<1>1. webPc' \in [WebCalls -> WebPcs] /\ webResult' \in [WebCalls -> WebResults]
  <2>1. webPc \in [WebCalls -> WebPcs] /\ webResult \in [WebCalls -> WebResults]
    BY DEF WebInv, WebTypes
  <2>2. ASSUME NEW w \in WebPcs, Web!To(c, w), UNCHANGED webResult
        PROVE  webPc' \in [WebCalls -> WebPcs] /\ webResult' \in [WebCalls -> WebResults]
    BY <2>1, <2>2, ToKeeps, Zenon
  <2>3. ASSUME NEW r \in WebResults, Web!End(c, r)
        PROVE  webPc' \in [WebCalls -> WebPcs] /\ webResult' \in [WebCalls -> WebResults]
    BY <2>3, EndKeeps, Zenon
  <2> HIDE DEF WebPcs, WebResults
  <2> QED BY <2>1, <2>2, <2>3, Zenon
<1>2. CacheInv'
  BY CacheSame DEF WebInv
<1> QED BY <1>1, <1>2 DEF WebInv, WebTypes, WebPcs, WebResults, Web!None

LEMMA SearchKeeps ==
  ASSUME WebInv, NEW c \in WebCalls, NEW a \in {"search", "image_search"}, Web!Search(c, a)
  PROVE  WebInv'
<1>1. action' = [action EXCEPT ![c] = a] /\ UNCHANGED <<webCache, bytes, url, tries, sources, now>>
  BY DEF Web!Search, Web!cacheVars
<1>2. (Web!To(c, "ask") /\ UNCHANGED webResult) \/ Web!End(c, "failed")
  BY Zenon DEF Web!Search
<1>3. "ask" \in WebPcs /\ "failed" \in WebResults
  BY DEF WebPcs, WebResults
<1>4. /\ action' \in [WebCalls -> {"fetch", "search", "image_search"}]
      /\ tries' \in [WebCalls -> 0 .. MaxRedirects + MaxRetries]
  BY <1>1 DEF WebInv, WebTypes
<1> HIDE DEF WebPcs, WebResults
<1> QED BY <1>1, <1>2, <1>3, <1>4, SearchingKeeps, Zenon

LEMMA AskKeeps ==
  ASSUME WebInv, NEW c \in WebCalls, Web!Ask(c)
  PROVE  WebInv'
<1>1. UNCHANGED <<webCache, bytes, action, url, sources, now>>
  BY DEF Web!Ask, Web!cacheVars
<1>2. {"scrape", "found"} \subseteq WebPcs /\ "failed" \in WebResults
  BY DEF WebPcs, WebResults
<1>3. /\ action' \in [WebCalls -> {"fetch", "search", "image_search"}]
      /\ tries \in [WebCalls -> 0 .. MaxRedirects + MaxRetries]
  BY <1>1 DEF WebInv, WebTypes
<1>4. \/ \E w \in {"scrape", "found"} : Web!To(c, w) /\ UNCHANGED <<tries, webResult>>
      \/ Web!End(c, "failed") /\ UNCHANGED tries
      \/ Web!Backoff(c) /\ UNCHANGED <<webPc, webResult>>
  BY DEF Web!Ask, Web!AskSearch, Web!AskImages
<1>5. tries' \in [WebCalls -> 0 .. MaxRedirects + MaxRetries]
  <2>1. CASE UNCHANGED tries
    BY <1>3, <2>1
  <2>2. CASE Web!Backoff(c)
    <3>1. tries[c] < MaxRetries /\ tries' = [tries EXCEPT ![c] = tries[c] + 1]
      BY <2>2 DEF Web!Backoff
    <3>2. tries[c] + 1 \in 0 .. MaxRedirects + MaxRetries
      <4>1. tries[c] \in Nat /\ MaxRedirects \in Nat /\ MaxRetries \in Nat
        BY <1>3, WebAssumption
      <4> QED BY <3>1, <4>1
    <3> QED BY <3>1, <3>2, TriesKeep, Zenon
  <2> QED BY <1>4, <2>1, <2>2
<1> HIDE DEF WebPcs, WebResults
<1>6. \/ \E w \in WebPcs : Web!To(c, w) /\ UNCHANGED webResult
      \/ \E r \in WebResults : Web!End(c, r)
      \/ UNCHANGED <<webPc, webResult>>
  BY <1>2, <1>4
<1> QED BY <1>1, <1>3, <1>5, <1>6, SearchingKeeps, Zenon

LEMMA AgainKeeps ==
  ASSUME WebInv, NEW c \in WebCalls, Web!Again(c)
  PROVE  WebInv'
<1>1. /\ Web!To(c, "idle") /\ tries' = [tries EXCEPT ![c] = 0]
      /\ webResult' = [webResult EXCEPT ![c] = Web!None]
      /\ action' = [action EXCEPT ![c] = "fetch"]
      /\ url' = [url EXCEPT ![c] = Web!AnyUrl]
      /\ UNCHANGED <<webCache, bytes, sources, now>>
  BY DEF Web!Again, Web!cacheVars
<1>2. Web!AnyUrl \in Urls
  BY WebAssumption, Zenon DEF Web!AnyUrl
<1>3. "idle" \in WebPcs /\ Web!None \in WebResults
  BY DEF WebPcs, WebResults
<1>4. webPc' \in [WebCalls -> WebPcs]
  BY <1>1, <1>3, ToKeeps, Zenon
<1>5. webResult' \in [WebCalls -> WebResults]
  <2>1. webResult \in [WebCalls -> WebResults]
    BY DEF WebInv, WebTypes
  <2> HIDE DEF WebResults
  <2> QED BY <1>1, <1>3, <2>1, FunctionChanged, Zenon
<1>6. tries' \in [WebCalls -> 0 .. MaxRedirects + MaxRetries]
  <2>1. 0 \in 0 .. MaxRedirects + MaxRetries
    BY WebAssumption
  <2> QED BY <1>1, <2>1, TriesKeep, Zenon
<1>7. action' \in [WebCalls -> {"fetch", "search", "image_search"}]
  BY <1>1 DEF WebInv, WebTypes
<1>8. url' \in [WebCalls -> Urls]
  <2>1. url \in [WebCalls -> Urls]
    BY DEF WebInv, WebTypes
  <2> QED BY <1>1, <1>2, <2>1, FunctionChanged, Zenon
<1>9. CacheInv'
  BY <1>1, CacheSame DEF WebInv
<1> QED BY <1>1, <1>4, <1>5, <1>6, <1>7, <1>8, <1>9 DEF WebInv, WebTypes, WebPcs, WebResults, Web!None

LEMMA NextWeb == WebInv /\ [Web!Next]_(Web!vars) => WebInv'
<1> SUFFICES ASSUME WebInv, [Web!Next]_(Web!vars) PROVE WebInv'
  OBVIOUS
<1>1. ASSUME NEW c \in WebCalls, Web!Goes(c) PROVE WebInv'
  <2>1. CASE Web!Found(c)
    <3>1. Web!End(c, "found") /\ UNCHANGED <<webCache, bytes, action, url, tries, sources, now>>
      BY <2>1 DEF Web!Found, Web!cacheVars
    <3>2. "found" \in WebResults
      BY DEF WebResults
    <3>3. /\ action' \in [WebCalls -> {"fetch", "search", "image_search"}]
          /\ tries' \in [WebCalls -> 0 .. MaxRedirects + MaxRetries]
      BY <3>1 DEF WebInv, WebTypes
    <3> HIDE DEF WebPcs, WebResults
    <3> QED BY <3>1, <3>2, <3>3, SearchingKeeps, Zenon
  <2> QED BY <1>1, <2>1, LookKeeps, HopKeeps, SingleKeeps, CurlKeeps, AskKeeps, Zenon DEF Web!Goes
<1>2. CASE Web!Tick
  <2>1. UNCHANGED <<webCache, bytes, webPc, action, url, tries, webResult, sources>>
        /\ now < MaxTime /\ now' = now + 1
    BY <1>2 DEF Web!Tick, Web!cacheVars, Web!callVars
  <2>2. now' \in 0 .. MaxTime /\ 0 .. now \subseteq 0 .. now'
    BY <2>1, WebAssumption DEF WebInv, WebTypes
  <2>3. CacheInv'
    BY <2>1, CacheSame DEF WebInv
  <2> QED BY <2>1, <2>2, <2>3 DEF WebInv, WebTypes, WebPcs, WebResults, Web!None
<1>3. CASE UNCHANGED Web!vars
  <2>1. UNCHANGED <<webCache, bytes, webPc, action, url, tries, webResult, sources, now>>
    BY <1>3 DEF Web!vars
  <2>2. CacheInv'
    BY <2>1, CacheSame DEF WebInv
  <2> QED BY <2>1, <2>2 DEF WebInv, WebTypes, WebPcs, WebResults, Web!None
<1> QED BY <1>1, <1>2, <1>3, FetchKeeps, SearchKeeps, AgainKeeps, Zenon DEF Web!Next

(* A step is one of the web tools or leaves them as they are.               *)
LEMMA WebSteps == [Next]_vars => [Web!Next]_(Web!vars)
<1> SUFFICES ASSUME [Next]_vars PROVE Web!Next \/ UNCHANGED webVars
  BY DEF webVars, Web!vars
<1>1. CASE UNCHANGED vars
  BY <1>1, Zenon DEF vars
<1>2. CASE Only("web") /\ Web!Next
  BY <1>2
<1>3. CASE \E p \in {"gate", "turn", "file", "memory", "schedule", "shell", "spoken"} : Only(p)
  BY <1>3 DEF Only
<1> QED BY <1>1, <1>2, <1>3, Zenon DEF Next

LEMMA WebHolds == Spec => []WebInv
<1>1. Init => WebInv
  BY InitWeb DEF Init
<1>2. WebInv /\ [Next]_vars => WebInv'
  BY WebSteps, NextWeb
<1> QED BY <1>1, <1>2, PTL DEF Spec

(* The cache counts the bytes it holds and stays within its limits, however *)
(* the calls of a wave replace, expire and evict its entries (LruCache).    *)
THEOREM WebCountIsKept == Spec => []WebCountHolds
<1>1. WebInv => WebCountHolds
  BY DEF WebInv, CacheInv, CacheSound, WebCountHolds, Web!CountHolds
<1> QED BY <1>1, WebHolds, PTL

LEMMA WebCardinality == \A S : Web!Cardinality(S) = Cardinality(S)
BY Zenon DEF Web!Cardinality, Cardinality

(* A page is counted once.                                                  *)
LEMMA KeysOnce ==
  ASSUME NEW c \in Seq(EntryT), PagesOnce(c)
  PROVE  Cardinality(Web!KeysOf(c)) = Len(c)
<1> DEFINE f == [i \in 1 .. Len(c) |-> c[i].url]
<1>1. Web!KeysOf(c) = {c[i].url : i \in 1 .. Len(c)}
  BY DEF Web!KeysOf, Web!Entries
<1>2. f \in Bijection(1 .. Len(c), Web!KeysOf(c))
  BY <1>1 DEF Bijection, Injection, Surjection, IsInjective, PagesOnce
<1> HIDE DEF f
<1>3. ExistsBijection(1 .. Len(c), Web!KeysOf(c))
  BY <1>2 DEF ExistsBijection
<1>4. Len(c) \in Nat
  OBVIOUS
<1>5. IsFiniteSet(1 .. Len(c)) /\ Cardinality(1 .. Len(c)) = Len(c)
  BY <1>4, FS_Interval
<1> QED BY <1>3, <1>5, FS_Bijection

LEMMA WebTyped == WebInv => Web!TypeOK
<1> SUFFICES ASSUME WebInv PROVE Web!TypeOK
  OBVIOUS
<1>1. webCache \in Seq(EntryT) /\ PagesOnce(webCache) /\ bytes = Web!BytesOf(webCache)
      /\ bytes <= MaxBytes
  BY DEF WebInv, CacheInv, CacheSound
<1>2. bytes \in 0 .. MaxBytes
  <2>1. bytes \in Nat
    BY <1>1, BytesTyped
  <2> QED BY <1>1, <2>1, WebAssumption
<1>3. Web!Cardinality(Web!KeysOf(webCache)) = Len(webCache)
  BY <1>1, KeysOnce, WebCardinality
<1> QED BY <1>1, <1>2, <1>3 DEF WebInv, WebTypes, Web!TypeOK, EntryT, WebPcs, WebResults

-----------------------------------------------------------------------------
(* The crontab.                                                            *)

(* A step is one of the schedule or leaves it as it is.                      *)
LEMMA ScheduleSteps == [Next]_vars => [Schedule!Next]_(Schedule!vars)
<1> SUFFICES ASSUME [Next]_vars PROVE Schedule!Next \/ UNCHANGED scheduleVars
  BY DEF scheduleVars, Schedule!vars
<1>1. CASE UNCHANGED vars
  BY <1>1, Zenon DEF vars
<1>2. CASE Only("schedule") /\ Schedule!Next
  BY <1>2
<1>3. CASE \E p \in {"gate", "turn", "file", "memory", "web", "shell", "spoken"} : Only(p)
  BY <1>3 DEF Only
<1> QED BY <1>1, <1>2, <1>3, Zenon DEF Next

LineT == [kind : {"job", "tz", "comment"}, of : 0 .. MaxJobs]

LEMMA LineIs ==
  ASSUME NEW kind_ \in {"job", "tz", "comment"}, NEW of \in 0 .. MaxJobs
  PROVE  /\ Schedule!Line(kind_, of) \in LineT
         /\ Schedule!Line(kind_, of).kind = kind_ /\ Schedule!Line(kind_, of).of = of
BY DEF Schedule!Line, LineT

LEMMA LineHas ==
  ASSUME NEW l \in LineT
  PROVE  l.kind \in {"job", "tz", "comment"} /\ l.of \in 0 .. MaxJobs
BY DEF LineT

(* The jobs of a crontab are those that were begun; each is there once, right *)
(* below its own zone, and no zone is there without its job.                *)
TabTyped(tab, n) == tab \in Seq(LineT) /\ \A i \in 1 .. Len(tab) : tab[i].of <= n

ZonesSound(tab) ==
  \A i \in 1 .. Len(tab) :
    tab[i].kind = "tz" =>
      tab[i].of # Schedule!User /\ i < Len(tab) /\ tab[i + 1] = Schedule!Line("job", tab[i].of)

JobsSound(tab) ==
  \A i \in 1 .. Len(tab) :
    tab[i].kind = "job" /\ tab[i].of # Schedule!User =>
      i > 1 /\ tab[i - 1] = Schedule!Line("tz", tab[i].of)

JobsOnce(tab) ==
  \A i, j \in 1 .. Len(tab) :
    tab[i].kind = "job" /\ tab[j].kind = "job" /\ tab[i].of = tab[j].of /\ tab[i].of # Schedule!User
      => i = j

TabSound(tab, n) == TabTyped(tab, n) /\ ZonesSound(tab) /\ JobsSound(tab) /\ JobsOnce(tab)

Comments(tab) == {i \in DOMAIN tab : tab[i].kind = "comment"}

CallT == [action : {"none", "add", "remove"}, held : Seq(LineT), index : Nat]

ShotStates == {"none", "sleeping", "grouped", "fired", "gone", "killed"}

ScheduleTypes ==
  /\ jobs \in 0 .. MaxJobs
  /\ scheduleCall \in [ScheduleCalls -> CallT]
  /\ scheduleSaid \subseteq 1 .. jobs
  /\ raced \in BOOLEAN
  /\ shots \in [OneShots -> ShotStates]

(* The same holds of the crontab and of what every call has read of it.      *)
ScheduleInv ==
  /\ ScheduleTypes
  /\ TabSound(crontab, jobs)
  /\ \A c \in ScheduleCalls : TabSound(scheduleCall[c].held, jobs)
  /\ raced \/ (scheduleSaid = Schedule!JobsIn(crontab) /\ notes = Cardinality(Comments(crontab)))

LEMMA TabGrows ==
  ASSUME NEW n \in Nat, NEW m \in Nat, n <= m, NEW tab, TabSound(tab, n)
  PROVE  TabSound(tab, m)
<1>1. \A i \in 1 .. Len(tab) : tab[i].of \in Nat
  BY LineHas, ScheduleAssumption DEF TabSound, TabTyped
<1> QED BY <1>1 DEF TabSound, TabTyped

LEMMA JobsInIs ==
  ASSUME NEW tab \in Seq(LineT)
  PROVE  /\ Schedule!JobsIn(tab) =
              {tab[i].of : i \in {k \in 1 .. Len(tab) : tab[k].kind = "job"}} \ {Schedule!User}
         /\ Comments(tab) = {i \in 1 .. Len(tab) : tab[i].kind = "comment"}
         /\ IsFiniteSet(Comments(tab))
<1>1. DOMAIN tab = 1 .. Len(tab) /\ Len(tab) \in Nat
  OBVIOUS
<1>2. Comments(tab) \subseteq 1 .. Len(tab)
  BY <1>1 DEF Comments
<1>3. IsFiniteSet(Comments(tab))
  <2>1. IsFiniteSet(1 .. Len(tab))
    BY <1>1, FS_Interval
  <2> QED BY <1>2, <2>1, FS_Subset
<1> QED BY <1>1, <1>3 DEF Schedule!JobsIn, Schedule!JobLines, Comments

(* A job that is added comes below its zone, at the end.                    *)
LEMMA AddedSound ==
  ASSUME NEW n \in Nat, n < MaxJobs, NEW tab, TabSound(tab, n)
  PROVE  LET new == tab \o <<Schedule!Line("tz", n + 1), Schedule!Line("job", n + 1)>>
         IN  /\ TabSound(new, n + 1)
             /\ Schedule!JobsIn(new) = Schedule!JobsIn(tab) \cup {n + 1}
             /\ Comments(new) = Comments(tab)
<1> DEFINE z == Schedule!Line("tz", n + 1)
           j == Schedule!Line("job", n + 1)
           new == tab \o <<z, j>>
           L == Len(tab)
<1>1. /\ z \in LineT /\ z.kind = "tz" /\ z.of = n + 1
      /\ j \in LineT /\ j.kind = "job" /\ j.of = n + 1
  BY LineIs, ScheduleAssumption
<1>2. tab \in Seq(LineT) /\ L \in Nat /\ \A i \in 1 .. L : tab[i].of \in Nat /\ tab[i].of <= n
  BY LineHas, ScheduleAssumption DEF TabSound, TabTyped
<1> HIDE DEF z, j
<1>3. /\ new \in Seq(LineT) /\ Len(new) = L + 2
      /\ \A i \in 1 .. L : new[i] = tab[i]
      /\ new[L + 1] = z /\ new[L + 2] = j
  BY <1>1, <1>2
<1> HIDE DEF new
<1>4. 1 .. Len(new) = (1 .. L) \cup {L + 1, L + 2}
  BY <1>2, <1>3
<1>5. TabTyped(new, n + 1)
  BY <1>1, <1>2, <1>3, <1>4 DEF TabTyped
<1>6. ZonesSound(new)
  <2> SUFFICES ASSUME NEW i \in 1 .. Len(new), new[i].kind = "tz"
      PROVE  new[i].of # Schedule!User /\ i < Len(new) /\ new[i + 1] = Schedule!Line("job", new[i].of)
    BY DEF ZonesSound
  <2>1. CASE i \in 1 .. L
    BY <1>2, <1>3, <2>1 DEF TabSound, ZonesSound
  <2>2. CASE i = L + 1
    BY <1>1, <1>2, <1>3, <2>2 DEF j, Schedule!User
  <2>3. CASE i = L + 2
    BY <1>1, <1>3, <2>3
  <2> QED BY <1>4, <2>1, <2>2, <2>3
<1>7. JobsSound(new)
  <2> SUFFICES ASSUME NEW i \in 1 .. Len(new), new[i].kind = "job", new[i].of # Schedule!User
      PROVE  i > 1 /\ new[i - 1] = Schedule!Line("tz", new[i].of)
    BY DEF JobsSound
  <2>1. CASE i \in 1 .. L
    <3>1. new[i] = tab[i]
      BY <1>3, <2>1
    <3>2. i > 1 /\ tab[i - 1] = Schedule!Line("tz", tab[i].of)
      BY <2>1, <3>1 DEF TabSound, JobsSound
    <3>3. i - 1 \in 1 .. L
      BY <1>2, <2>1, <3>2
    <3> QED BY <1>3, <3>1, <3>2, <3>3
  <2>2. CASE i = L + 1
    BY <1>1, <1>3, <2>2
  <2>3. CASE i = L + 2
    BY <1>1, <1>2, <1>3, <2>3 DEF z
  <2> QED BY <1>4, <2>1, <2>2, <2>3
<1>8. JobsOnce(new)
  <2>1. \A i \in 1 .. L : new[i].of <= n /\ new[i].of \in Nat
    BY <1>2, <1>3
  <2> SUFFICES ASSUME NEW i \in 1 .. Len(new), NEW k \in 1 .. Len(new),
                      new[i].kind = "job", new[k].kind = "job", new[i].of = new[k].of,
                      new[i].of # Schedule!User
      PROVE  i = k
    BY DEF JobsOnce
  <2>2. (i \in 1 .. L \/ i = L + 2) /\ (k \in 1 .. L \/ k = L + 2)
    BY <1>1, <1>3, <1>4
  <2>3. CASE i \in 1 .. L /\ k \in 1 .. L
    BY <1>3, <2>3 DEF TabSound, JobsOnce
  <2>4. ~ (i \in 1 .. L /\ k = L + 2) /\ ~ (k \in 1 .. L /\ i = L + 2)
    BY <1>1, <1>3, <2>1
  <2> QED BY <2>2, <2>3, <2>4
<1>9. Schedule!JobsIn(new) = Schedule!JobsIn(tab) \cup {n + 1}
  <2>1. n + 1 # Schedule!User
    BY DEF Schedule!User
  <2>2. {k \in 1 .. Len(new) : new[k].kind = "job"} = {k \in 1 .. L : tab[k].kind = "job"} \cup {L + 2}
    BY <1>1, <1>2, <1>3, <1>4
  <2>3. {new[i].of : i \in {k \in 1 .. Len(new) : new[k].kind = "job"}}
        = {tab[i].of : i \in {k \in 1 .. L : tab[k].kind = "job"}} \cup {n + 1}
    BY <1>1, <1>3, <2>2
  <2> QED BY <1>2, <1>3, <2>1, <2>3, JobsInIs
<1>10. Comments(new) = Comments(tab)
  <2>1. {i \in 1 .. Len(new) : new[i].kind = "comment"} = {i \in 1 .. L : tab[i].kind = "comment"}
    BY <1>1, <1>2, <1>3, <1>4
  <2> QED BY <1>2, <1>3, <2>1, JobsInIs
<1> QED BY <1>5, <1>6, <1>7, <1>8, <1>9, <1>10 DEF TabSound, new, z, j

(* A line of the user's own moves nothing.                                  *)
LEMMA EditedSound ==
  ASSUME NEW n \in Nat, NEW tab, TabSound(tab, n), NEW l \in {"job", "comment"}
  PROVE  LET new == Append(tab, Schedule!Line(l, Schedule!User))
         IN  /\ TabSound(new, n)
             /\ Schedule!JobsIn(new) = Schedule!JobsIn(tab)
             /\ Cardinality(Comments(new)) =
                  Cardinality(Comments(tab)) + IF l = "comment" THEN 1 ELSE 0
<1> DEFINE x == Schedule!Line(l, Schedule!User)
           new == Append(tab, x)
           L == Len(tab)
<1>1. x \in LineT /\ x.kind = l /\ x.of = Schedule!User
  BY LineIs, ScheduleAssumption DEF Schedule!User
<1>2. tab \in Seq(LineT) /\ L \in Nat
  BY DEF TabSound, TabTyped
<1> HIDE DEF x
<1>3. /\ new \in Seq(LineT) /\ Len(new) = L + 1
      /\ \A i \in 1 .. L : new[i] = tab[i]
      /\ new[L + 1] = x
  BY <1>1, <1>2
<1> HIDE DEF new
<1>4. 1 .. Len(new) = (1 .. L) \cup {L + 1}
  BY <1>2, <1>3
<1>5. TabTyped(new, n)
  BY <1>1, <1>3, <1>4 DEF TabSound, TabTyped, Schedule!User
<1>6. ZonesSound(new)
  <2> SUFFICES ASSUME NEW i \in 1 .. Len(new), new[i].kind = "tz"
      PROVE  new[i].of # Schedule!User /\ i < Len(new) /\ new[i + 1] = Schedule!Line("job", new[i].of)
    BY DEF ZonesSound
  <2>1. CASE i \in 1 .. L
    BY <1>2, <1>3, <2>1 DEF TabSound, ZonesSound
  <2>2. CASE i = L + 1
    BY <1>1, <1>3, <2>2
  <2> QED BY <1>4, <2>1, <2>2
<1>7. JobsSound(new)
  <2> SUFFICES ASSUME NEW i \in 1 .. Len(new), new[i].kind = "job", new[i].of # Schedule!User
      PROVE  i > 1 /\ new[i - 1] = Schedule!Line("tz", new[i].of)
    BY DEF JobsSound
  <2>1. CASE i \in 1 .. L
    BY <1>2, <1>3, <2>1 DEF TabSound, JobsSound
  <2>2. CASE i = L + 1
    BY <1>1, <1>3, <2>2
  <2> QED BY <1>4, <2>1, <2>2
<1>8. JobsOnce(new)
  BY <1>1, <1>3, <1>4 DEF TabSound, JobsOnce
<1>9. Schedule!JobsIn(new) = Schedule!JobsIn(tab)
  <2> DEFINE J(t) == {t[i].of : i \in {k \in 1 .. Len(t) : t[k].kind = "job"}} \ {Schedule!User}
  <2>1. J(new) = J(tab)
    BY <1>1, <1>3, <1>4
  <2> QED BY <1>2, <1>3, <2>1, JobsInIs
<1>10. Cardinality(Comments(new)) = Cardinality(Comments(tab)) + IF l = "comment" THEN 1 ELSE 0
  <2>1. /\ Comments(tab) = {i \in 1 .. L : tab[i].kind = "comment"} /\ IsFiniteSet(Comments(tab))
        /\ Comments(new) = {i \in 1 .. Len(new) : new[i].kind = "comment"}
    BY <1>2, <1>3, JobsInIs
  <2>2. CASE l = "comment"
    <3>1. Comments(new) = Comments(tab) \cup {L + 1} /\ L + 1 \notin Comments(tab)
      BY <1>1, <1>2, <1>3, <1>4, <2>1, <2>2
    <3> QED BY <2>1, <2>2, <3>1, FS_AddElement
  <2>3. CASE l # "comment"
    <3>1. Comments(new) = Comments(tab)
      BY <1>1, <1>2, <1>3, <1>4, <2>1, <2>3
    <3>2. Cardinality(Comments(tab)) \in Nat
      BY <2>1, FS_CardinalityType
    <3> QED BY <2>3, <3>1, <3>2
  <2> QED BY <2>2, <2>3
<1> QED BY <1>5, <1>6, <1>7, <1>8, <1>9, <1>10 DEF TabSound, new, x

(* The lines from a + 1 to at are cut out of a sequence.                      *)
LEMMA CutIs ==
  ASSUME NEW tab \in Seq(LineT), NEW at \in 1 .. Len(tab), NEW a \in 0 .. at - 1
  PROVE  LET new == SubSeq(tab, 1, a) \o SubSeq(tab, at + 1, Len(tab))
         IN  /\ new \in Seq(LineT) /\ Len(new) = Len(tab) - (at - a)
             /\ \A k \in 1 .. a : new[k] = tab[k]
             /\ \A k \in a + 1 .. Len(new) : new[k] = tab[k + (at - a)]
<1> DEFINE x == SubSeq(tab, 1, a)
           y == SubSeq(tab, at + 1, Len(tab))
<1>1. x \in Seq(LineT) /\ Len(x) = a /\ \A k \in 1 .. a : x[k] = tab[k]
  BY SubSeqProperties
<1>2. y \in Seq(LineT) /\ Len(y) = Len(tab) - at /\ \A k \in 1 .. Len(tab) - at : y[k] = tab[at + k]
  <2>1. at + 1 \in Int /\ Len(tab) \in Int /\ \A i \in at + 1 .. Len(tab) : tab[i] \in LineT
    OBVIOUS
  <2>2. /\ y \in Seq(LineT) /\ Len(y) = IF at + 1 <= Len(tab) THEN Len(tab) - (at + 1) + 1 ELSE 0
        /\ \A i \in 1 .. Len(tab) - (at + 1) + 1 : y[i] = tab[at + 1 + i - 1]
    BY <2>1, SubSeqProperties
  <2> QED BY <2>1, <2>2
<1> HIDE DEF x, y
<1>3. /\ x \o y \in Seq(LineT) /\ Len(x \o y) = a + (Len(tab) - at)
      /\ \A k \in 1 .. a : (x \o y)[k] = x[k]
      /\ \A k \in a + 1 .. a + (Len(tab) - at) : (x \o y)[k] = y[k - a]
  <2>1. /\ x \o y \in Seq(LineT) /\ Len(x \o y) = Len(x) + Len(y)
        /\ \A i \in 1 .. Len(x) + Len(y) :
              (x \o y)[i] = IF i <= Len(x) THEN x[i] ELSE y[i - Len(x)]
    BY <1>1, <1>2, ConcatProperties
  <2>2. a \in Nat /\ Len(tab) - at \in Nat /\ Len(x) = a /\ Len(y) = Len(tab) - at
    BY <1>1, <1>2
  <2> QED BY <2>1, <2>2
<1>4. \A k \in a + 1 .. a + (Len(tab) - at) : (x \o y)[k] = tab[k + (at - a)]
  <2> SUFFICES ASSUME NEW k \in a + 1 .. a + (Len(tab) - at) PROVE (x \o y)[k] = tab[k + (at - a)]
    OBVIOUS
  <2>1. k - a \in 1 .. Len(tab) - at /\ at + (k - a) = k + (at - a)
    OBVIOUS
  <2> QED BY <1>2, <1>3, <2>1
<1>5. a + (Len(tab) - at) = Len(tab) - (at - a)
  OBVIOUS
<1>6. \A k \in 1 .. a : (x \o y)[k] = tab[k]
  BY <1>1, <1>3
<1> QED BY <1>3, <1>4, <1>5, <1>6 DEF x, y

(* new is tab without the lines from a + 1 to at: the job at this line, and its *)
(* zone if it has one, with which it goes and without which it is the user's. *)
Cut(tab, new, a, at) ==
  /\ at \in 1 .. Len(tab) /\ a \in 0 .. at - 1 /\ tab[at].kind = "job"
  /\ \/ a = at - 2 /\ tab[at - 1].kind = "tz"
     \/ a = at - 1 /\ (at > 1 => tab[at - 1].kind # "tz")
  /\ new \in Seq(LineT) /\ Len(new) = Len(tab) - (at - a)
  /\ \A k \in 1 .. a : new[k] = tab[k]
  /\ \A k \in a + 1 .. Len(new) : new[k] = tab[k + (at - a)]

LEMMA RemovedIsCut ==
  ASSUME NEW tab \in Seq(LineT), NEW at \in 1 .. Len(tab), tab[at].kind = "job"
  PROVE  \E a : Cut(tab, Schedule!RemovedAt(tab, at), a, at)
<1>1. CASE at > 1 /\ tab[at - 1].kind = "tz"
  <2> DEFINE a == at - 2
             new == SubSeq(tab, 1, a) \o SubSeq(tab, at + 1, Len(tab))
  <2>1. a \in 0 .. at - 1
    BY <1>1
  <2>2. Schedule!RemovedAt(tab, at) = new
    BY <1>1 DEF Schedule!RemovedAt
  <2>3. /\ new \in Seq(LineT) /\ Len(new) = Len(tab) - (at - a)
        /\ \A k \in 1 .. a : new[k] = tab[k]
        /\ \A k \in a + 1 .. Len(new) : new[k] = tab[k + (at - a)]
    <3> HIDE DEF a
    <3> QED BY <2>1, CutIs
  <2> HIDE DEF new
  <2>4. Cut(tab, new, a, at)
    <3>1. a = at - 2 /\ tab[at - 1].kind = "tz"
      BY <1>1
    <3> HIDE DEF a
    <3> QED BY <2>1, <2>3, <3>1 DEF Cut
  <2> QED BY <2>2, <2>4
<1>2. CASE ~(at > 1 /\ tab[at - 1].kind = "tz")
  <2> DEFINE a == at - 1
             new == SubSeq(tab, 1, a) \o SubSeq(tab, at + 1, Len(tab))
  <2>1. a \in 0 .. at - 1
    OBVIOUS
  <2>2. Schedule!RemovedAt(tab, at) = new
    BY <1>2 DEF Schedule!RemovedAt, Schedule!RemoveAt
  <2>3. /\ new \in Seq(LineT) /\ Len(new) = Len(tab) - (at - a)
        /\ \A k \in 1 .. a : new[k] = tab[k]
        /\ \A k \in a + 1 .. Len(new) : new[k] = tab[k + (at - a)]
    <3> HIDE DEF a
    <3> QED BY <2>1, CutIs
  <2> HIDE DEF new
  <2>4. Cut(tab, new, a, at)
    <3>1. a = at - 1 /\ (at > 1 => tab[at - 1].kind # "tz")
      BY <1>2
    <3> HIDE DEF a
    <3> QED BY <2>1, <2>3, <3>1 DEF Cut
  <2> QED BY <2>2, <2>4
<1> QED BY <1>1, <1>2

(* Neither what stands above the cut nor what stands below belongs to it.     *)
LEMMA CutApart ==
  ASSUME NEW n \in Nat, NEW tab, TabSound(tab, n), NEW new, NEW a, NEW at, Cut(tab, new, a, at)
  PROVE  /\ a >= 1 => tab[a].kind # "tz"
         /\ at < Len(tab) => ~(tab[at + 1].kind = "job" /\ tab[at + 1].of # Schedule!User)
         /\ \A i \in a + 1 .. at : tab[i].kind # "comment"
         /\ \A i \in a + 1 .. at : tab[i].kind = "job" => i = at
<1>1. /\ tab \in Seq(LineT) /\ at \in 1 .. Len(tab) /\ a \in 0 .. at - 1 /\ tab[at].kind = "job"
      /\ ZonesSound(tab) /\ JobsSound(tab)
  BY DEF TabSound, TabTyped, Cut
<1>2. at < Len(tab) => ~(tab[at + 1].kind = "job" /\ tab[at + 1].of # Schedule!User)
  <2> SUFFICES ASSUME at < Len(tab), tab[at + 1].kind = "job", tab[at + 1].of # Schedule!User PROVE FALSE
    OBVIOUS
  <2>1. at + 1 \in 1 .. Len(tab) /\ (at + 1) - 1 = at
    BY <1>1
  <2>2. tab[at] = Schedule!Line("tz", tab[at + 1].of)
    BY <1>1, <2>1 DEF JobsSound
  <2>3. tab[at].kind = "tz"
    BY <1>1, <2>1, <2>2, LineIs, LineHas
  <2> QED BY <1>1, <2>3
<1>3. CASE a = at - 2 /\ tab[at - 1].kind = "tz"
  <2>1. at - 1 \in 1 .. Len(tab) /\ \A i \in a + 1 .. at : i = at - 1 \/ i = at
    BY <1>1, <1>3
  <2>2. a >= 1 => tab[a].kind # "tz"
    <3> SUFFICES ASSUME a >= 1, tab[a].kind = "tz" PROVE FALSE
      OBVIOUS
    <3>1. a \in 1 .. Len(tab) /\ a + 1 = at - 1
      BY <1>1, <1>3
    <3>2. tab[at - 1] = Schedule!Line("job", tab[a].of)
      BY <1>1, <3>1 DEF ZonesSound
    <3>3. tab[at - 1].kind = "job"
      BY <1>1, <3>1, <3>2, LineIs, LineHas
    <3> QED BY <1>3, <3>3
  <2> QED BY <1>1, <1>2, <1>3, <2>1, <2>2
<1>4. CASE a = at - 1 /\ (at > 1 => tab[at - 1].kind # "tz")
  BY <1>1, <1>2, <1>4
<1> QED BY <1>3, <1>4 DEF Cut

(* Where a line of the new crontab was, and where one that stays is.          *)
LEMMA CutFrom ==
  ASSUME NEW tab \in Seq(LineT), NEW new, NEW a, NEW at, Cut(tab, new, a, at),
         NEW k \in 1 .. Len(new)
  PROVE  LET i == IF k <= a THEN k ELSE k + (at - a)
         IN  i \in 1 .. Len(tab) /\ i \notin a + 1 .. at /\ new[k] = tab[i]
<1>1. /\ Len(tab) \in Nat /\ at \in 1 .. Len(tab) /\ a \in 0 .. at - 1 /\ Len(new) = Len(tab) - (at - a)
      /\ \A l \in 1 .. a : new[l] = tab[l]
      /\ \A l \in a + 1 .. Len(new) : new[l] = tab[l + (at - a)]
  BY DEF Cut
<1>2. CASE k <= a
  BY <1>1, <1>2
<1>3. CASE ~(k <= a)
  <2>1. k \in a + 1 .. Len(new)
    BY <1>1, <1>3
  <2> QED BY <1>1, <1>3, <2>1
<1> QED BY <1>2, <1>3

LEMMA CutTo ==
  ASSUME NEW tab \in Seq(LineT), NEW new, NEW a, NEW at, Cut(tab, new, a, at),
         NEW i \in 1 .. Len(tab), i \notin a + 1 .. at
  PROVE  LET k == IF i <= a THEN i ELSE i - (at - a)
         IN  k \in 1 .. Len(new) /\ new[k] = tab[i] /\ (k <= a <=> i <= a)
<1>1. /\ Len(tab) \in Nat /\ at \in 1 .. Len(tab) /\ a \in 0 .. at - 1 /\ Len(new) = Len(tab) - (at - a)
      /\ \A l \in 1 .. a : new[l] = tab[l]
      /\ \A l \in a + 1 .. Len(new) : new[l] = tab[l + (at - a)]
  <2>1. Len(tab) \in Nat
    OBVIOUS
  <2> QED BY <2>1, Zenon DEF Cut
<1>2. CASE i <= a
  BY <1>1, <1>2
<1>3. CASE ~(i <= a)
  <2>1. i - (at - a) \in a + 1 .. Len(new) /\ (i - (at - a)) + (at - a) = i
    BY <1>1, <1>3
  <2>2. new[i - (at - a)] = tab[i]
    BY <1>1, <2>1
  <2> QED BY <1>1, <1>3, <2>1, <2>2
<1> QED BY <1>2, <1>3

LEMMA CutSound ==
  ASSUME NEW n \in Nat, NEW tab, TabSound(tab, n), NEW new, NEW a, NEW at, Cut(tab, new, a, at)
  PROVE  TabSound(new, n)
<1>1. /\ tab \in Seq(LineT) /\ Len(tab) \in Nat /\ at \in 1 .. Len(tab) /\ a \in 0 .. at - 1
      /\ new \in Seq(LineT) /\ Len(new) = Len(tab) - (at - a)
      /\ \A k \in 1 .. a : new[k] = tab[k]
      /\ \A k \in a + 1 .. Len(new) : new[k] = tab[k + (at - a)]
  BY DEF TabSound, TabTyped, Cut
<1>2. /\ a >= 1 => tab[a].kind # "tz"
      /\ at < Len(tab) => ~(tab[at + 1].kind = "job" /\ tab[at + 1].of # Schedule!User)
  BY CutApart
<1>3. TabTyped(new, n)
  <2> SUFFICES ASSUME NEW k \in 1 .. Len(new) PROVE new[k].of <= n
    BY <1>1 DEF TabTyped
  <2> DEFINE i == IF k <= a THEN k ELSE k + (at - a)
  <2>1. i \in 1 .. Len(tab) /\ new[k] = tab[i]
    BY <1>1, CutFrom
  <2> HIDE DEF i
  <2> QED BY <2>1 DEF TabSound, TabTyped
<1>4. ZonesSound(new)
  <2> SUFFICES ASSUME NEW k \in 1 .. Len(new), new[k].kind = "tz"
      PROVE  new[k].of # Schedule!User /\ k < Len(new) /\ new[k + 1] = Schedule!Line("job", new[k].of)
    BY DEF ZonesSound
  <2>1. CASE k <= a
    <3>1. k \in 1 .. a /\ k # a
      BY <1>1, <1>2, <2>1
    <3>2. k \in 1 .. Len(tab) /\ k + 1 \in 1 .. a /\ k < Len(new)
      BY <1>1, <3>1
    <3> QED BY <1>1, <3>1, <3>2 DEF TabSound, ZonesSound
  <2>2. CASE k > a
    <3>1. k \in a + 1 .. Len(new) /\ k + (at - a) \in 1 .. Len(tab)
      BY <1>1, <2>2
    <3>2. /\ tab[k + (at - a)].of # Schedule!User /\ k + (at - a) < Len(tab)
          /\ tab[k + (at - a) + 1] = Schedule!Line("job", tab[k + (at - a)].of)
      BY <1>1, <3>1 DEF TabSound, ZonesSound
    <3>3. k + 1 \in a + 1 .. Len(new) /\ (k + 1) + (at - a) = k + (at - a) + 1
      BY <1>1, <3>1, <3>2
    <3> QED BY <1>1, <3>1, <3>2, <3>3
  <2> QED BY <1>1, <2>1, <2>2
<1>5. JobsSound(new)
  <2> SUFFICES ASSUME NEW k \in 1 .. Len(new), new[k].kind = "job", new[k].of # Schedule!User
      PROVE  k > 1 /\ new[k - 1] = Schedule!Line("tz", new[k].of)
    BY DEF JobsSound
  <2>1. CASE k <= a
    <3>1. k \in 1 .. a /\ k \in 1 .. Len(tab)
      BY <1>1, <2>1
    <3>2. k > 1 /\ tab[k - 1] = Schedule!Line("tz", tab[k].of)
      BY <1>1, <3>1 DEF TabSound, JobsSound
    <3> QED BY <1>1, <3>1, <3>2
  <2>2. CASE k > a
    <3>1. k \in a + 1 .. Len(new) /\ k + (at - a) \in 1 .. Len(tab)
      BY <1>1, <2>2
    <3>2. k # a + 1
      BY <1>1, <1>2, <3>1
    <3>3. tab[(k + (at - a)) - 1] = Schedule!Line("tz", tab[k + (at - a)].of)
      BY <1>1, <3>1 DEF TabSound, JobsSound
    <3>4. k - 1 \in a + 1 .. Len(new) /\ (k - 1) + (at - a) = (k + (at - a)) - 1 /\ k > 1
      BY <1>1, <3>1, <3>2
    <3> QED BY <1>1, <3>1, <3>3, <3>4
  <2> QED BY <1>1, <2>1, <2>2
<1>6. JobsOnce(new)
  <2> SUFFICES ASSUME NEW k \in 1 .. Len(new), NEW l \in 1 .. Len(new),
                      new[k].kind = "job", new[l].kind = "job",
                      new[k].of = new[l].of, new[k].of # Schedule!User
      PROVE  k = l
    BY DEF JobsOnce
  <2> DEFINE i == IF k <= a THEN k ELSE k + (at - a)
             j == IF l <= a THEN l ELSE l + (at - a)
  <2>1. /\ i \in 1 .. Len(tab) /\ new[k] = tab[i] /\ j \in 1 .. Len(tab) /\ new[l] = tab[j]
        /\ i \notin a + 1 .. at /\ j \notin a + 1 .. at
    BY <1>1, CutFrom
  <2>2. i = j
    <3> HIDE DEF i, j
    <3> QED BY <2>1 DEF TabSound, JobsOnce
  <2> QED BY <1>1, <2>2
<1> QED BY <1>3, <1>4, <1>5, <1>6 DEF TabSound

LEMMA CutJobs ==
  ASSUME NEW n \in Nat, NEW tab, TabSound(tab, n), NEW new, NEW a, NEW at, Cut(tab, new, a, at)
  PROVE  Schedule!JobsIn(new) = Schedule!JobsIn(tab) \ {tab[at].of}
<1>1. tab \in Seq(LineT) /\ new \in Seq(LineT) /\ at \in 1 .. Len(tab) /\ tab[at].kind = "job"
      /\ a \in 0 .. at - 1 /\ JobsOnce(tab)
  BY DEF TabSound, TabTyped, Cut
<1>2. /\ Schedule!JobsIn(tab) =
           {tab[i].of : i \in {k \in 1 .. Len(tab) : tab[k].kind = "job"}} \ {Schedule!User}
      /\ Schedule!JobsIn(new) =
           {new[i].of : i \in {k \in 1 .. Len(new) : new[k].kind = "job"}} \ {Schedule!User}
  BY <1>1, JobsInIs
<1>3. ASSUME NEW x \in Schedule!JobsIn(new) PROVE x \in Schedule!JobsIn(tab) \ {tab[at].of}
  <2>1. PICK k \in 1 .. Len(new) : new[k].kind = "job" /\ x = new[k].of /\ x # Schedule!User
    BY <1>2, <1>3
  <2>2. PICK i \in 1 .. Len(tab) : i \notin a + 1 .. at /\ new[k] = tab[i]
    <3> DEFINE i == IF k <= a THEN k ELSE k + (at - a)
    <3>1. i \in 1 .. Len(tab) /\ i \notin a + 1 .. at /\ new[k] = tab[i]
      BY <1>1, CutFrom
    <3> HIDE DEF i
    <3> QED BY <3>1
  <2>3. i # at /\ tab[i].of # tab[at].of
    <3>1. i # at
      BY <1>1, <2>2
    <3>2. tab[i].kind = "job" /\ tab[i].of # Schedule!User
      BY <2>1, <2>2
    <3> QED BY <1>1, <3>1, <3>2 DEF JobsOnce
  <2> QED BY <1>2, <2>1, <2>2, <2>3
<1>4. ASSUME NEW x \in Schedule!JobsIn(tab) \ {tab[at].of} PROVE x \in Schedule!JobsIn(new)
  <2>1. PICK i \in 1 .. Len(tab) : tab[i].kind = "job" /\ x = tab[i].of /\ x # Schedule!User
    BY <1>2, <1>4
  <2>2. i # at
    BY <1>4, <2>1
  <2>3. i \notin a + 1 .. at
    BY <2>1, <2>2, CutApart
  <2>4. PICK k \in 1 .. Len(new) : new[k] = tab[i]
    <3> DEFINE k == IF i <= a THEN i ELSE i - (at - a)
    <3>1. k \in 1 .. Len(new) /\ new[k] = tab[i]
      BY <1>1, <2>3, CutTo
    <3> QED BY <3>1
  <2> QED BY <1>2, <2>1, <2>4
<1> QED BY <1>3, <1>4

LEMMA CutComments ==
  ASSUME NEW n \in Nat, NEW tab, TabSound(tab, n), NEW new, NEW a, NEW at, Cut(tab, new, a, at)
  PROVE  Cardinality(Comments(new)) = Cardinality(Comments(tab))
<1>1. /\ tab \in Seq(LineT) /\ new \in Seq(LineT) /\ at \in 1 .. Len(tab) /\ a \in 0 .. at - 1
      /\ Len(new) = Len(tab) - (at - a) /\ Len(tab) \in Nat
  BY DEF TabSound, TabTyped, Cut
<1>2. /\ Comments(tab) = {i \in 1 .. Len(tab) : tab[i].kind = "comment"}
      /\ Comments(new) = {i \in 1 .. Len(new) : new[i].kind = "comment"}
      /\ IsFiniteSet(Comments(new))
  BY <1>1, JobsInIs
<1> DEFINE f == [k \in Comments(new) |-> IF k <= a THEN k ELSE k + (at - a)]
<1>3. f \in [Comments(new) -> Comments(tab)]
  <2> SUFFICES ASSUME NEW k \in Comments(new) PROVE f[k] \in Comments(tab)
    OBVIOUS
  <2>1. k \in 1 .. Len(new) /\ new[k].kind = "comment"
    BY <1>2
  <2>2. f[k] \in 1 .. Len(tab) /\ new[k] = tab[f[k]]
    <3> DEFINE i == IF k <= a THEN k ELSE k + (at - a)
    <3>1. i \in 1 .. Len(tab) /\ new[k] = tab[i]
      <4>1. Cut(tab, new, a, at) /\ tab \in Seq(LineT) /\ k \in 1 .. Len(new)
        BY <1>1, <2>1
      <4> HIDE DEF f
      <4> QED BY <4>1, CutFrom
    <3>2. f[k] = i
      OBVIOUS
    <3> QED BY <3>1, <3>2
  <2> QED BY <1>2, <2>1, <2>2
<1>4. \A k, l \in Comments(new) : f[k] = f[l] => k = l
  <2> SUFFICES ASSUME NEW k \in Comments(new), NEW l \in Comments(new), f[k] = f[l] PROVE k = l
    OBVIOUS
  <2>1. k \in Int /\ l \in Int
    BY <1>2
  <2> QED BY <1>1, <2>1
<1>5. \A i \in Comments(tab) : \E k \in Comments(new) : f[k] = i
  <2> SUFFICES ASSUME NEW i \in Comments(tab) PROVE \E k \in Comments(new) : f[k] = i
    OBVIOUS
  <2>1. i \in 1 .. Len(tab) /\ tab[i].kind = "comment"
    BY <1>2
  <2>2. i \notin a + 1 .. at
    BY <2>1, CutApart
  <2> DEFINE k == IF i <= a THEN i ELSE i - (at - a)
  <2>3. k \in 1 .. Len(new) /\ new[k] = tab[i] /\ (k <= a <=> i <= a)
    BY <1>1, <2>1, <2>2, CutTo
  <2>4. k \in Comments(new)
    BY <1>2, <2>1, <2>3
  <2>5. f[k] = i
    BY <1>1, <2>1, <2>3, <2>4
  <2> QED BY <2>4, <2>5
<1> HIDE DEF f
<1>6. f \in Bijection(Comments(new), Comments(tab))
  BY <1>3, <1>4, <1>5 DEF Bijection, Injection, Surjection, IsInjective
<1>7. ExistsBijection(Comments(new), Comments(tab))
  BY <1>6 DEF ExistsBijection
<1> QED BY <1>2, <1>7, FS_Bijection

-----------------------------------------------------------------------------
LEMMA CallIs ==
  ASSUME NEW action_ \in {"none", "add", "remove"}, NEW held \in Seq(LineT), NEW index_ \in Nat
  PROVE  /\ [action |-> action_, held |-> held, index |-> index_] \in CallT
         /\ [action |-> action_, held |-> held, index |-> index_].held = held
BY DEF CallT

LEMMA EmptyTab == \A n \in Nat : TabSound(<<>>, n)
BY DEF TabSound, TabTyped, ZonesSound, JobsSound, JobsOnce

LEMMA NoCallIs == Schedule!NoCall \in CallT /\ Schedule!NoCall.held = <<>>
BY DEF Schedule!NoCall, CallT

LEMMA HeldOf ==
  ASSUME ScheduleTypes, NEW c \in ScheduleCalls
  PROVE  scheduleCall[c] \in CallT /\ scheduleCall[c].held \in Seq(LineT)
BY DEF ScheduleTypes, CallT

(* What one call holds is replaced.                                         *)
LEMMA CallsKeep ==
  ASSUME ScheduleInv, jobs' \in 0 .. MaxJobs, jobs <= jobs',
         NEW c \in ScheduleCalls, NEW new \in CallT, TabSound(new.held, jobs'),
         scheduleCall' = [scheduleCall EXCEPT ![c] = new]
  PROVE  /\ scheduleCall' \in [ScheduleCalls -> CallT]
         /\ \A b \in ScheduleCalls : TabSound(scheduleCall'[b].held, jobs')
<1>1. jobs \in Nat /\ jobs' \in Nat
  BY ScheduleAssumption DEF ScheduleInv, ScheduleTypes
<1>2. \A b \in ScheduleCalls : TabSound(scheduleCall[b].held, jobs')
  BY <1>1, TabGrows DEF ScheduleInv
<1>3. scheduleCall \in [ScheduleCalls -> CallT]
  BY DEF ScheduleInv, ScheduleTypes
<1> QED BY <1>2, <1>3

LEMMA CallReplaced ==
  ASSUME ScheduleInv, jobs' = jobs,
         NEW c \in ScheduleCalls, NEW new \in CallT, TabSound(new.held, jobs),
         scheduleCall' = [scheduleCall EXCEPT ![c] = new]
  PROVE  /\ scheduleCall' \in [ScheduleCalls -> CallT]
         /\ \A b \in ScheduleCalls : TabSound(scheduleCall'[b].held, jobs')
<1>1. jobs \in 0 .. MaxJobs
  BY DEF ScheduleInv, ScheduleTypes
<1>2. jobs' \in 0 .. MaxJobs /\ jobs <= jobs'
  BY <1>1, ScheduleAssumption
<1>3. TabSound(new.held, jobs')
  BY Zenon
<1> QED BY <1>2, <1>3, CallsKeep, Zenon

(* A call that ends holds nothing.                                          *)
LEMMA CallEnded ==
  ASSUME ScheduleInv, jobs' = jobs, NEW c \in ScheduleCalls,
         scheduleCall' = [scheduleCall EXCEPT ![c] = Schedule!NoCall]
  PROVE  /\ scheduleCall' \in [ScheduleCalls -> CallT]
         /\ \A b \in ScheduleCalls : TabSound(scheduleCall'[b].held, jobs')
<1>1. jobs \in Nat
  BY ScheduleAssumption DEF ScheduleInv, ScheduleTypes
<1>2. TabSound(Schedule!NoCall.held, jobs) /\ Schedule!NoCall \in CallT
  BY <1>1, EmptyTab, NoCallIs
<1> QED BY <1>2, CallReplaced, Zenon

LEMMA InitSchedule == Schedule!Init => ScheduleInv
<1> SUFFICES ASSUME Schedule!Init PROVE ScheduleInv
  OBVIOUS
<1> DEFINE x == Schedule!Line("comment", Schedule!User)
           y == Schedule!Line("job", Schedule!User)
<1>1. /\ x \in LineT /\ x.kind = "comment" /\ x.of = 0
      /\ y \in LineT /\ y.kind = "job" /\ y.of = 0
  BY LineIs, ScheduleAssumption DEF Schedule!User
<1>2. jobs = 0 /\ scheduleSaid = {} /\ raced = FALSE /\ crontab \in {<<>>, <<x, y>>}
      /\ notes = Len(crontab) \div 2
  BY DEF Schedule!Init, Schedule!Own
<1>3. scheduleCall \in [ScheduleCalls -> CallT]
      /\ \A c \in ScheduleCalls : TabSound(scheduleCall[c].held, 0)
  <2>1. TabSound(Schedule!NoCall.held, 0)
    BY EmptyTab, NoCallIs
  <2>2. scheduleCall = [c \in ScheduleCalls |-> Schedule!NoCall]
    BY DEF Schedule!Init
  <2> HIDE DEF x, y
  <2> QED BY <2>1, <2>2, NoCallIs
<1>4. ScheduleTypes
  <2>1. shots = [s \in OneShots |-> "none"]
    BY DEF Schedule!Init
  <2>2. shots \in [OneShots -> ShotStates]
    BY <2>1 DEF ShotStates
  <2>3. jobs \in 0 .. MaxJobs
    BY <1>2, ScheduleAssumption
  <2>4. scheduleSaid \subseteq 1 .. jobs /\ raced \in BOOLEAN
    BY <1>2
  <2> QED BY <1>3, <2>2, <2>3, <2>4 DEF ScheduleTypes
<1> HIDE DEF x, y
<1>5. TabSound(crontab, 0) /\ Schedule!JobsIn(crontab) = {} /\ notes = Cardinality(Comments(crontab))
  <2>1. CASE crontab = <<>>
    <3>1. notes = 0
      BY <1>2, <2>1
    <3>2. Comments(crontab) = {} /\ Schedule!JobsIn(crontab) = {}
      BY <2>1 DEF Comments, Schedule!JobsIn, Schedule!JobLines
    <3> QED BY <2>1, <3>1, <3>2, EmptyTab, FS_EmptySet
  <2>2. CASE crontab = <<x, y>>
    <3>1. /\ crontab \in Seq(LineT) /\ Len(crontab) = 2 /\ DOMAIN crontab = 1 .. 2
          /\ crontab[1] = x /\ crontab[2] = y
      BY <1>1, <2>2
    <3>2. \A i \in 1 .. 2 : i = 1 \/ i = 2
      OBVIOUS
    <3>3. TabSound(crontab, 0)
      BY <1>1, <3>1, <3>2
         DEF TabSound, TabTyped, ZonesSound, JobsSound, JobsOnce, Schedule!User
    <3>4. Comments(crontab) = {1}
      BY <1>1, <3>1, <3>2 DEF Comments
    <3>5. Schedule!JobsIn(crontab) = {}
      BY <1>1, <3>1, <3>2, JobsInIs DEF Schedule!User
    <3>6. notes = 1
      BY <1>2, <3>1
    <3> QED BY <3>3, <3>4, <3>5, <3>6, FS_Singleton
  <2> QED BY <1>2, <2>1, <2>2
<1> QED BY <1>2, <1>3, <1>4, <1>5 DEF ScheduleInv

LEMMA ReadsKeep ==
  ASSUME ScheduleInv, NEW c \in ScheduleCalls, Schedule!Reads(c)
  PROVE  ScheduleInv'
<1>1. UNCHANGED <<crontab, jobs, scheduleSaid, raced, shots, notes>>
  BY DEF Schedule!Reads
<1>2. PICK a \in {"add", "remove"}, i \in Nat :
        scheduleCall' = [scheduleCall EXCEPT ![c] = [action |-> a, held |-> crontab, index |-> i]]
  BY DEF Schedule!Reads
<1> DEFINE new == [action |-> a, held |-> crontab, index |-> i]
<1>3. crontab \in Seq(LineT) /\ TabSound(crontab, jobs) /\ jobs \in 0 .. MaxJobs
  BY DEF ScheduleInv, ScheduleTypes, TabSound, TabTyped
<1>4. new \in CallT /\ new.held = crontab
  BY <1>3, CallIs
<1> HIDE DEF new
<1>5. /\ scheduleCall' \in [ScheduleCalls -> CallT]
      /\ \A b \in ScheduleCalls : TabSound(scheduleCall'[b].held, jobs')
  <2>1. jobs' = jobs /\ TabSound(new.held, jobs)
    BY <1>1, <1>3, <1>4
  <2>2. scheduleCall' = [scheduleCall EXCEPT ![c] = new]
    BY <1>2 DEF new
  <2> QED BY <1>4, <2>1, <2>2, CallReplaced, Zenon
<1> QED BY <1>1, <1>5 DEF ScheduleInv, ScheduleTypes

(* A crontab is installed: what is said of it counts only if it was read since *)
(* it last changed.                                                        *)
LEMMA InstallsKeep ==
  ASSUME ScheduleInv, NEW c \in ScheduleCalls, NEW tab, Schedule!Installs(c, tab),
         jobs' \in 0 .. MaxJobs, jobs <= jobs', TabSound(tab, jobs'),
         scheduleSaid' \subseteq 1 .. jobs', UNCHANGED <<shots, notes>>,
         scheduleSaid = Schedule!JobsIn(scheduleCall[c].held) => scheduleSaid' = Schedule!JobsIn(tab),
         Cardinality(Comments(tab)) = Cardinality(Comments(scheduleCall[c].held))
  PROVE  ScheduleInv'
<1>1. /\ crontab' = tab /\ raced' = (raced \/ crontab # scheduleCall[c].held)
      /\ scheduleCall' = [scheduleCall EXCEPT ![c] = Schedule!NoCall]
  BY DEF Schedule!Installs
<1>2. TabSound(Schedule!NoCall.held, jobs')
  BY EmptyTab, NoCallIs, ScheduleAssumption
<1>3. /\ scheduleCall' \in [ScheduleCalls -> CallT]
      /\ \A b \in ScheduleCalls : TabSound(scheduleCall'[b].held, jobs')
  BY <1>1, <1>2, CallsKeep, NoCallIs
<1>4. raced' \in BOOLEAN
  BY <1>1
<1>5. raced' \/ (scheduleSaid' = Schedule!JobsIn(crontab') /\ notes' = Cardinality(Comments(crontab')))
  BY <1>1 DEF ScheduleInv
<1>6. ScheduleTypes'
  BY <1>3, <1>4 DEF ScheduleInv, ScheduleTypes
<1>7. Schedule!JobsIn(crontab') = Schedule!JobsIn(crontab)' /\ Comments(crontab') = Comments(crontab)'
  BY DEF Schedule!JobsIn, Schedule!JobLines, Comments, Schedule!User
<1> QED BY <1>1, <1>3, <1>5, <1>6, <1>7 DEF ScheduleInv

LEMMA AddsKeep ==
  ASSUME ScheduleInv, NEW c \in ScheduleCalls, Schedule!Adds(c)
  PROVE  ScheduleInv'
<1> DEFINE held == scheduleCall[c].held
           tab == held \o <<Schedule!Line("tz", jobs + 1), Schedule!Line("job", jobs + 1)>>
<1>1. /\ jobs < MaxJobs /\ jobs' = jobs + 1 /\ Schedule!Installs(c, tab)
      /\ scheduleSaid' = scheduleSaid \cup {jobs + 1} /\ UNCHANGED <<shots, notes>>
  BY DEF Schedule!Adds
<1>2. jobs \in Nat /\ jobs' \in 0 .. MaxJobs /\ jobs <= jobs' /\ scheduleSaid \subseteq 1 .. jobs
  BY <1>1, ScheduleAssumption DEF ScheduleInv, ScheduleTypes
<1>3. TabSound(held, jobs)
  BY DEF ScheduleInv
<1>4. /\ TabSound(tab, jobs + 1) /\ Schedule!JobsIn(tab) = Schedule!JobsIn(held) \cup {jobs + 1}
      /\ Comments(tab) = Comments(held)
  BY <1>1, <1>2, <1>3, AddedSound
<1>5. scheduleSaid' \subseteq 1 .. jobs'
  BY <1>1, <1>2
<1> HIDE DEF tab
<1> QED BY <1>1, <1>2, <1>4, <1>5, InstallsKeep

LEMMA RemovesKeep ==
  ASSUME ScheduleInv, NEW c \in ScheduleCalls, Schedule!Removes(c)
  PROVE  ScheduleInv'
<1> DEFINE held == scheduleCall[c].held
<1>1. UNCHANGED <<jobs, shots, notes>> /\ jobs \in 0 .. MaxJobs /\ scheduleSaid \subseteq 1 .. jobs
  BY DEF Schedule!Removes, ScheduleInv, ScheduleTypes
<1>2. held \in Seq(LineT) /\ TabSound(held, jobs)
  BY HeldOf DEF ScheduleInv
<1>3. CASE /\ scheduleCall' = [scheduleCall EXCEPT ![c] = Schedule!NoCall]
           /\ UNCHANGED <<crontab, raced, scheduleSaid>>
  <2>1. jobs' = jobs
    BY <1>1
  <2>2. /\ scheduleCall' \in [ScheduleCalls -> CallT]
        /\ \A b \in ScheduleCalls : TabSound(scheduleCall'[b].held, jobs')
    BY <1>3, <2>1, CallEnded, Zenon
  <2> QED BY <1>1, <1>3, <2>2 DEF ScheduleInv, ScheduleTypes
<1>4. ASSUME NEW at \in Schedule!JobLines(held), Schedule!Installs(c, Schedule!RemovedAt(held, at)),
             scheduleSaid' = scheduleSaid \ {held[at].of}
      PROVE  ScheduleInv'
  <2> DEFINE tab == Schedule!RemovedAt(held, at)
  <2>1. at \in 1 .. Len(held) /\ held[at].kind = "job"
    BY <1>2 DEF Schedule!JobLines
  <2>2. PICK a : Cut(held, tab, a, at)
    BY <1>2, <2>1, RemovedIsCut
  <2>3. jobs \in Nat /\ jobs' = jobs
    BY <1>1, ScheduleAssumption
  <2> HIDE DEF tab, held
  <2>4. /\ TabSound(tab, jobs') /\ Schedule!JobsIn(tab) = Schedule!JobsIn(held) \ {held[at].of}
        /\ Cardinality(Comments(tab)) = Cardinality(Comments(held))
    BY <1>2, <2>2, <2>3, CutSound, CutJobs, CutComments
  <2>5. scheduleSaid = Schedule!JobsIn(held) => scheduleSaid' = Schedule!JobsIn(tab)
    BY <1>4, <2>4
  <2>6. scheduleSaid' \subseteq 1 .. jobs' /\ jobs' \in 0 .. MaxJobs /\ jobs <= jobs'
    <3>1. scheduleSaid' \subseteq scheduleSaid
      BY <1>4
    <3>2. scheduleSaid' \subseteq 1 .. jobs'
      BY <1>1, <2>3, <3>1
    <3>3. jobs' \in 0 .. MaxJobs
      BY <1>1, <2>3
    <3>4. jobs <= jobs'
      BY <2>3
    <3> QED BY <3>2, <3>3, <3>4
  <2>7. Schedule!Installs(c, tab)
    BY <1>4 DEF tab
  <2> QED BY <1>1, <2>4, <2>5, <2>6, <2>7, InstallsKeep DEF held
<1> QED
  <2>1. \A i : Schedule!Numbered(held, i) \subseteq Schedule!JobLines(held)
    BY DEF Schedule!Numbered
  <2> QED BY <1>3, <1>4, <2>1, Zenon DEF Schedule!Removes

LEMMA EditsKeep ==
  ASSUME ScheduleInv, Schedule!Edits
  PROVE  ScheduleInv'
<1>1. PICK l \in {"job", "comment"} :
        /\ crontab' = Append(crontab, Schedule!Line(l, Schedule!User))
        /\ notes' = IF l = "comment" THEN notes + 1 ELSE notes
  BY DEF Schedule!Edits
<1>2. UNCHANGED <<scheduleCall, jobs, scheduleSaid, raced, shots>>
  BY DEF Schedule!Edits
<1>3. jobs \in Nat /\ TabSound(crontab, jobs)
  BY ScheduleAssumption DEF ScheduleInv, ScheduleTypes
<1> DEFINE tab == Append(crontab, Schedule!Line(l, Schedule!User))
<1>4. /\ TabSound(tab, jobs) /\ Schedule!JobsIn(tab) = Schedule!JobsIn(crontab)
      /\ Cardinality(Comments(tab)) = Cardinality(Comments(crontab)) + IF l = "comment" THEN 1 ELSE 0
  BY <1>3, EditedSound
<1>5. Cardinality(Comments(crontab)) \in Nat
  BY <1>3, JobsInIs, FS_CardinalityType DEF TabSound, TabTyped
<1> HIDE DEF tab
<1>6. raced \/ (scheduleSaid = Schedule!JobsIn(tab) /\ notes' = Cardinality(Comments(tab)))
  BY <1>1, <1>4, <1>5 DEF ScheduleInv
<1>7. crontab' = tab
  BY <1>1 DEF tab
<1>8. ScheduleTypes'
  BY <1>2 DEF ScheduleInv, ScheduleTypes
<1>9. Schedule!JobsIn(crontab') = Schedule!JobsIn(crontab)' /\ Comments(crontab') = Comments(crontab)'
  BY DEF Schedule!JobsIn, Schedule!JobLines, Comments, Schedule!User
<1> QED BY <1>2, <1>4, <1>6, <1>7, <1>8, <1>9 DEF ScheduleInv

LEMMA NextSchedule == ScheduleInv /\ [Schedule!Next]_(Schedule!vars) => ScheduleInv'
<1> SUFFICES ASSUME ScheduleInv, [Schedule!Next]_(Schedule!vars) PROVE ScheduleInv'
  OBVIOUS
<1>1. CASE Schedule!Edits
  BY <1>1, EditsKeep
<1>2. ASSUME NEW c \in ScheduleCalls, Schedule!Reads(c) \/ Schedule!Adds(c) \/ Schedule!Removes(c)
      PROVE  ScheduleInv'
  BY <1>2, ReadsKeep, AddsKeep, RemovesKeep
<1>3. ASSUME NEW c \in ScheduleCalls, Schedule!Refused(c) PROVE ScheduleInv'
  <2>1. /\ scheduleCall' = [scheduleCall EXCEPT ![c] = Schedule!NoCall]
        /\ UNCHANGED <<crontab, jobs, scheduleSaid, raced, shots, notes>> /\ jobs \in 0 .. MaxJobs
    BY <1>3 DEF Schedule!Refused, ScheduleInv, ScheduleTypes
  <2>2. jobs' = jobs
    BY <2>1
  <2>3. /\ scheduleCall' \in [ScheduleCalls -> CallT]
        /\ \A b \in ScheduleCalls : TabSound(scheduleCall'[b].held, jobs')
    BY <2>1, <2>2, CallEnded, Zenon
  <2> QED BY <2>1, <2>3 DEF ScheduleInv, ScheduleTypes
<1>4. ASSUME NEW s \in OneShots, Schedule!Sleeps(s) \/ Schedule!Fires(s) PROVE ScheduleInv'
  <2>1. /\ UNCHANGED <<crontab, scheduleCall, jobs, scheduleSaid, raced, notes>>
        /\ \E as \in ShotStates : shots' = [shots EXCEPT ![s] = as]
    BY <1>4 DEF ShotStates, Schedule!Sleeps, Schedule!Fires
  <2>2. shots' \in [OneShots -> ShotStates]
    BY <2>1 DEF ScheduleInv, ScheduleTypes
  <2> QED BY <2>1, <2>2 DEF ScheduleInv, ScheduleTypes
<1>5. CASE Schedule!RestartOrBoot
  <2>1. /\ scheduleCall' = [c \in ScheduleCalls |-> Schedule!NoCall]
        /\ UNCHANGED <<crontab, jobs, scheduleSaid, raced, notes>> /\ jobs \in 0 .. MaxJobs
    BY <1>5 DEF Schedule!RestartOrBoot, ScheduleInv, ScheduleTypes
  <2>2. \A s \in OneShots : shots[s] \in ShotStates
    BY DEF ScheduleInv, ScheduleTypes
  <2>3. shots' \in [OneShots -> ShotStates]
    BY <1>5, <2>2 DEF Schedule!RestartOrBoot, Schedule!Detached, ShotStates
  <2>4. TabSound(Schedule!NoCall.held, jobs')
    BY <2>1, EmptyTab, NoCallIs, ScheduleAssumption
  <2>5. /\ scheduleCall' \in [ScheduleCalls -> CallT]
        /\ \A b \in ScheduleCalls : TabSound(scheduleCall'[b].held, jobs')
    BY <2>1, <2>4, NoCallIs
  <2> QED BY <2>1, <2>3, <2>5 DEF ScheduleInv, ScheduleTypes
<1>6. CASE UNCHANGED Schedule!vars
  BY <1>6 DEF Schedule!vars, ScheduleInv, ScheduleTypes
<1> QED BY <1>1, <1>2, <1>3, <1>4, <1>5, <1>6, Zenon DEF Schedule!Next

LEMMA ScheduleHolds == Spec => []ScheduleInv
<1>1. Init => ScheduleInv
  BY InitSchedule, Zenon DEF Init
<1>2. ScheduleInv /\ [Next]_vars => ScheduleInv'
  BY NextSchedule, ScheduleSteps
<1> QED BY <1>1, <1>2, PTL DEF Spec

(* Whatever is added, and removed by its number, between lines of the user's   *)
(* own and by writers that overlap, a job of the tool stands right below its   *)
(* own zone and no zone stays without its job (scheduleTask).               *)
THEOREM ScheduleOwnZoneHolds == Spec => []ScheduleOwnZone
<1>1. ScheduleInv => ScheduleOwnZone
  <2> SUFFICES ASSUME ScheduleInv PROVE Schedule!OwnZone
    BY DEF ScheduleOwnZone
  <2>1. crontab \in Seq(LineT) /\ ZonesSound(crontab) /\ JobsSound(crontab)
    BY DEF ScheduleInv, TabSound, TabTyped
  <2>2. DOMAIN crontab = 1 .. Len(crontab)
    BY <2>1
  <2> QED BY <2>1, <2>2 DEF ZonesSound, JobsSound, Schedule!OwnZone
<1> QED BY <1>1, ScheduleHolds, PTL

LEMMA ScheduleCardinality == \A S : Schedule!Cardinality(S) = Cardinality(S)
BY Zenon DEF Schedule!Cardinality, Cardinality

(* What was said to be added is in the crontab until it is said to be removed, *)
(* and the user's comments stay, unless two writers had read the same crontab. *)
THEOREM ScheduleSaidIsThereHolds == Spec => []ScheduleSaidIsThere
<1>1. ScheduleInv => ScheduleSaidIsThere
  BY ScheduleCardinality
     DEF ScheduleInv, Comments, ScheduleSaidIsThere, Schedule!SaidIsThere
<1> QED BY <1>1, ScheduleHolds, PTL

LEMMA ScheduleTyped == ScheduleInv => Schedule!TypeOK
<1> SUFFICES ASSUME ScheduleInv PROVE Schedule!TypeOK
  OBVIOUS
<1>1. \A c \in ScheduleCalls : scheduleCall[c].action \in {"none", "add", "remove"}
  BY DEF ScheduleInv, ScheduleTypes, CallT
<1>2. crontab \in Seq(LineT)
  BY DEF ScheduleInv, TabSound, TabTyped
<1>3. LineT = [kind : {"job", "tz", "comment"}, of : 0 .. MaxJobs]
  BY DEF LineT
<1> QED
  BY <1>1, <1>2, <1>3
     DEF ScheduleInv, ScheduleTypes, ShotStates, Schedule!TypeOK

-----------------------------------------------------------------------------
(* The types of the gate.                                                  *)

LEMMA GateCardinality == \A S : Gate!Cardinality(S) = Cardinality(S)
BY Zenon DEF Gate!Cardinality, Cardinality

(* A call that waits has its entry; the commands tried are counted.           *)
GateSound ==
  /\ gateMode \in {"default", "acceptEdits", "bypassPermissions"}
  /\ sudoMode \in BOOLEAN
  /\ decision \in [GateCalls -> {Gate!Nobody, "allow", "ask", "deny"}]
  /\ pending \subseteq GateCalls
  /\ chat \in GateCalls \cup {Gate!Nobody}
  /\ \A c \in GateCalls : gateCall[c] = "waiting" => c \in pending
  /\ tried = [c \in GateCalls |-> tried[c]]
  /\ \A c \in GateCalls : IsFiniteSet(tried[c]) /\ Cardinality(tried[c]) <= MaxRepairs + 1

LEMMA InitGateSound == Gate!Init => GateSound
<1> SUFFICES ASSUME Gate!Init PROVE GateSound
  OBVIOUS
<1>1. \A c \in GateCalls : IsFiniteSet(tried[c]) /\ Cardinality(tried[c]) <= MaxRepairs + 1
  <2>1. IsFiniteSet({}) /\ Cardinality({}) = 0 /\ 0 <= MaxRepairs + 1
    BY FS_EmptySet, GateAssumption
  <2>2. \A c \in GateCalls : tried[c] = {}
    BY DEF Gate!Init
  <2> QED BY <2>1, <2>2
<1>2. gateMode \in {"default", "acceptEdits", "bypassPermissions"}
  BY DEF Gate!Init, Gate!NormalizePolicyMode
<1> QED BY <1>1, <1>2 DEF Gate!Init, GateSound

(* Of the calls a decision changes the one that waits, which no longer does.  *)
LEMMA DecidedSound ==
  ASSUME GateInv, GateSound, NEW c \in GateCalls, NEW d \in {"allow", "ask", "deny"}, Gate!Decide(c, d),
         pending' \in {pending, pending \ {c}}, chat' \in GateCalls \cup {Gate!Nobody},
         UNCHANGED <<gateMode, sudoMode, tried>>
  PROVE  GateSound'
<1>1. /\ decision' \in [GateCalls -> {Gate!Nobody, "allow", "ask", "deny"}]
      /\ gateCall'[c] # "waiting" /\ \A b \in GateCalls \ {c} : gateCall'[b] = gateCall[b]
  BY DEF GateInv, GateTypes, GateSound, Gate!Decide
<1> QED BY <1>1 DEF GateSound

LEMMA ExecuteSound ==
  ASSUME GateInv, GateSound, NEW c \in GateCalls, NEW m \in GateCommands, Gate!ExecuteTool(c, m)
  PROVE  GateSound'
<1>1. tried' = [tried EXCEPT ![c] = {m}] /\ UNCHANGED <<gateMode, sudoMode, decision>>
  BY DEF Gate!ExecuteTool, Gate!policy
<1>2. \A b \in GateCalls : IsFiniteSet(tried'[b]) /\ Cardinality(tried'[b]) <= MaxRepairs + 1
  <2>1. IsFiniteSet({m}) /\ Cardinality({m}) = 1
    BY FS_Singleton
  <2> QED BY <1>1, <2>1, GateAssumption DEF GateSound
<1>3. tried' = [b \in GateCalls |-> tried'[b]]
  BY <1>1 DEF GateSound
<1> PICK result \in Gate!CheckToolPermission(m) :
      CASE result.behavior = "allow" ->
              /\ gateCall' = [gateCall EXCEPT ![c] = "ready"]
              /\ ground' = [ground EXCEPT ![c] = result.why]
              /\ UNCHANGED Gate!views
        [] result.behavior = "deny" ->
              /\ gateCall' = [gateCall EXCEPT ![c] = "denied"]
              /\ UNCHANGED <<ground, Gate!views>>
        [] result.behavior = "ask" ->
              /\ gateCall' = [gateCall EXCEPT ![c] = "waiting"]
              /\ ground' = [ground EXCEPT ![c] = result.why]
              /\ Gate!Ask(c)
  BY Zenon DEF Gate!ExecuteTool
<1>4. result.behavior \in {"allow", "ask", "deny"}
  BY AllowedWithoutQuestion
<1>5. CASE result.behavior = "ask"
  <2>1. /\ gateCall' = [gateCall EXCEPT ![c] = "waiting"]
        /\ pending' = pending \cup {c} /\ chat' \in {c, chat}
    BY <1>5 DEF Gate!Ask, Gate!AskInChat
  <2> QED BY <1>1, <1>2, <1>3, <2>1 DEF GateSound, GateInv, GateTypes
<1>6. CASE result.behavior # "ask"
  <2>1. /\ gateCall' \in {[gateCall EXCEPT ![c] = "ready"], [gateCall EXCEPT ![c] = "denied"]}
        /\ UNCHANGED <<pending, chat>>
    BY <1>4, <1>6 DEF Gate!views
  <2> QED BY <1>1, <1>2, <1>3, <2>1 DEF GateSound, GateInv, GateTypes
<1> QED BY <1>5, <1>6

LEMMA RepairSound ==
  ASSUME GateInv, GateSound, NEW c \in GateCalls, Gate!Repair(c)
  PROVE  GateSound'
<1>1. /\ \A b \in GateCalls : gateCall'[b] = "waiting" => gateCall[b] = "waiting"
      /\ UNCHANGED <<gateMode, sudoMode, decision, pending, chat>>
  BY DEF Gate!Repair, Gate!policy, Gate!views, GateInv, GateTypes
<1>2. \/ tried' = tried
      \/ /\ Cardinality(tried[c]) <= MaxRepairs
         /\ \E m \in Gate!Candidates(c) : tried' = [tried EXCEPT ![c] = tried[c] \cup {m}]
  <2>1. CASE UNCHANGED <<command, ground, tried>>
    BY <2>1
  <2>2. CASE /\ Cardinality(tried[c]) <= MaxRepairs
             /\ \E m \in Gate!Candidates(c) : tried' = [tried EXCEPT ![c] = @ \cup {m}]
    BY <2>2, Zenon
  <2> QED BY <2>1, <2>2, GateCardinality, Zenon DEF Gate!Repair
<1>3. CASE tried' = tried
  BY <1>1, <1>3 DEF GateSound
<1>4. ASSUME Cardinality(tried[c]) <= MaxRepairs,
             NEW m, tried' = [tried EXCEPT ![c] = tried[c] \cup {m}]
      PROVE  GateSound'
  <2>1. /\ IsFiniteSet(tried[c] \cup {m}) /\ Cardinality(tried[c]) \in Nat
        /\ Cardinality(tried[c] \cup {m}) \in {Cardinality(tried[c]), Cardinality(tried[c]) + 1}
    BY FS_AddElement, FS_CardinalityType DEF GateSound
  <2>2. Cardinality(tried[c] \cup {m}) <= MaxRepairs + 1
    BY <1>4, <2>1, GateAssumption
  <2>3. /\ tried' = [b \in GateCalls |-> tried'[b]]
        /\ tried'[c] = tried[c] \cup {m} /\ \A b \in GateCalls \ {c} : tried'[b] = tried[b]
    BY <1>4 DEF GateSound
  <2> QED BY <1>1, <2>1, <2>2, <2>3 DEF GateSound
<1> QED BY <1>2, <1>3, <1>4

LEMMA NextGateSound == GateInv /\ GateSound /\ [Gate!Next]_(Gate!vars) => GateSound'
<1> SUFFICES ASSUME GateInv, GateSound, [Gate!Next]_(Gate!vars) PROVE GateSound'
  OBVIOUS
<1>1. CASE \E c \in GateCalls, m \in GateCommands : Gate!ExecuteTool(c, m)
  BY <1>1, ExecuteSound
<1>2. ASSUME NEW c \in GateCalls, Gate!ConfirmTimeout(c) PROVE GateSound'
  <2>1. Gate!Decide(c, "deny") /\ UNCHANGED <<gateMode, sudoMode, tried, pending, chat>>
    BY <1>2 DEF Gate!ConfirmTimeout, Gate!Resolve, Gate!views
  <2> QED BY <2>1, DecidedSound DEF GateSound
<1>3. ASSUME NEW c \in GateCalls, Gate!MessageSent(c) \/ Gate!Run(c) \/ Gate!Finish(c) PROVE GateSound'
  <2>1. /\ \A b \in GateCalls : gateCall'[b] = "waiting" => gateCall[b] = "waiting"
        /\ UNCHANGED <<gateMode, sudoMode, tried, decision, pending, chat>>
    BY <1>3
       DEF Gate!MessageSent, Gate!Run, Gate!Finish, Gate!policy, Gate!run, Gate!views, GateInv, GateTypes
  <2> QED BY <2>1 DEF GateSound
<1>4. ASSUME NEW c \in GateCalls, Gate!ActivateSudo(c) PROVE GateSound'
  <2>1. /\ \A b \in GateCalls : gateCall'[b] = "waiting" => gateCall[b] = "waiting"
        /\ sudoMode' \in {TRUE, sudoMode}
        /\ UNCHANGED <<gateMode, tried, decision, pending, chat>>
    BY <1>4 DEF Gate!ActivateSudo, Gate!views, GateInv, GateTypes
  <2> QED BY <2>1 DEF GateSound
<1>5. CASE \E c \in GateCalls : Gate!Repair(c)
  BY <1>5, RepairSound
<1>6. ASSUME NEW d \in {"allow", "ask", "deny"}, Gate!Key(d) PROVE GateSound'
  <2>1. prompt \in GateCalls /\ UNCHANGED <<gateMode, sudoMode, tried>>
    BY <1>6 DEF GateInv, GateTypes, Gate!Key
  <2>2. CASE prompt \in pending
    <3>1. Gate!Decide(prompt, d) /\ pending' = pending \ {prompt} /\ chat' \in {chat, Gate!Nobody}
      BY <1>6, <2>2 DEF Gate!Key, Gate!Resolve, Gate!Resolved
    <3> QED BY <2>1, <3>1, DecidedSound DEF GateSound
  <2>3. CASE prompt \notin pending
    BY <1>6, <2>1, <2>3 DEF Gate!Key, GateSound
  <2> QED BY <2>2, <2>3
<1>7. ASSUME NEW c \in GateCalls, NEW d \in {"allow", "deny"}, Gate!Press(c, d) PROVE GateSound'
  <2>1. UNCHANGED <<gateMode, sudoMode, tried>>
    BY <1>7 DEF Gate!Press
  <2>2. CASE c \in pending
    <3>1. Gate!Decide(c, d) /\ pending' = pending \ {c} /\ chat' = Gate!Nobody
      BY <1>7, <2>2 DEF Gate!Press, Gate!Resolve
    <3> QED BY <2>1, <3>1, DecidedSound DEF GateSound
  <2>3. CASE c \notin pending
    BY <1>7, <2>1, <2>3 DEF Gate!Press, GateSound
  <2> QED BY <2>2, <2>3
<1>8. CASE Gate!DeactivateSudo
  BY <1>8 DEF Gate!DeactivateSudo, Gate!run, Gate!views, GateSound
<1>9. CASE UNCHANGED Gate!vars
  BY <1>9 DEF Gate!vars, Gate!policy, Gate!run, Gate!views, GateSound
<1> QED BY <1>1, <1>2, <1>3, <1>4, <1>5, <1>6, <1>7, <1>8, <1>9, Zenon DEF Gate!Next

LEMMA GateTyped == Spec => []Gate!TypeOK
<1>1. Init => GateInv /\ GateSound
  BY InitGate, InitGateSound, Zenon DEF Init
<1>2. (GateInv /\ GateSound) /\ [Next]_vars => (GateInv /\ GateSound)'
  BY NextGate, NextGateSound, GateSteps
<1>3. GateInv /\ GateSound => Gate!TypeOK
  <2> SUFFICES ASSUME GateTypes, GateSound PROVE Gate!TypeOK
    BY DEF GateInv
  <2>1. prompt \in GateCalls \cup {Gate!Nobody}
    BY DEF GateTypes
  <2>2. gateCall \in [GateCalls -> {"idle", "waiting", "sudo", "ready", "running", "repair",
                                    "done", "denied", "failed"}]
    BY DEF GateTypes
  <2>3. /\ gateMode \in {"default", "acceptEdits", "bypassPermissions"} /\ sudoMode \in BOOLEAN
        /\ decision \in [GateCalls -> {Gate!Nobody, "allow", "ask", "deny"}]
        /\ pending \subseteq GateCalls /\ chat \in GateCalls \cup {Gate!Nobody}
    BY Zenon DEF GateSound
  <2>4. \A c \in GateCalls : gateCall[c] = "waiting" => c \in pending
    BY DEF GateSound
  <2>5. \A c \in GateCalls : Gate!Cardinality(tried[c]) <= MaxRepairs + 1
    BY GateCardinality DEF GateSound
  <2> QED BY <2>1, <2>2, <2>3, <2>4, <2>5, Zenon DEF Gate!TypeOK
<1> QED BY <1>1, <1>2, <1>3, PTL DEF Spec

-----------------------------------------------------------------------------
(* The types of Bash, of the turns and of the voice mode.                    *)

LEMMA ShellTyped == Spec => []Shell!TypeOK
<1> DEFINE Flags == aborted \in BOOLEAN /\ down \in BOOLEAN
<1>1. Init => ShellInv /\ Flags
  <2>1. Shell!Init => Flags
    BY DEF Shell!Init
  <2> QED BY <2>1, InitShell, Zenon DEF Init
<1>2. (ShellInv /\ Flags) /\ [Next]_vars => (ShellInv /\ Flags)'
  <2>1. [Shell!Next]_(Shell!vars) => aborted' \in {TRUE, aborted} /\ down' \in {TRUE, down}
    BY DEF Shell!Next, Shell!vars, Shell!Aborts, Shell!Denies, Shell!Runs, Shell!Forks,
           Shell!LeftEnds, Shell!Exits, Shell!Rings, Shell!Overflows, Shell!Closes, Shell!LateChunk
  <2> QED BY <2>1, NextShell, ShellSteps
<1>3. ShellInv /\ Flags => Shell!TypeOK
  BY DEF ShellInv, ShellTypes, Shell!TypeOK
<1> QED BY <1>1, <1>2, <1>3, PTL DEF Spec

LEMMA TurnTyped == Spec => []Turn!TypeOK
<1>1. TurnInv => Turn!TypeOK
  <2> SUFFICES ASSUME TurnTypes PROVE Turn!TypeOK
    BY DEF TurnInv
  <2>1. \A s \in Turn!Sessions : checkpoint[s] \in CheckT
    BY DEF TurnTypes
  <2>2. \A s \in Turn!Sessions : checkpoint[s].holds \subseteq Turns
    BY <2>1 DEF CheckT
  <2> QED BY <2>2 DEF TurnTypes, Turn!TypeOK, Distinct
<1> QED BY <1>1, TurnHolds, PTL

LEMMA SpokenTyped == Spec => []Spoken!TypeOK
<1>1. SpokenInv => Spoken!TypeOK
  BY DEF SpokenInv
<1> QED BY <1>1, SpokenHolds, PTL

-----------------------------------------------------------------------------
(* All of them together.                                                   *)

(* What was replaced, cached, counted, kept or scheduled is where it is said *)
(* to be, whoever else wrote meanwhile, and every variable has its type: the *)
(* files, the boot block, the pages, the evidence and the crontab.          *)
THEOREM NothingLostHolds == Spec => []NothingLost
<1>1. Spec => []File!TypeOK
  BY FileHolds, FileTyped, PTL
<1>2. Spec => []Memory!TypeOK
  BY MemoryHolds, MemoryTyped, PTL
<1>3. Spec => []Web!TypeOK
  BY WebHolds, WebTyped, PTL
<1>4. Spec => []Schedule!TypeOK
  BY ScheduleHolds, ScheduleTyped, PTL
<1>5. Spec => []TypesOK
  <2>1. Gate!TypeOK /\ Turn!TypeOK /\ File!TypeOK /\ Memory!TypeOK /\ Web!TypeOK
        /\ Schedule!TypeOK /\ Shell!TypeOK /\ Spoken!TypeOK => TypesOK
    BY DEF TypesOK
  <2> QED BY <1>1, <1>2, <1>3, <1>4, <2>1, GateTyped, TurnTyped, ShellTyped, SpokenTyped, PTL
<1>6. ASSUME TypesOK, KeptUntilAnswered, FileRecoverable, MemoryCachedIsCurrent,
             WebCountHolds, ScheduleOwnZone, ScheduleSaidIsThere
      PROVE  NothingLost
  BY <1>6, Zenon DEF NothingLost
<1> QED BY <1>5, <1>6, KeptUntilAnsweredHolds, FileRecoverableHolds, MemoryCachedIsCurrentHolds,
           WebCountIsKept, ScheduleOwnZoneHolds, ScheduleSaidIsThereHolds, PTL

-----------------------------------------------------------------------------
(* A file that changed since it was read.                                  *)

(* A session has read the file as it is or was before; as it was before, when *)
(* the file has changed since it was taken, other than before it was noted.   *)
FileRead ==
  \A s \in FileSessions : readState[s] <= fileMtime /\ (s \in dirty \ blind => readState[s] < fileMtime)

LEMMA PutKeepsRead ==
  ASSUME FileInv, FileRead, NEW x, File!Put(x), readState' = readState
  PROVE  FileRead'
<1>1. fileMtime \in Nat /\ readState \in [FileSessions -> Nat] /\ fileMtime' \in {fileMtime, fileMtime + 1}
  BY FileAssumption DEF FileInv, FileDisk, FileCallTypes, File!Put
<1>2. IF fileMtime' > fileMtime THEN dirty' = FileSessions
      ELSE dirty' = dirty /\ blind' = blind
  BY DEF File!Put, File!seen
<1> QED BY <1>1, <1>2 DEF FileRead

LEMMA RecordKeepsRead ==
  ASSUME FileInv, FileRead, NEW c \in FileCalls, File!ReadEnds(c)
  PROVE  FileRead'
<1> DEFINE s == session[c]
<1>1. fileMtime \in Nat /\ readState \in [FileSessions -> Nat]
  BY FileAssumption DEF FileInv, FileDisk, FileCallTypes
<1>2. /\ readState' = [readState EXCEPT ![s] = IF File!Exists THEN fileMtime ELSE 0]
      /\ \/ dirty' = dirty \cup {s} /\ blind' = blind \cup {s}
         \/ dirty' = dirty \ {s} /\ blind' = blind \ {s}
      /\ fileMtime' = fileMtime /\ s \in FileSessions
  BY DEF File!ReadEnds, File!SetReadFileState, FileInv, FileCallTypes
<1> QED BY <1>1, <1>2 DEF FileRead

(* What a step does to the file's time and to who has read it.              *)
LEMMA NextRead == FileInv /\ FileRead /\ [File!Next]_(File!vars) => FileRead'
<1> SUFFICES ASSUME FileInv, FileRead, [File!Next]_(File!vars) PROVE FileRead'
  OBVIOUS
<1>1. \/ \E x : File!Put(x) /\ readState' = readState
      \/ \E c \in FileCalls : File!ReadEnds(c)
      \/ UNCHANGED <<fileMtime, readState, dirty, blind>>
  <2>2. ASSUME NEW c \in FileCalls, File!ReadTakes(c) \/ File!Rejected(c, "write")
                                    \/ File!WriteChecks(c) \/ File!EditReads(c)
        PROVE  UNCHANGED <<fileMtime, readState, dirty, blind>>
    BY <2>2, Zenon
       DEF File!ReadTakes, File!Rejected, File!WriteChecks, File!EditReads, File!fileVars, File!seen
  <2>3. ASSUME NEW c \in FileCalls, File!WriteNew(c)
        PROVE  \E x : File!Put(x) /\ readState' = readState
    BY <2>3, Zenon DEF File!WriteNew
  <2>4. ASSUME NEW c \in FileCalls, File!WriteWrites(c)
        PROVE  \/ \E x : File!Put(x) /\ readState' = readState
               \/ UNCHANGED <<fileMtime, readState, dirty, blind>>
    BY <2>4, Zenon DEF File!WriteWrites, File!WriteOver, File!seen
  <2>5. ASSUME NEW c \in FileCalls, File!EditWrites(c)
        PROVE  \/ \E x : File!Put(x) /\ readState' = readState
               \/ UNCHANGED <<fileMtime, readState, dirty, blind>>
    BY <2>5, Zenon DEF File!EditWrites, File!seen
  <2>6. CASE File!Outside
    BY <2>6, Zenon DEF File!Outside
  <2>7. CASE UNCHANGED File!vars
    BY <2>7 DEF File!vars, File!seen
  <2> QED BY <2>2, <2>3, <2>4, <2>5, <2>6, <2>7, Zenon DEF File!Next
<1>2. CASE UNCHANGED <<fileMtime, readState, dirty, blind>>
  BY <1>2 DEF FileRead
<1> QED BY <1>1, <1>2, PutKeepsRead, RecordKeepsRead

LEMMA FileReadHolds == Spec => []FileRead
<1>1. Init => FileRead
  <2>1. File!Init => FileRead
    BY DEF File!Init, FileRead
  <2> QED BY <2>1, Zenon DEF Init
<1>2. FileInv /\ FileRead /\ [Next]_vars => FileRead'
  BY NextRead, FileSteps
<1> QED BY <1>1, <1>2, FileHolds, PTL DEF Spec

(* A Write or an Edit that begins without a warning finds the file as its     *)
(* session last read it: what another session, another program or it itself *)
(* changed in a later millisecond is reported, other than a change between the *)
(* content and the time stamp of that very read (isFileStale).               *)
THEOREM FileWarnsWhenChangedHolds == Spec => FileWarnsWhenChanged
<1> DEFINE Warns(c) ==
      filePc[c] = "idle" /\ filePc'[c] \in {"writing", "editing"} /\ fileResult'[c] = "written"
        => session'[c] \notin dirty \ blind
<1>1. ASSUME FileInv, FileRead, File!Next, NEW c \in FileCalls PROVE Warns(c)
  <2> SUFFICES ASSUME filePc[c] = "idle", filePc'[c] \in {"writing", "editing"},
                      fileResult'[c] = "written"
      PROVE  session'[c] \notin dirty \ blind
    OBVIOUS
  <2>1. /\ filePc \in [FileCalls -> {"idle", "reading", "writing", "editing", "end"}]
        /\ session \in [FileCalls -> FileSessions]
        /\ fileResult \in [FileCalls -> FileResults]
        /\ readState \in [FileSessions -> Nat] /\ fileMtime \in Nat
    BY <1>1, FileAssumption DEF FileInv, FileDisk, FileCallTypes
  <2>2. ASSUME NEW s \in FileSessions, File!Begins(c, s), File!Exists,
               fileResult' = [fileResult EXCEPT ![c] = File!Written(s)]
        PROVE  session'[c] \notin dirty \ blind
    <3>1. session'[c] = s /\ File!Written(s) = "written"
      BY <2>1, <2>2 DEF File!Begins
    <3>2. readState[s] # 0 /\ ~ fileMtime > readState[s]
      BY <2>2, <3>1 DEF File!Written, File!Warned, File!IsFileStale
    <3> QED BY <1>1, <2>1, <3>1, <3>2 DEF FileRead
  <2>3. ASSUME NEW b \in FileCalls, File!WriteChecks(b) \/ File!EditReads(b)
        PROVE  session'[c] \notin dirty \ blind
    <3>1. PICK s \in FileSessions :
            /\ File!Begins(b, s)
            /\ \/ filePc' = [filePc EXCEPT ![b] = "end"]
               \/ /\ File!Exists /\ \E w \in {"writing", "editing"} : filePc' = [filePc EXCEPT ![b] = w]
                  /\ fileResult' = [fileResult EXCEPT ![b] = File!Written(s)]
      BY <2>3, Zenon DEF File!WriteChecks, File!EditReads, File!Ends
    <3>2. b = c
      BY <2>1, <3>1
    <3>3. filePc' # [filePc EXCEPT ![b] = "end"]
      BY <2>1, <3>2
    <3> QED BY <2>2, <3>1, <3>2, <3>3
  <2>4. ASSUME NEW b \in FileCalls,
               \/ File!ReadTakes(b) \/ File!ReadEnds(b) \/ File!Rejected(b, "write")
               \/ File!WriteNew(b) \/ File!WriteWrites(b) \/ File!EditWrites(b)
        PROVE  FALSE
    <3>1. \E w \in {"reading", "end"} : filePc' = [filePc EXCEPT ![b] = w]
      BY <2>4, Zenon
         DEF File!ReadTakes, File!ReadEnds, File!Rejected, File!WriteNew, File!WriteWrites,
             File!EditWrites, File!Ends, File!Waits
    <3> QED BY <2>1, <3>1
  <2>5. CASE File!Outside
    BY <2>1, <2>5 DEF File!Outside
  <2> QED BY <1>1, <2>3, <2>4, <2>5, Zenon DEF File!Next
<1>2. FileInv /\ FileRead /\ [Next]_vars => [\A c \in FileCalls : Warns(c)]_(File!vars)
  BY <1>1, FileSteps, Zenon
<1>3. Spec => [][\A c \in FileCalls : Warns(c)]_(File!vars)
  BY <1>2, FileHolds, FileReadHolds, PTL DEF Spec
<1> QED BY <1>3 DEF FileWarnsWhenChanged, File!WarnsWhenChanged

-----------------------------------------------------------------------------
(* The order of the cache.                                                 *)

\* The last entry is kept last or goes.
LEMMA SiftLast ==
  ASSUME NEW c \in Seq(EntryT), NEW e \in EntryT, NEW S
  PROVE  Web!Sift(Append(c, e), S) = IF e \in S THEN Append(Web!Sift(c, S), e) ELSE Web!Sift(c, S)
<1> DEFINE d == Append(c, e)
           L == Len(c)
<1>1. /\ d \in Seq(EntryT) /\ L \in Nat /\ Len(d) = L + 1 /\ d[L + 1] = e
      /\ \A i \in 1 .. L : d[i] = c[i]
  OBVIOUS
<1> HIDE DEF d
<1>2. PICK p : SiftRun(c, S, p)
  BY SiftUnfold, Zenon
<1>3. PICK q : SiftRun(d, S, q)
  BY <1>1, SiftUnfold, Zenon
<1> DEFINE E == {n \in 0 .. L : q[n] = p[n]}
<1> HIDE DEF L
<1>4. 0 \in E
  BY <1>1, <1>2, <1>3 DEF SiftRun
<1>5. ASSUME NEW n \in 1 .. L, n - 1 \in E PROVE n \in E
  BY <1>1, <1>2, <1>3, <1>5 DEF SiftRun, SiftStep, L
<1> HIDE DEF E
<1>6. q[L] = p[L]
  <2>1. \A n \in 0 .. L : n \in E
    BY <1>1, <1>4, <1>5, UpTo
  <2> QED BY <1>1, <2>1 DEF E
<1>7. Web!Sift(c, S) = p[L] /\ Web!Sift(d, S) = q[L + 1]
  BY <1>1, <1>2, <1>3 DEF SiftRun, L
<1>8. q[L + 1] = SiftStep(d, S, L + 1, q[L])
  <2>1. L + 1 \in 1 .. Len(d) /\ (L + 1) - 1 = L
    BY <1>1
  <2> QED BY <1>3, <2>1 DEF SiftRun
<1> QED BY <1>1, <1>6, <1>7, <1>8 DEF SiftStep, d

\* A sequence that has an end is one before it and that end.
LEMMA LastOf ==
  ASSUME NEW c \in Seq(EntryT), c # <<>>
  PROVE  \E front \in Seq(EntryT) : c = Append(front, c[Len(c)]) /\ c[Len(c)] \in EntryT
<1> DEFINE L == Len(c)
           f == SubSeq(c, 1, L - 1)
<1>1. L \in Nat /\ L >= 1 /\ c[L] \in EntryT
  BY EmptySeq
<1>2. f \in Seq(EntryT) /\ Len(f) = L - 1 /\ \A i \in 1 .. L - 1 : f[i] = c[i]
  <2>1. CASE L = 1
    <3>1. f = <<>> /\ L - 1 = 0
      BY <1>1, <2>1, SubSeqProperties
    <3> HIDE DEF f, L
    <3>2. f \in Seq(EntryT) /\ Len(f) = 0
      BY <3>1
    <3> QED BY <3>1, <3>2
  <2>2. CASE L > 1
    BY <1>1, <2>2, SubSeqProperties
  <2> HIDE DEF f, L
  <2> QED BY <1>1, <2>1, <2>2
<1>3. c = Append(f, c[L])
  BY <1>1, <1>2
<1> QED BY <1>1, <1>2, <1>3

\* The page used last is the last entry, if it is there.
LastIs(c, u) == u \in Web!KeysOf(c) => c # <<>> /\ c[Len(c)].url = u

LEMMA KeysIs ==
  ASSUME NEW c \in Seq(EntryT), NEW u
  PROVE  u \in Web!KeysOf(c) <=> \E i \in 1 .. Len(c) : c[i].url = u
BY DEF Web!KeysOf, Web!Entries

LEMMA KeysAppend ==
  ASSUME NEW c \in Seq(EntryT), NEW e \in EntryT
  PROVE  /\ Append(c, e) \in Seq(EntryT)
         /\ Append(c, e) # <<>> /\ Append(c, e)[Len(Append(c, e))] = e
         /\ e.url \in Web!KeysOf(Append(c, e))
         /\ \A u : u \in Web!KeysOf(Append(c, e)) <=> (u \in Web!KeysOf(c) \/ u = e.url)
<1> DEFINE d == Append(c, e)
           L == Len(c)
<1>1. /\ d \in Seq(EntryT) /\ L \in Nat /\ Len(d) = L + 1 /\ d[L + 1] = e
      /\ \A i \in 1 .. L : d[i] = c[i]
  OBVIOUS
<1> HIDE DEF d
<1>2. d # <<>> /\ d[Len(d)] = e
  BY <1>1
<1>3. ASSUME NEW u PROVE u \in Web!KeysOf(d) <=> (u \in Web!KeysOf(c) \/ u = e.url)
  <2>1. (u \in Web!KeysOf(d) <=> \E i \in 1 .. L + 1 : d[i].url = u)
        /\ (u \in Web!KeysOf(c) <=> \E i \in 1 .. L : c[i].url = u)
    BY <1>1, KeysIs
  <2>2. ASSUME NEW i \in 1 .. L + 1, d[i].url = u PROVE u \in Web!KeysOf(c) \/ u = e.url
    <3>1. i \in 1 .. L \/ i = L + 1
      BY <1>1
    <3> QED BY <1>1, <2>1, <2>2, <3>1
  <2>3. ASSUME NEW i \in 1 .. L, c[i].url = u PROVE u \in Web!KeysOf(d)
    BY <1>1, <2>1, <2>3
  <2>4. u = e.url => u \in Web!KeysOf(d)
    BY <1>1, <2>1
  <2> QED BY <2>1, <2>2, <2>3, <2>4
<1> QED BY <1>1, <1>2, <1>3 DEF d

\* Without a page, the others are there in their order.
LEMMA WithoutLast ==
  ASSUME NEW c \in Seq(EntryT), PagesOnce(c), NEW u, NEW v, v # u,
         v \in Web!KeysOf(c), LastIs(c, v)
  PROVE  \E front \in Seq(EntryT) : Web!Without(c, u) = Append(front, c[Len(c)])
<1>1. c # <<>> /\ c[Len(c)].url = v
  BY DEF LastIs
<1>2. PICK f \in Seq(EntryT) : c = Append(f, c[Len(c)]) /\ c[Len(c)] \in EntryT
  BY <1>1, LastOf
<1> DEFINE S == {e \in Web!Entries(c) : e.url # u}
           last == c[Len(c)]
<1>3. Web!Without(c, u) = Web!Sift(c, S)
  BY Zenon DEF Web!Without
<1>4. last \in S
  <2>1. Len(c) \in DOMAIN c
    BY <1>1
  <2> QED BY <1>1, <2>1 DEF Web!Entries
<1> HIDE DEF S, last
<1>5. Web!Sift(Append(f, last), S) = Append(Web!Sift(f, S), last)
  BY <1>2, <1>4, SiftLast DEF last
<1>6. Web!Sift(f, S) \in Seq(EntryT)
  BY SiftSound
<1> QED BY <1>2, <1>3, <1>5, <1>6 DEF last

\* What is sifted has no other pages.
LEMMA SiftKeys ==
  ASSUME NEW c \in Seq(EntryT), NEW S, NEW u \in Web!KeysOf(Web!Sift(c, S))
  PROVE  u \in Web!KeysOf(c)
<1> DEFINE d == Web!Sift(c, S)
<1>1. d \in Seq(EntryT) /\ \A k \in 1 .. Len(d) : \E i \in 1 .. Len(c) : d[k] = c[i]
  BY SiftSound
<1>2. u \in Web!KeysOf(d)
  OBVIOUS
<1> HIDE DEF d
<1>3. PICK k \in 1 .. Len(d) : d[k].url = u
  BY <1>1, <1>2, KeysIs
<1>4. PICK i \in 1 .. Len(c) : d[k] = c[i]
  BY <1>1
<1> QED BY <1>3, <1>4, KeysIs

LEMMA WithoutKeys ==
  ASSUME NEW c \in Seq(EntryT), PagesOnce(c), NEW u, NEW v \in Web!KeysOf(Web!Without(c, u))
  PROVE  v \in Web!KeysOf(c) /\ v # u
<1> DEFINE d == Web!Without(c, u)
<1>1. d \in Seq(EntryT) /\ \A k \in 1 .. Len(d) : d[k].url # u
  BY WithoutSound
<1>2. v \in Web!KeysOf(c)
  <2>1. d = Web!Sift(c, {e \in Web!Entries(c) : e.url # u})
    BY Zenon DEF Web!Without
  <2> QED BY <2>1, SiftKeys
<1>3. v \in Web!KeysOf(d)
  OBVIOUS
<1> HIDE DEF d
<1> QED BY <1>1, <1>2, <1>3, KeysIs

\* Of a cache that ends with two pages that fit together, both stay.
LEMMA FittingKeepsTwo ==
  ASSUME NEW c \in Seq(EntryT), NEW a \in EntryT, NEW b \in EntryT, a.size + b.size <= MaxBytes
  PROVE  LET all == Append(Append(c, a), b)
         IN  \E k \in 1 .. Len(Web!Fitting(all)) : Web!Fitting(all)[k] = a
<1> DEFINE all == Append(Append(c, a), b)
           L == Len(c)
           Kept(n) == SubSeq(all, n + 1, Len(all))
           S == {n \in 0 .. Len(all) : Web!Fits(Kept(n))}
<1>1. /\ all \in Seq(EntryT) /\ L \in Nat /\ Len(all) = L + 2 /\ all[L + 1] = a /\ all[L + 2] = b
  OBVIOUS
<1>2. a.size \in Nat /\ b.size \in Nat
  BY EntryHas
<1> HIDE DEF all, L
<1>3. Web!Fitting(all) = Kept(Web!Min(S))
  BY Zenon DEF Web!Fitting
<1>4. Kept(L) = <<a, b>>
  <2>1. L + 1 \in Int /\ L + 2 \in Int /\ L + 1 \in 1 .. Len(all)
    BY <1>1
  <2>2. Kept(L) \in Seq(EntryT) /\ Len(Kept(L)) = 2 /\ \A i \in 1 .. 2 : Kept(L)[i] = all[L + i]
    BY <1>1, <2>1, SubSeqProperties
  <2> HIDE DEF Kept
  <2>3. Kept(L)[1] = a /\ Kept(L)[2] = b
    BY <1>1, <2>2
  <2> QED BY <2>2, <2>3
<1>5. Web!BytesOf(<<a, b>>) = a.size + b.size
  <2>1. <<a>> \in Seq(EntryT) /\ <<>> \in Seq(EntryT) /\ <<a>> = Append(<<>>, a)
        /\ <<a, b>> = Append(<<a>>, b)
    OBVIOUS
  <2>2. Web!BytesOf(<<a>>) = 0 + a.size
    BY <2>1, BytesAppend, BytesEmpty
  <2>3. Web!BytesOf(<<a, b>>) = Web!BytesOf(<<a>>) + b.size
    BY <2>1, BytesAppend
  <2> QED BY <1>2, <2>2, <2>3
<1>6. L \in S
  <2>1. L \in 0 .. Len(all)
    BY <1>1
  <2>2. Web!Fits(<<a, b>>)
    <3>1. Len(<<a, b>>) <= MaxEntries
      BY WebAssumption
    <3> QED BY <1>5, <3>1 DEF Web!Fits
  <2> HIDE DEF Kept
  <2> QED BY <1>4, <2>1, <2>2
<1>7. Web!Min(S) \in S /\ Web!Min(S) <= L
  <2>1. S \in SUBSET Nat /\ S # {}
    BY <1>6
  <2> HIDE DEF S
  <2>2. PICK n \in S : \A m \in S : ~ (m < n)
    BY <2>1, Smallest
  <2>3. \A m \in S : n <= m
    BY <2>1, <2>2
  <2>4. Web!Min(S) \in S /\ \A m \in S : Web!Min(S) <= m
    BY <2>3, Zenon DEF Web!Min
  <2> QED BY <1>6, <2>4
<1>8. Web!Min(S) \in Nat /\ Web!Min(S) <= Len(all)
  <2>1. S \subseteq 0 .. Len(all) /\ Len(all) \in Nat
    BY <1>1
  <2> HIDE DEF S
  <2>2. Web!Min(S) \in 0 .. Len(all)
    BY <1>7, <2>1, Zenon
  <2> QED BY <2>1, <2>2
<1> HIDE DEF S
<1> DEFINE n == Web!Min(S)
           k == L + 1 - n
<1> HIDE DEF n
<1>9. n \in Nat /\ n <= L /\ k \in 1 .. Len(all) - n /\ n + k = L + 1
  BY <1>1, <1>7, <1>8 DEF n
<1>10. Len(Kept(n)) = Len(all) - n /\ \A i \in 1 .. Len(all) - n : Kept(n)[i] = all[n + i]
  <2>1. n + 1 \in Int /\ Len(all) \in Int /\ n + 1 \in 1 .. Len(all)
    BY <1>1, <1>9
  <2> QED BY <1>1, <1>9, <2>1, SubSeqProperties
<1> HIDE DEF Kept, k
<1>11. k \in 1 .. Len(Kept(n)) /\ Kept(n)[k] = a
  BY <1>1, <1>9, <1>10
<1> QED BY <1>3, <1>11 DEF n, all

\* What is left of a cache is its end.
LEMMA FittingLast ==
  ASSUME NEW c \in Seq(EntryT), PagesOnce(c)
  PROVE  LET d == Web!Fitting(c)
         IN  /\ d # <<>> => c # <<>> /\ d[Len(d)] = c[Len(c)]
             /\ \A k \in 1 .. Len(d) : \E i \in 1 .. Len(c) : d[k] = c[i]
<1> DEFINE Kept(n) == SubSeq(c, n + 1, Len(c))
           S == {n \in 0 .. Len(c) : Web!Fits(Kept(n))}
<1>1. Web!Fitting(c) = Kept(Web!Min(S))
  BY Zenon DEF Web!Fitting
<1>2. Web!Min(S) \in 0 .. Len(c)
  <2>1. Len(c) \in S
    <3>1. Kept(Len(c)) = <<>>
      BY SubSeqProperties
    <3>2. Web!Fits(<<>>)
      BY BytesEmpty, WebAssumption DEF Web!Fits
    <3> HIDE DEF Kept
    <3>3. Len(c) \in 0 .. Len(c)
      OBVIOUS
    <3> QED BY <3>1, <3>2, <3>3
  <2>2. S \in SUBSET Nat /\ S \subseteq 0 .. Len(c)
    OBVIOUS
  <2> HIDE DEF S
  <2>3. Web!Min(S) \in S
    BY <2>1, <2>2, MinIn
  <2> QED BY <2>2, <2>3
<1> HIDE DEF S
<1>3. ASSUME NEW n \in 0 .. Len(c)
      PROVE  /\ Kept(n) # <<>> => c # <<>> /\ Kept(n)[Len(Kept(n))] = c[Len(c)]
             /\ \A k \in 1 .. Len(Kept(n)) : \E i \in 1 .. Len(c) : Kept(n)[k] = c[i]
  <2>1. n \in Nat /\ Len(c) \in Nat /\ n <= Len(c)
    OBVIOUS
  <2>2. CASE n < Len(c)
    <3>1. n + 1 \in Int /\ Len(c) \in Int /\ n + 1 \in 1 .. Len(c)
      BY <2>1, <2>2
    <3>2. Len(Kept(n)) = Len(c) - n /\ \A i \in 1 .. Len(c) - n : Kept(n)[i] = c[n + i]
      BY <2>1, <3>1, SubSeqProperties
    <3> HIDE DEF Kept
    <3>3. Len(c) - n \in 1 .. Len(c) - n /\ n + (Len(c) - n) = Len(c)
      BY <2>1, <2>2
    <3>4. \A i \in 1 .. Len(c) - n : n + i \in 1 .. Len(c)
      BY <2>1
    <3>5. c # <<>> /\ Kept(n)[Len(Kept(n))] = c[Len(c)]
      <4>1. Kept(n)[Len(c) - n] = c[n + (Len(c) - n)]
        BY <3>2, <3>3
      <4>2. Len(c) # 0
        BY <2>1, <2>2
      <4> QED BY <3>2, <3>3, <4>1, <4>2
    <3>6. ASSUME NEW k \in 1 .. Len(Kept(n)) PROVE \E i \in 1 .. Len(c) : Kept(n)[k] = c[i]
      BY <3>2, <3>4
    <3> QED BY <3>5, <3>6
  <2>3. CASE n = Len(c)
    <3>1. Kept(n) = <<>>
      BY <2>1, <2>3, SubSeqProperties
    <3> HIDE DEF Kept
    <3> QED BY <3>1
  <2> HIDE DEF Kept
  <2> QED BY <2>1, <2>2, <2>3
<1> HIDE DEF Kept
<1> QED BY <1>1, <1>2, <1>3

-----------------------------------------------------------------------------
(* What a step does to the cache.                                          *)

Expiring(c) == \A i \in 1 .. Len(c) : c[i].expires = c[i].at + Ttl

\* Every entry lives its time, and what was used last is last.
WebOrder == Expiring(webCache) /\ LastIs(webCache, latest)

\* get, of a page that is there.
Hits(u) ==
  /\ u \in Web!KeysOf(webCache)
  /\ Web!Live(Web!EntryOf(webCache, u))
  /\ webCache' = Web!Touched(webCache, u)
  /\ latest' = u

Misses(u) == webCache' = Web!Without(webCache, u) /\ latest' = latest

LEMMA CacheSteps ==
  ASSUME WebInv, [Web!Next]_(Web!vars)
  PROVE  \/ UNCHANGED <<webCache, latest>>
         \/ \E c \in WebCalls : Web!Look(c) /\ (Hits(url[c]) \/ Misses(url[c]))
         \/ \E u \in Urls, size \in Sizes : Web!Set(u, size)
<1>1. ASSUME NEW c \in WebCalls, Web!Look(c) PROVE Hits(url[c]) \/ Misses(url[c])
  BY <1>1, Zenon DEF Web!Look, Hits, Misses
<1>2. ASSUME NEW c \in WebCalls, NEW site, Web!Answer(c, site)
      PROVE  \E u \in Urls, size \in Sizes : Web!Set(u, size)
  <2>1. PICK size \in Sizes : Web!Set(url[c], size)
    BY <1>2 DEF Web!Answer
  <2>2. url[c] \in Urls
    BY DEF WebInv, WebTypes
  <2> QED BY <2>1, <2>2, Zenon
<1>3. ASSUME NEW c \in WebCalls, Web!Hop(c) \/ Web!Single(c)
      PROVE  \/ UNCHANGED <<webCache, latest>>
             \/ \E u \in Urls, size \in Sizes : Web!Set(u, size)
  <2>1. (\E site : Web!Answer(c, site)) \/ UNCHANGED <<webCache, bytes, latest>>
    BY <1>3, Zenon DEF Web!Hop, Web!Single, Web!cacheVars
  <2> QED BY <1>2, <2>1
<1>4. ASSUME NEW c \in WebCalls, Web!Curl(c) \/ Web!Ask(c) \/ Web!Found(c) \/ Web!Again(c)
      PROVE  UNCHANGED <<webCache, latest>>
  BY <1>4 DEF Web!Curl, Web!Ask, Web!Found, Web!Again, Web!cacheVars
<1>5. ASSUME NEW c \in WebCalls, NEW x, Web!Fetch(c, x) \/ Web!Search(c, x)
      PROVE  UNCHANGED <<webCache, latest>>
  BY <1>5 DEF Web!Fetch, Web!Search, Web!cacheVars
<1>6. Web!Tick \/ UNCHANGED Web!vars => UNCHANGED <<webCache, latest>>
  BY DEF Web!Tick, Web!vars, Web!cacheVars
<1> QED BY <1>1, <1>3, <1>4, <1>5, <1>6, Zenon DEF Web!Next, Web!Goes

\* A sequence made of entries of another.
LEMMA ExpiringOf ==
  ASSUME NEW c \in Seq(EntryT), Expiring(c), NEW d \in Seq(EntryT),
         \A k \in 1 .. Len(d) : \E i \in 1 .. Len(c) : d[k] = c[i]
  PROVE  Expiring(d)
BY DEF Expiring

LEMMA ExpiringAppend ==
  ASSUME NEW c \in Seq(EntryT), Expiring(c), NEW e \in EntryT, e.expires = e.at + Ttl
  PROVE  Expiring(Append(c, e))
BY DEF Expiring

LEMMA WithoutExpiring ==
  ASSUME NEW c \in Seq(EntryT), Expiring(c), NEW u
  PROVE  Web!Without(c, u) \in Seq(EntryT) /\ Expiring(Web!Without(c, u))
<1> DEFINE S == {e \in Web!Entries(c) : e.url # u}
<1>1. Web!Without(c, u) = Web!Sift(c, S)
  BY Zenon DEF Web!Without
<1> HIDE DEF S
<1>2. Web!Sift(c, S) \in Seq(EntryT)
      /\ \A k \in 1 .. Len(Web!Sift(c, S)) : \E i \in 1 .. Len(c) : Web!Sift(c, S)[k] = c[i]
  BY SiftSound
<1> QED BY <1>1, <1>2, ExpiringOf

LEMMA HitKeepsOrder ==
  ASSUME WebInv, WebOrder, NEW u, Hits(u)
  PROVE  /\ Expiring(webCache') /\ LastIs(webCache', latest')
         /\ latest \in Web!KeysOf(webCache) => latest \in Web!KeysOf(webCache')
<1>1. /\ webCache \in Seq(EntryT) /\ PagesOnce(webCache) /\ Expiring(webCache)
      /\ LastIs(webCache, latest) /\ u \in Web!KeysOf(webCache) /\ latest' = u
  BY DEF WebInv, CacheInv, CacheSound, WebOrder, Hits
<1>2. PICK k \in 1 .. Len(webCache) : Web!EntryOf(webCache, u) = webCache[k] /\ webCache[k].url = u
  BY <1>1, EntryOfIs
<1> DEFINE e == webCache[k]
           d == Web!Without(webCache, u)
<1>3. e \in EntryT /\ e.url = u /\ e.expires = e.at + Ttl
  BY <1>1, <1>2 DEF Expiring
<1>4. webCache' = Append(d, e)
  BY <1>2, Zenon DEF Hits, Web!Touched
<1>5. d \in Seq(EntryT) /\ Expiring(d)
  BY <1>1, WithoutExpiring
<1>6. latest \in Web!KeysOf(webCache) /\ latest # u => latest \in Web!KeysOf(d)
  <2> SUFFICES ASSUME latest \in Web!KeysOf(webCache), latest # u PROVE latest \in Web!KeysOf(d)
    OBVIOUS
  <2>1. PICK front \in Seq(EntryT) : d = Append(front, webCache[Len(webCache)])
    BY <1>1, WithoutLast
  <2>2. webCache # <<>> /\ webCache[Len(webCache)].url = latest
    BY <1>1 DEF LastIs
  <2>3. webCache[Len(webCache)] \in EntryT
    BY <1>1, <2>2, LastOf
  <2> HIDE DEF d
  <2> QED BY <2>1, <2>2, <2>3, KeysAppend
<1> HIDE DEF d, e
<1>7. Expiring(webCache')
  BY <1>3, <1>4, <1>5, ExpiringAppend
<1>8. /\ webCache' # <<>> /\ webCache'[Len(webCache')] = e
      /\ \A v : v \in Web!KeysOf(webCache') <=> (v \in Web!KeysOf(d) \/ v = e.url)
  BY <1>3, <1>4, <1>5, KeysAppend
<1>9. LastIs(webCache', latest')
  BY <1>1, <1>3, <1>8 DEF LastIs
<1> QED BY <1>3, <1>6, <1>7, <1>8, <1>9

LEMMA MissKeepsOrder ==
  ASSUME WebInv, WebOrder, NEW u, Misses(u)
  PROVE  Expiring(webCache') /\ LastIs(webCache', latest')
<1>1. /\ webCache \in Seq(EntryT) /\ PagesOnce(webCache) /\ Expiring(webCache)
      /\ LastIs(webCache, latest) /\ webCache' = Web!Without(webCache, u) /\ latest' = latest
  BY DEF WebInv, CacheInv, CacheSound, WebOrder, Misses
<1>2. Expiring(webCache')
  BY <1>1, WithoutExpiring
<1>3. ASSUME latest \in Web!KeysOf(webCache') PROVE webCache' # <<>> /\ webCache'[Len(webCache')].url = latest
  <2>1. latest \in Web!KeysOf(webCache) /\ latest # u
    BY <1>1, <1>3, WithoutKeys
  <2>2. PICK front \in Seq(EntryT) : webCache' = Append(front, webCache[Len(webCache)])
    BY <1>1, <2>1, WithoutLast
  <2>3. webCache # <<>> /\ webCache[Len(webCache)].url = latest
    BY <1>1, <2>1 DEF LastIs
  <2>4. webCache[Len(webCache)] \in EntryT
    BY <1>1, <2>3, LastOf
  <2>5. webCache' # <<>> /\ webCache'[Len(webCache')] = webCache[Len(webCache)]
    BY <2>2, <2>4, KeysAppend
  <2> QED BY <2>3, <2>5
<1> QED BY <1>1, <1>2, <1>3 DEF LastIs

\* set: the new page is last, if it stays, and the page used before it is
\* next to it.
LEMMA SetKeepsOrder ==
  ASSUME WebInv, WebOrder, NEW u \in Urls, NEW size \in Sizes, Web!Set(u, size)
  PROVE  /\ Expiring(webCache') /\ LastIs(webCache', latest') /\ latest' = u
         /\ latest \in Web!KeysOf(webCache) /\ u \in Web!KeysOf(webCache') /\ latest # u
            /\ Web!StaysBeside(Web!EntryOf(webCache, latest), Web!EntryOf(webCache', u))
              => latest \in Web!KeysOf(webCache')
<1> DEFINE others == Web!Without(webCache, u)
           e == Web!Entry(u, size)
           added == Append(others, e)
           S == {x \in Web!Entries(added) : Web!Live(x)}
           live == Web!Sift(added, S)
<1>1. /\ webCache \in Seq(EntryT) /\ PagesOnce(webCache) /\ Expiring(webCache)
      /\ LastIs(webCache, latest)
  BY DEF WebInv, CacheInv, CacheSound, WebOrder
<1>2. webCache' = Web!Fitting(live) /\ latest' = u
  BY Zenon DEF Web!Set, Web!Unexpired
<1>3. e \in EntryT /\ e.url = u /\ e.expires = e.at + Ttl
  <2>1. now \in 0 .. MaxTime
    BY DEF WebInv, WebTypes
  <2> QED BY <2>1, WebAssumption DEF Web!Entry, EntryT
<1>4. /\ others \in Seq(EntryT) /\ PagesOnce(others) /\ Expiring(others)
      /\ \A i \in 1 .. Len(others) : others[i].url # u
  BY <1>1, WithoutSound, WithoutExpiring
<1>5. \A v : v \in Web!KeysOf(others) => v \in Web!KeysOf(webCache) /\ v # u
  BY <1>1, WithoutKeys
<1>6. latest \in Web!KeysOf(webCache) /\ latest # u =>
        \E front \in Seq(EntryT) : others = Append(front, webCache[Len(webCache)])
  BY <1>1, WithoutLast
<1>7. \A x : x \in S <=> x \in Web!Entries(added) /\ Web!Live(x)
  OBVIOUS
<1> HIDE DEF others, e
<1>8. added \in Seq(EntryT) /\ PagesOnce(added) /\ Expiring(added)
  BY <1>3, <1>4, PagesAppend, ExpiringAppend
<1> HIDE DEF S
<1>9. live = IF e \in S THEN Append(Web!Sift(others, S), e) ELSE Web!Sift(others, S)
  BY <1>3, <1>4, SiftLast
<1>10. Web!Sift(others, S) \in Seq(EntryT)
  BY <1>4, SiftSound
<1> HIDE DEF added
<1>11. /\ live \in Seq(EntryT) /\ PagesOnce(live)
       /\ \A k \in 1 .. Len(live) : \E i \in 1 .. Len(added) : live[k] = added[i]
  BY <1>8, SiftSound, SiftOnce
<1> HIDE DEF live
<1>12. Expiring(live)
  BY <1>8, <1>11, ExpiringOf
<1>13. /\ webCache' \in Seq(EntryT)
       /\ webCache' # <<>> => live # <<>> /\ webCache'[Len(webCache')] = live[Len(live)]
       /\ \A k \in 1 .. Len(webCache') : \E i \in 1 .. Len(live) : webCache'[k] = live[i]
  <2>1. Web!Fitting(live) \in Seq(EntryT)
    BY <1>11, FittingSound DEF CacheSound
  <2> QED BY <1>2, <1>11, <2>1, FittingLast
<1>14. Expiring(webCache')
  BY <1>11, <1>12, <1>13, ExpiringOf
<1>15. ASSUME u \in Web!KeysOf(webCache') PROVE e \in S /\ webCache' # <<>>
  <2>1. PICK k \in 1 .. Len(webCache') : webCache'[k].url = u
    BY <1>13, <1>15, KeysIs
  <2>2. u \in Web!KeysOf(live)
    BY <1>11, <1>13, <2>1, KeysIs
  <2>3. u \notin Web!KeysOf(Web!Sift(others, S))
    BY <1>4, <1>5, SiftKeys
  <2>4. e \in S
    BY <1>9, <2>2, <2>3
  <2> QED BY <1>13, <2>1, <2>4
<1>16. e \in S => live # <<>> /\ live[Len(live)] = e
  BY <1>3, <1>9, <1>10, KeysAppend
<1>17. LastIs(webCache', latest')
  BY <1>2, <1>3, <1>13, <1>15, <1>16 DEF LastIs
<1>18. ASSUME latest \in Web!KeysOf(webCache), u \in Web!KeysOf(webCache'), latest # u,
              Web!StaysBeside(Web!EntryOf(webCache, latest), Web!EntryOf(webCache', u))
       PROVE  latest \in Web!KeysOf(webCache')
  <2> DEFINE last == webCache[Len(webCache)]
  <2>1. webCache # <<>> /\ last.url = latest /\ last \in EntryT
    BY <1>1, <1>18, LastOf DEF LastIs
  <2>2. Web!EntryOf(webCache, latest) = last
    <3>1. PICK k \in 1 .. Len(webCache) : Web!EntryOf(webCache, latest) = webCache[k]
                                           /\ webCache[k].url = latest
      BY <1>1, <1>18, EntryOfIs
    <3>2. Len(webCache) \in 1 .. Len(webCache)
      BY <1>1, <2>1
    <3>3. k = Len(webCache)
      BY <1>1, <2>1, <3>1, <3>2 DEF PagesOnce
    <3> QED BY <3>1, <3>3
  <2>3. Web!EntryOf(webCache', u) = e
    <3>1. PICK k \in 1 .. Len(webCache') : Web!EntryOf(webCache', u) = webCache'[k]
                                            /\ webCache'[k].url = u
      BY <1>13, <1>18, EntryOfIs
    <3>2. PICK i \in 1 .. Len(live) : webCache'[k] = live[i]
      BY <1>13
    <3>3. live # <<>> /\ live[Len(live)] = e
      BY <1>15, <1>16, <1>18
    <3>4. Len(live) \in 1 .. Len(live)
      BY <1>11, <3>3
    <3>5. i = Len(live)
      BY <1>3, <1>11, <3>1, <3>2, <3>3, <3>4 DEF PagesOnce
    <3> QED BY <3>1, <3>2, <3>3, <3>5
  <2>4. Web!Live(last) /\ last.size + e.size <= MaxBytes
    BY <1>18, <2>2, <2>3 DEF Web!StaysBeside
  <2>5. PICK front \in Seq(EntryT) : others = Append(front, last)
    BY <1>6, <1>18
  <2> HIDE DEF last
  <2>6. last \in Web!Entries(added)
    <3>1. \E i \in 1 .. Len(others) : others[i] = last
      BY <2>1, <2>5
    <3>2. others \in Seq(EntryT)
      BY <1>4
    <3> QED BY <1>3, <3>1, <3>2 DEF Web!Entries, added
  <2>7. last \in S
    BY <1>7, <2>4, <2>6
  <2>8. live = Append(Append(Web!Sift(front, S), last), e)
    <3>1. Web!Sift(others, S) = Append(Web!Sift(front, S), last)
      BY <2>1, <2>5, <2>7, SiftLast
    <3> QED BY <1>9, <1>15, <1>18, <3>1
  <2>9. Web!Sift(front, S) \in Seq(EntryT)
    BY SiftSound
  <2>10. PICK k \in 1 .. Len(Web!Fitting(live)) : Web!Fitting(live)[k] = last
    BY <1>3, <2>1, <2>4, <2>8, <2>9, FittingKeepsTwo
  <2> QED BY <1>2, <1>13, <2>1, <2>10, KeysIs
<1> QED BY <1>2, <1>14, <1>17, <1>18

LEMMA NextOrder == WebInv /\ WebOrder /\ [Web!Next]_(Web!vars) => WebOrder'
<1> SUFFICES ASSUME WebInv, WebOrder, [Web!Next]_(Web!vars) PROVE WebOrder'
  OBVIOUS
<1>1. Expiring(webCache') /\ LastIs(webCache', latest')
  <2>1. CASE UNCHANGED <<webCache, latest>>
    BY <2>1 DEF WebOrder
  <2> QED BY <2>1, CacheSteps, HitKeepsOrder, MissKeepsOrder, SetKeepsOrder
<1> QED BY <1>1 DEF WebOrder, Expiring, LastIs, Web!KeysOf, Web!Entries

LEMMA WebOrderHolds == Spec => []WebOrder
<1>1. Init => WebOrder
  <2>1. Web!Init => WebOrder
    BY DEF Web!Init, WebOrder, Expiring, LastIs, Web!KeysOf, Web!Entries
  <2> QED BY <2>1, Zenon DEF Init
<1>2. WebInv /\ WebOrder /\ [Next]_vars => WebOrder'
  BY NextOrder, WebSteps
<1> QED BY <1>1, <1>2, WebHolds, PTL DEF Spec

(* What is evicted for room is never what was used last, while it and what    *)
(* takes the room fit together (LruCache.get, evictIfNeeded).               *)
THEOREM WebLastUsedStaysHolds == Spec => WebLastUsedStays
<1> DEFINE Stays ==
      (/\ latest \in Web!KeysOf(webCache) /\ latest' \in Web!KeysOf(webCache') /\ latest' /= latest
       /\ Web!StaysBeside(Web!EntryOf(webCache, latest), Web!EntryOf(webCache', latest')))
        => latest \in Web!KeysOf(webCache')
<1>1. ASSUME WebInv, WebOrder, Web!Next PROVE Stays
  <2> SUFFICES ASSUME latest \in Web!KeysOf(webCache), latest' \in Web!KeysOf(webCache'),
                      latest' /= latest,
                      Web!StaysBeside(Web!EntryOf(webCache, latest), Web!EntryOf(webCache', latest'))
               PROVE  latest \in Web!KeysOf(webCache')
    OBVIOUS
  <2>1. ASSUME NEW u, Hits(u) PROVE latest \in Web!KeysOf(webCache')
    BY <1>1, <2>1, HitKeepsOrder
  <2>2. ASSUME NEW u \in Urls, NEW size \in Sizes, Web!Set(u, size)
        PROVE  latest \in Web!KeysOf(webCache')
    <3>1. latest' = u
      BY <1>1, <2>2, SetKeepsOrder
    <3> QED BY <1>1, <2>2, <3>1, SetKeepsOrder
  <2> QED BY <1>1, <2>1, <2>2, CacheSteps DEF Misses
<1>2. WebInv /\ WebOrder /\ [Next]_vars => [Stays]_(Web!vars)
  BY <1>1, WebSteps, Zenon
<1>3. Spec => [][Stays]_(Web!vars)
  BY <1>2, WebHolds, WebOrderHolds, PTL DEF Spec
<1> QED BY <1>3 DEF WebLastUsedStays, Web!LastUsedStays

\* Only get serves a page from the cache.
LEMMA OnlyGetServes ==
  ASSUME WebInv, Web!Next, NEW c \in WebCalls, webResult'[c] # webResult[c], webResult'[c] = "cached"
  PROVE  url[c] \in Web!KeysOf(webCache) /\ Web!Live(Web!EntryOf(webCache, url[c]))
<1>1. webResult \in [WebCalls -> WebResults]
  BY DEF WebInv, WebTypes
<1>2. ASSUME NEW b \in WebCalls, NEW r, r # "cached", webResult' = [webResult EXCEPT ![b] = r]
      PROVE  FALSE
  BY <1>1, <1>2
<1>3. ASSUME NEW b \in WebCalls, Web!Look(b)
      PROVE  url[c] \in Web!KeysOf(webCache) /\ Web!Live(Web!EntryOf(webCache, url[c]))
  <2>1. \/ /\ url[b] \in Web!KeysOf(webCache) /\ Web!Live(Web!EntryOf(webCache, url[b]))
           /\ webResult' = [webResult EXCEPT ![b] = "cached"]
        \/ webResult' = webResult
    BY <1>3, Zenon DEF Web!Look, Web!Extract, Web!End
  <2>2. webResult' # webResult
    OBVIOUS
  <2>3. b = c
    BY <1>1, <2>1, <2>2
  <2> QED BY <2>1, <2>2, <2>3
<1>4. ASSUME NEW b \in WebCalls, Web!Hop(b) \/ Web!Single(b) \/ Web!Curl(b) PROVE FALSE
  <2>1. (\E r \in {"own", "other", "failed"} : webResult' = [webResult EXCEPT ![b] = r])
        \/ webResult' = webResult
    BY <1>4 DEF Web!Hop, Web!Single, Web!Curl, Web!Answer, Web!Extract, Web!End
  <2> QED BY <1>2, <2>1
<1>5. ASSUME NEW b \in WebCalls, Web!Ask(b) \/ Web!Found(b) \/ Web!Again(b) PROVE FALSE
  <2>1. (\E r \in {"found", "failed", Web!None} : webResult' = [webResult EXCEPT ![b] = r])
        \/ webResult' = webResult
    BY <1>5 DEF Web!Ask, Web!AskSearch, Web!AskImages, Web!Found, Web!Again, Web!End
  <2> QED BY <1>2, <2>1 DEF Web!None
<1>6. ASSUME NEW b \in WebCalls, NEW x, Web!Fetch(b, x) \/ Web!Search(b, x) PROVE FALSE
  <2>1. webResult' = [webResult EXCEPT ![b] = "failed"] \/ webResult' = webResult
    BY <1>6, Zenon DEF Web!Fetch, Web!Search, Web!End
  <2> QED BY <1>2, <2>1
<1>7. ~Web!Tick
  BY DEF Web!Tick, Web!callVars
<1> QED BY <1>3, <1>4, <1>5, <1>6, <1>7, Zenon DEF Web!Next, Web!Goes

(* A page from the cache is no older than the time to live, however often it *)
(* was asked for in between (LruCache.get keeps expiresAt).                 *)
THEOREM WebCachedIsFreshHolds == Spec => WebCachedIsFresh
<1> DEFINE Fresh(c) == webResult'[c] /= webResult[c] /\ webResult'[c] = "cached"
                         => now - Web!EntryOf(webCache, url[c]).at < Ttl
<1>1. ASSUME WebInv, WebOrder, Web!Next, NEW c \in WebCalls PROVE Fresh(c)
  <2> SUFFICES ASSUME webResult'[c] /= webResult[c], webResult'[c] = "cached"
               PROVE  now - Web!EntryOf(webCache, url[c]).at < Ttl
    OBVIOUS
  <2> DEFINE e == Web!EntryOf(webCache, url[c])
  <2>1. url[c] \in Web!KeysOf(webCache) /\ Web!Live(e)
    BY <1>1, OnlyGetServes
  <2>2. webCache \in Seq(EntryT) /\ Expiring(webCache)
    BY <1>1 DEF WebInv, CacheInv, CacheSound, WebOrder
  <2>3. PICK k \in 1 .. Len(webCache) : e = webCache[k]
    BY <2>1, <2>2, EntryOfIs
  <2>4. e \in EntryT /\ e.expires = e.at + Ttl /\ e.expires > now
    BY <2>1, <2>2, <2>3 DEF Expiring, Web!Live
  <2> HIDE DEF e
  <2>5. e.at \in Nat /\ Ttl \in Nat /\ now \in Nat
    BY <1>1, <2>4, WebAssumption DEF EntryT, WebInv, WebTypes
  <2>6. now - e.at < Ttl
    BY <2>4, <2>5
  <2> QED BY <2>6 DEF e
<1>2. WebInv /\ WebOrder /\ [Next]_vars => [\A c \in WebCalls : Fresh(c)]_(Web!vars)
  BY <1>1, WebSteps, Zenon
<1>3. Spec => [][\A c \in WebCalls : Fresh(c)]_(Web!vars)
  BY <1>2, WebHolds, WebOrderHolds, PTL DEF Spec
<1> QED BY <1>3 DEF WebCachedIsFresh, Web!CachedIsFresh

-----------------------------------------------------------------------------
(* What filing a memory leaves alone.                                      *)

\* One step of Bodies: what its n-th value makes of the one before it.
BodyStep(m, t, n, r) == IF m.secs[n].title = t THEN Append(r, m.secs[n]) ELSE r

\* p[n] are the sections of the title t among the first n.
BodyRun(m, t, p) ==
  /\ p \in [0 .. Len(m.secs) -> Seq(SectionT)]
  /\ Memory!Bodies(m, t) = p[Len(m.secs)]
  /\ p[0] = <<>>
  /\ \A n \in 1 .. Len(m.secs) : p[n] = BodyStep(m, t, n, p[n - 1])

LEMMA BodyUnfold ==
  ASSUME NEW m \in MemoryT, NEW t
  PROVE  \E p : BodyRun(m, t, p)
<1> DEFINE N == Len(m.secs)
           D == Seq(SectionT)
           d == <<>>
           F == [n \in 1 .. N |-> [x \in D |-> BodyStep(m, t, n, x)]]
           Is(p) == p = [n \in 0 .. N |-> IF n = 0 THEN d ELSE BodyStep(m, t, n, p[n - 1])]
           q == CHOOSE p : Is(p)
<1>1. N \in Nat /\ d \in D /\ m.secs \in D
  BY DEF MemoryT
<1>2. \A n \in 1 .. N : \A x \in D : BodyStep(m, t, n, x) \in D
  BY <1>1 DEF BodyStep
<1>3. Memory!Bodies(m, t) = q[N]
  BY Zenon DEF Memory!Bodies, BodyStep
<1> HIDE DEF N, D, d
<1>4. F \in [1 .. N -> [D -> D]] /\ \A n \in 1 .. N : \A x \in D : F[n][x] = BodyStep(m, t, n, x)
  BY <1>2
<1> HIDE DEF F
<1>5. PICK p \in [0 .. N -> D] : p[0] = d /\ \A n \in 1 .. N : p[n] = F[n][p[n - 1]]
  <2>1. Iterable(N, D, d, F)
    BY <1>1, <1>4 DEF Iterable
  <2> QED BY <2>1, Iteration
<1>6. Is(p)
  <2>1. \A n \in 1 .. N : p[n] = BodyStep(m, t, n, p[n - 1])
    BY <1>1, <1>4, <1>5
  <2>2. \A n \in 0 .. N : p[n] = IF n = 0 THEN d ELSE BodyStep(m, t, n, p[n - 1])
    BY <1>1, <1>5, <2>1
  <2> QED BY <2>2, <1>5
<1> HIDE DEF q
<1>7. Is(q)
  <2> HIDE DEF Is
  <2> QED BY <1>6 DEF q
<1>8. q[0] = d /\ \A n \in 1 .. N : q[n] = BodyStep(m, t, n, q[n - 1])
  BY <1>1, <1>7
<1>9. q \in [0 .. N -> D]
  <2> DEFINE E == {n \in Nat : q[n] \in D}
  <2>1. 0 \in E /\ \A n \in 1 .. N : n - 1 \in E => n \in E
    BY <1>1, <1>2, <1>8
  <2> HIDE DEF E
  <2>2. \A n \in 0 .. N : n \in E
    BY <1>1, <2>1, UpTo
  <2> QED BY <1>7, <2>2 DEF E
<1> QED BY <1>3, <1>8, <1>9 DEF N, D, d, BodyRun

\* Sections with the same titles give as many of a title; with the same
\* sections of it, the same.
LEMMA BodiesOfSame ==
  ASSUME NEW m \in MemoryT, NEW k \in MemoryT, NEW t, Len(k.secs) = Len(m.secs),
         \A i \in 1 .. Len(m.secs) : k.secs[i].title = m.secs[i].title
  PROVE  /\ Len(Memory!Bodies(k, t)) = Len(Memory!Bodies(m, t))
         /\ (\A i \in 1 .. Len(m.secs) : m.secs[i].title = t => k.secs[i] = m.secs[i])
              => Memory!Bodies(k, t) = Memory!Bodies(m, t)
<1> DEFINE L == Len(m.secs)
           Same == \A i \in 1 .. L : m.secs[i].title = t => k.secs[i] = m.secs[i]
<1>1. m.secs \in Seq(SectionT) /\ k.secs \in Seq(SectionT) /\ L \in Nat /\ Len(k.secs) = L
  BY DEF MemoryT
<1>2. PICK p : BodyRun(m, t, p)
  BY BodyUnfold, Zenon
<1>3. PICK q : BodyRun(k, t, q)
  BY BodyUnfold, Zenon
<1> DEFINE E == {n \in 0 .. L : Len(q[n]) = Len(p[n]) /\ (Same => q[n] = p[n])}
<1> HIDE DEF L, Same
<1>4. 0 \in E
  BY <1>1, <1>2, <1>3 DEF BodyRun
<1>5. ASSUME NEW n \in 1 .. L, n - 1 \in E PROVE n \in E
  <2>1. p[n] = BodyStep(m, t, n, p[n - 1]) /\ q[n] = BodyStep(k, t, n, q[n - 1])
    BY <1>1, <1>2, <1>3 DEF BodyRun, L
  <2>2. n - 1 \in 0 .. L /\ n \in 0 .. L
    BY <1>1
  <2>3. p[n - 1] \in Seq(SectionT) /\ q[n - 1] \in Seq(SectionT)
        /\ m.secs[n] \in SectionT /\ k.secs[n] \in SectionT
    <3>1. p[n - 1] \in Seq(SectionT)
      BY <1>2, <2>2 DEF BodyRun, L
    <3>2. q[n - 1] \in Seq(SectionT)
      BY <1>1, <1>3, <2>2 DEF BodyRun, L
    <3>3. m.secs[n] \in SectionT /\ k.secs[n] \in SectionT
      BY <1>1, <2>2 DEF L
    <3> QED BY <3>1, <3>2, <3>3
  <2>4. Len(q[n - 1]) = Len(p[n - 1]) /\ (Same => q[n - 1] = p[n - 1])
    BY <1>5
  <2>5. k.secs[n].title = m.secs[n].title /\ (Same /\ m.secs[n].title = t => k.secs[n] = m.secs[n])
    BY DEF L, Same
  <2>6. CASE m.secs[n].title = t
    <3>1. p[n] = Append(p[n - 1], m.secs[n]) /\ q[n] = Append(q[n - 1], k.secs[n])
      BY <2>1, <2>5, <2>6 DEF BodyStep
    <3>2. Len(p[n]) = Len(p[n - 1]) + 1 /\ Len(q[n]) = Len(q[n - 1]) + 1
      BY <2>3, <3>1
    <3>3. Same => q[n] = p[n]
      BY <2>4, <2>5, <2>6, <3>1
    <3> QED BY <2>2, <2>4, <3>2, <3>3
  <2>7. CASE m.secs[n].title # t
    <3>1. p[n] = p[n - 1] /\ q[n] = q[n - 1]
      BY <2>1, <2>5, <2>7 DEF BodyStep
    <3> QED BY <2>2, <2>4, <3>1
  <2> QED BY <2>6, <2>7
<1> HIDE DEF E
<1>6. L \in E
  <2>1. \A n \in 0 .. L : n \in E
    BY <1>1, <1>4, <1>5, UpTo
  <2> QED BY <1>1, <2>1
<1>7. Memory!Bodies(m, t) = p[L] /\ Memory!Bodies(k, t) = q[L]
  BY <1>1, <1>2, <1>3 DEF BodyRun, L
<1> QED BY <1>6, <1>7 DEF E, L, Same

\* What is found are sections of the title.
LEMMA BodiesAreOf ==
  ASSUME NEW m \in MemoryT, NEW t
  PROVE  /\ Memory!Bodies(m, t) \in Seq(SectionT)
         /\ \A j \in 1 .. Len(Memory!Bodies(m, t)) :
              \E i \in 1 .. Len(m.secs) : /\ Memory!Bodies(m, t)[j] = m.secs[i]
                                          /\ m.secs[i].title = t
<1> DEFINE L == Len(m.secs)
<1>1. m.secs \in Seq(SectionT) /\ L \in Nat
  BY DEF MemoryT
<1>2. PICK p : BodyRun(m, t, p)
  BY BodyUnfold, Zenon
<1> DEFINE Of(r) == \A j \in 1 .. Len(r) : \E i \in 1 .. L : r[j] = m.secs[i] /\ m.secs[i].title = t
           E == {n \in 0 .. L : Of(p[n])}
<1>3. 0 \in E
  BY <1>1, <1>2 DEF BodyRun
<1> HIDE DEF L
<1>4. ASSUME NEW n \in 1 .. L, n - 1 \in E PROVE n \in E
  <2>1. p[n] = BodyStep(m, t, n, p[n - 1]) /\ n - 1 \in 0 .. L /\ n \in 0 .. L
    BY <1>1, <1>2 DEF BodyRun, L
  <2>2. p[n - 1] \in Seq(SectionT) /\ m.secs[n] \in SectionT /\ Len(p[n - 1]) \in Nat
    BY <1>1, <1>2, <2>1 DEF BodyRun, L
  <2>3. Of(p[n - 1])
    BY <1>4
  <2>4. CASE m.secs[n].title = t
    <3>1. p[n] = Append(p[n - 1], m.secs[n])
      BY <2>1, <2>4 DEF BodyStep
    <3>2. /\ Len(p[n]) = Len(p[n - 1]) + 1 /\ p[n][Len(p[n - 1]) + 1] = m.secs[n]
          /\ \A j \in 1 .. Len(p[n - 1]) : p[n][j] = p[n - 1][j]
      BY <2>2, <3>1
    <3>3. ASSUME NEW j \in 1 .. Len(p[n])
          PROVE  \E i \in 1 .. L : p[n][j] = m.secs[i] /\ m.secs[i].title = t
      <4>1. CASE j \in 1 .. Len(p[n - 1])
        BY <2>3, <3>2, <4>1
      <4>2. CASE j = Len(p[n - 1]) + 1
        BY <2>4, <3>2, <4>2
      <4> QED BY <2>2, <3>2, <4>1, <4>2
    <3> QED BY <2>1, <3>3
  <2>5. CASE m.secs[n].title # t
    <3>1. p[n] = p[n - 1]
      BY <2>1, <2>5 DEF BodyStep
    <3> QED BY <2>1, <2>3, <3>1
  <2> QED BY <2>4, <2>5
<1> HIDE DEF E
<1>5. L \in E
  <2>1. \A n \in 0 .. L : n \in E
    BY <1>1, <1>3, <1>4, UpTo
  <2> QED BY <1>1, <2>1
<1>6. Memory!Bodies(m, t) = p[L] /\ p[L] \in Seq(SectionT)
  BY <1>1, <1>2 DEF BodyRun, L
<1> QED BY <1>5, <1>6 DEF E, L

\* A section at the end is one more of its title.
LEMMA BodiesAppend ==
  ASSUME NEW m \in MemoryT, NEW s \in SectionT, NEW k \in MemoryT, k.secs = Append(m.secs, s), NEW t
  PROVE  Memory!Bodies(k, t) = IF s.title = t THEN Append(Memory!Bodies(m, t), s)
                                              ELSE Memory!Bodies(m, t)
<1> DEFINE L == Len(m.secs)
<1>1. /\ m.secs \in Seq(SectionT) /\ L \in Nat /\ Len(k.secs) = L + 1 /\ k.secs[L + 1] = s
      /\ \A i \in 1 .. L : k.secs[i] = m.secs[i]
  BY DEF MemoryT
<1>2. PICK p : BodyRun(m, t, p)
  BY BodyUnfold, Zenon
<1>3. PICK q : BodyRun(k, t, q)
  BY BodyUnfold, Zenon
<1> DEFINE E == {n \in 0 .. L : q[n] = p[n]}
<1> HIDE DEF L
<1>4. 0 \in E
  BY <1>1, <1>2, <1>3 DEF BodyRun
<1>5. ASSUME NEW n \in 1 .. L, n - 1 \in E PROVE n \in E
  BY <1>1, <1>2, <1>3, <1>5 DEF BodyRun, BodyStep, L
<1> HIDE DEF E
<1>6. q[L] = p[L]
  <2>1. \A n \in 0 .. L : n \in E
    BY <1>1, <1>4, <1>5, UpTo
  <2> QED BY <1>1, <2>1 DEF E
<1>7. Memory!Bodies(m, t) = p[L] /\ Memory!Bodies(k, t) = q[L + 1]
  BY <1>1, <1>2, <1>3 DEF BodyRun, L
<1>8. q[L + 1] = BodyStep(k, t, L + 1, q[L])
  <2>1. L + 1 \in 1 .. Len(k.secs) /\ (L + 1) - 1 = L
    BY <1>1
  <2> QED BY <1>3, <2>1 DEF BodyRun
<1> QED BY <1>1, <1>6, <1>7, <1>8 DEF BodyStep

\* Filing writes one section.
FiledOnly(old, new, t, body) ==
  /\ \A other \in Titles \ {t} : Memory!Bodies(new, other) = Memory!Bodies(old, other)
  /\ \A i \in DOMAIN Memory!Bodies(new, t) : Memory!Bodies(new, t)[i].body = body
  /\ \/ Len(Memory!Bodies(new, t)) <= 1
     \/ Len(Memory!Bodies(new, t)) = Len(Memory!Bodies(old, t))

LEMMA UpsertFilesOnly ==
  ASSUME NEW m \in MemoryT, m.head, NEW t \in Titles, NEW body \in 1 .. MaxWrites
  PROVE  FiledOnly(m, Memory!Upsert(m, t, body), t, body)
<1> DEFINE new == Memory!Upsert(m, t, body)
           s == Memory!Section(t, body)
<1>1. new \in MemoryT /\ m.secs \in Seq(SectionT) /\ Len(m.secs) \in Nat
  BY UpsertIsMemory DEF MemoryT
<1>2. s \in SectionT /\ s.title = t /\ s.body = body
  BY DEF Memory!Section, SectionT
<1>3. /\ Memory!Has(m, t) => new.secs = [i \in DOMAIN m.secs |->
                                 IF m.secs[i].title = t THEN s ELSE m.secs[i]]
      /\ ~Memory!Has(m, t) => new.secs = Append(m.secs, s)
  BY DEF Memory!Upsert, Memory!Rendered
<1>4. Memory!Bodies(new, t) \in Seq(SectionT)
      /\ DOMAIN Memory!Bodies(new, t) = 1 .. Len(Memory!Bodies(new, t))
  <2> HIDE DEF new
  <2> QED BY <1>1, BodiesAreOf
<1> HIDE DEF new, s
<1>5. ASSUME Memory!Has(m, t) PROVE FiledOnly(m, new, t, body)
  <2>1. /\ Len(new.secs) = Len(m.secs)
        /\ \A i \in 1 .. Len(m.secs) :
             new.secs[i] = IF m.secs[i].title = t THEN s ELSE m.secs[i]
    BY <1>1, <1>3, <1>5
  <2>2. \A i \in 1 .. Len(m.secs) : new.secs[i].title = m.secs[i].title
    BY <1>2, <2>1
  <2>3. ASSUME NEW other \in Titles \ {t}
        PROVE  Memory!Bodies(new, other) = Memory!Bodies(m, other)
    <3>1. \A i \in 1 .. Len(m.secs) : m.secs[i].title = other => new.secs[i] = m.secs[i]
      BY <2>1
    <3> QED BY <1>1, <2>1, <2>2, <3>1, BodiesOfSame
  <2>4. Len(Memory!Bodies(new, t)) = Len(Memory!Bodies(m, t))
    BY <1>1, <2>1, <2>2, BodiesOfSame
  <2>5. ASSUME NEW j \in DOMAIN Memory!Bodies(new, t) PROVE Memory!Bodies(new, t)[j].body = body
    <3>1. PICK i \in 1 .. Len(new.secs) : Memory!Bodies(new, t)[j] = new.secs[i]
                                          /\ new.secs[i].title = t
      BY <1>1, <1>4, BodiesAreOf
    <3> QED BY <1>2, <2>1, <3>1
  <2> QED BY <2>3, <2>4, <2>5, Zenon DEF FiledOnly
<1>6. ASSUME ~Memory!Has(m, t) PROVE FiledOnly(m, new, t, body)
  <2>1. \A o : Memory!Bodies(new, o) = IF s.title = o THEN Append(Memory!Bodies(m, o), s)
                                                      ELSE Memory!Bodies(m, o)
    BY <1>1, <1>2, <1>3, <1>6, BodiesAppend
  <2>2. Memory!Bodies(m, t) = <<>>
    <3> DEFINE b == Memory!Bodies(m, t)
    <3>1. b \in Seq(SectionT)
          /\ \A j \in 1 .. Len(b) : \E i \in 1 .. Len(m.secs) : b[j] = m.secs[i] /\ m.secs[i].title = t
      BY BodiesAreOf
    <3>2. ~ \E i \in 1 .. Len(m.secs) : m.secs[i].title = t
      BY <1>1, <1>6 DEF Memory!Has
    <3> HIDE DEF b
    <3>3. b = <<>>
      BY <3>1, <3>2
    <3> QED BY <3>3 DEF b
  <2>3. Memory!Bodies(new, t) = <<s>>
    <3>1. Memory!Bodies(new, t) = Append(<<>>, s)
      BY <1>2, <2>1, <2>2
    <3>2. Append(<<>>, s) = <<s>>
      OBVIOUS
    <3> QED BY <3>1, <3>2
  <2>4. \A other \in Titles \ {t} : Memory!Bodies(new, other) = Memory!Bodies(m, other)
    BY <1>2, <2>1
  <2>5. Len(<<s>>) = 1 /\ DOMAIN <<s>> = {1} /\ <<s>>[1] = s
    OBVIOUS
  <2>6. \A j \in DOMAIN Memory!Bodies(new, t) : Memory!Bodies(new, t)[j].body = body
    BY <1>2, <2>3, <2>5
  <2>7. Len(Memory!Bodies(new, t)) <= 1
    BY <2>3, <2>5
  <2> QED BY <2>4, <2>6, <2>7, Zenon DEF FiledOnly
<1> QED BY <1>5, <1>6 DEF new

(* Filing a memory touches one section: every other title keeps what it has, *)
(* and the filed title has the filed content, as long as memory.md has its    *)
(* header (upsertMemorySection parses and renders the whole file).          *)
THEOREM MemoryFilingTouchesOneHolds == Spec => MemoryFilingTouchesOne
<1> DEFINE Filed == by' = "filed" /\ memoryMtime' /= memoryMtime /\ memory.head =>
         \E t \in Titles :
            /\ \A other \in Titles \ {t} : Memory!Bodies(memory', other) = Memory!Bodies(memory, other)
            /\ \A i \in DOMAIN Memory!Bodies(memory', t) : Memory!Bodies(memory', t)[i].body = writes'
            /\ Len(Memory!Bodies(memory', t)) <= 1
                 \/ Len(Memory!Bodies(memory', t)) = Len(Memory!Bodies(memory, t))
<1>1. ASSUME MemoryInv, Memory!Next, by' = "filed", memoryMtime' /= memoryMtime, memory.head
      PROVE  \E t \in Titles : FiledOnly(memory, memory', t, writes')
  <2>1. /\ memory \in MemoryT /\ writes \in 0 .. MaxWrites /\ MaxWrites \in Nat
    BY <1>1, MemoryAssumption DEF MemoryInv, MemoryTypes
  <2>2. ~ \/ \E w \in Wings : Memory!WriteBootWing(w)
          \/ \E t \in Titles, a \in BOOLEAN : Memory!WriteBootMemory(t, a)
          \/ Memory!ClearProfileMemory \/ Memory!Outside
    BY <1>1 DEF Memory!WriteBootWing, Memory!WriteBootMemory, Memory!ClearProfileMemory,
                Memory!Outside, Memory!Wrote
  <2>3. ~ (Memory!Stat \/ Memory!GetCachedBootBlock \/ Memory!Restart)
    BY <1>1 DEF Memory!Stat, Memory!GetCachedBootBlock, Memory!Restart, Memory!files
  <2>4. PICK t \in Titles : Memory!FileMemory(t)
    BY <1>1, <2>2, <2>3 DEF Memory!Next
  <2>5. memory' = Memory!Upsert(memory, t, writes + 1) /\ writes' = writes + 1 /\ writes < MaxWrites
    BY <2>4 DEF Memory!FileMemory, Memory!MemoryWrite, Memory!Wrote
  <2>6. writes + 1 \in 1 .. MaxWrites
    BY <2>1, <2>5
  <2> QED BY <1>1, <2>1, <2>5, <2>6, UpsertFilesOnly
<1>2. MemoryInv /\ [Next]_vars => [Filed]_(Memory!vars)
  BY <1>1, MemorySteps, Zenon DEF FiledOnly
<1>3. Spec => [][Filed]_(Memory!vars)
  BY <1>2, MemoryHolds, PTL DEF Spec
<1> QED BY <1>3 DEF MemoryFilingTouchesOne, Memory!FilingTouchesOne

-----------------------------------------------------------------------------
(* The steps of all of them.                                               *)

(* What a step of the tools may never do: run a call that was denied, let a*)
(* write begin on a file that changed unseen, touch a memory it does not   *)
(* file, serve a page past its time, or evict the page used last.          *)
THEOREM StepsKeepHolds == Spec => StepsKeep
BY DeniedStaysHolds, FileWarnsWhenChangedHolds, MemoryFilingTouchesOneHolds, WebCachedIsFreshHolds,
   WebLastUsedStaysHolds, Zenon DEF StepsKeep
=============================================================================
