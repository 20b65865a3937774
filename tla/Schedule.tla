------------------------------ MODULE Schedule ------------------------------
(***************************************************************************)
(* schedule_task: recurring reminders in the user's crontab, which every   *)
(* call reads, changes and installs whole, with an await between, and      *)
(* one-shot reminders, which are detached "sleep && resume" processes. The *)
(* daemon runs as the user's systemd unit or was started by a CLI: what the *)
(* unit's daemon starts is in the unit's control group and, for the unit   *)
(* sets no KillMode, ends with it; detaching does not leave the group.     *)
(* The crontab also holds the user's own lines, and the user edits it.     *)
(* A crontab line is an entry, a CRON_TZ or a comment; a CRON_TZ holds for *)
(* the entries below it.                                                   *)
(***************************************************************************)
EXTENDS Naturals, Sequences, SequencesExt, FiniteSets

CONSTANTS
    Calls,      \* calls of the tool, of any session
    OneShots,   \* one-shot reminders
    MaxJobs,    \* recurring jobs ever added (bound)
    MaxEdits    \* edits of the crontab by the user (bound)

User == 0       \* the owner of the user's own lines
Line(kind, of) == [kind |-> kind, of |-> of]
Own == <<Line("comment", User), Line("job", User)>>
NoCall == [action |-> "none", held |-> <<>>, index |-> 0]

VARIABLES
    crontab,    \* its lines
    call,       \* what each call is doing: the action and the lines it read
    jobs,       \* recurring jobs whose addition was begun
    said,       \* history: jobs "added" and since then not "removed"
    raced,      \* history: a crontab was installed over one that had changed
    shots,      \* of each one-shot: "none", "sleeping" or, in the unit's group, "grouped",
                \* then "fired", "gone" with the machine or "killed" with the group
    notes,      \* history: comments the user ever wrote
    edits, boots

vars == <<crontab, call, jobs, said, raced, shots, notes, edits, boots>>

JobLines(tab) == {i \in DOMAIN tab : tab[i].kind = "job"}
JobsIn(tab) == {tab[i].of : i \in JobLines(tab)} \ {User}
\* The line list gives this number: it counts neither blank lines nor comments
\* nor CRON_TZ
Numbered(tab, index) ==
    {i \in JobLines(tab) : Cardinality({k \in JobLines(tab) : k <= i}) = index}

Init == /\ crontab \in {<<>>, Own}
        /\ call = [c \in Calls |-> NoCall]
        /\ jobs = 0 /\ said = {} /\ raced = FALSE
        /\ shots = [s \in OneShots |-> "none"]
        /\ notes = Len(crontab) \div 2 /\ edits = 0 /\ boots = 0

\* add or remove: crontab -l; a user without a crontab has an empty one
Reads(c) ==
    /\ call[c].action = "none"
    /\ \/ call' = [call EXCEPT ![c] = [action |-> "add", held |-> crontab, index |-> 0]]
       \/ \E i \in 1..(2 * MaxJobs) :
             call' = [call EXCEPT ![c] = [action |-> "remove", held |-> crontab, index |-> i]]
    /\ UNCHANGED <<crontab, jobs, said, raced, shots, notes, edits, boots>>

\* crontab <file>
Installs(c, tab) ==
    /\ crontab' = tab
    /\ raced' = (raced \/ crontab # call[c].held)
    /\ call' = [call EXCEPT ![c] = NoCall]

Adds(c) ==
    /\ call[c].action = "add" /\ jobs < MaxJobs
    /\ jobs' = jobs + 1
    /\ Installs(c, call[c].held \o <<Line("tz", jobs + 1), Line("job", jobs + 1)>>)
    /\ said' = said \cup {jobs + 1}
    /\ UNCHANGED <<shots, notes, edits, boots>>

\* The crontab program refuses the file: the tool throws
Refused(c) ==
    /\ call[c].action = "add"
    /\ call' = [call EXCEPT ![c] = NoCall]
    /\ UNCHANGED <<crontab, jobs, said, raced, shots, notes, edits, boots>>

\* Seeded bug: the line before the job always goes with it.
RemovedBoth(tab, at) == SubSeq(tab, 1, at - 2) \o SubSeq(tab, at + 1, Len(tab))

\* Seeded bug: the zone of a removed job stays.
RemovedJob(tab, at) == RemoveAt(tab, at)

\* The line, and the CRON_TZ right before it
RemovedAt(tab, at) ==
    IF at > 1 /\ tab[at - 1].kind = "tz"
    THEN SubSeq(tab, 1, at - 2) \o SubSeq(tab, at + 1, Len(tab))
    ELSE RemoveAt(tab, at)

\* job_index counts the jobs of the crontab as it is now
Removes(c) ==
    /\ call[c].action = "remove"
    /\ LET tab == call[c].held
           lines == Numbered(tab, call[c].index)
       IN \/ /\ lines = {}
             /\ call' = [call EXCEPT ![c] = NoCall]
             /\ UNCHANGED <<crontab, raced, said>>
          \/ \E at \in lines :
                /\ Installs(c, RemovedAt(tab, at))
                /\ said' = said \ {tab[at].of}
    /\ UNCHANGED <<jobs, shots, notes, edits, boots>>

\* crontab -e: a line of the user's own
Edits ==
    /\ edits < MaxEdits
    /\ edits' = edits + 1
    /\ \E l \in {"job", "comment"} :
          /\ crontab' = Append(crontab, Line(l, User))
          /\ notes' = IF l = "comment" THEN notes + 1 ELSE notes
    /\ UNCHANGED <<call, jobs, said, raced, shots, boots>>

\* delay_seconds, at, time: spawn("bash -c 'sleep …'") detached and unref'd.  The
\* daemon is the unit's or not; it is if one of the unit's sleepers still runs
Sleeps(s) ==
    /\ shots[s] = "none"
    /\ \E as \in {"sleeping", "grouped"} :
          /\ (\E q \in OneShots : shots[q] = "grouped") => as = "grouped"
          /\ shots' = [shots EXCEPT ![s] = as]
    /\ UNCHANGED <<crontab, call, jobs, said, raced, notes, edits, boots>>

Pending(s) == shots[s] \in {"sleeping", "grouped"}

Fires(s) == /\ Pending(s)
            /\ shots' = [shots EXCEPT ![s] = "fired"]
            /\ UNCHANGED <<crontab, call, jobs, said, raced, notes, edits, boots>>

\* Seeded bug: the sleeping processes end with the daemon.
Attached(s) == "gone"

\* A detached process outlives the daemon, but not the control group of the unit
Detached(s) == IF shots[s] = "grouped" THEN "killed" ELSE shots[s]

\* The daemon restarts: calls are cut off.  The machine
\* boots: so are the sleepers
RestartOrBoot ==
    /\ call' = [c \in Calls |-> NoCall]
    /\ \/ /\ boots' = boots
          /\ shots' = [s \in OneShots |-> IF Pending(s) THEN Detached(s) ELSE shots[s]]
       \/ /\ boots < 1 /\ boots' = boots + 1
          /\ shots' = [s \in OneShots |-> IF Pending(s) THEN "gone" ELSE shots[s]]
    /\ UNCHANGED <<crontab, jobs, said, raced, notes, edits>>

Next ==
    \/ Edits \/ RestartOrBoot
    \/ \E c \in Calls : Reads(c) \/ Adds(c) \/ Refused(c) \/ Removes(c)
    \/ \E s \in OneShots : Sleeps(s) \/ Fires(s)

\* Time passes for every sleeper
Spec == Init /\ [][Next]_vars /\ \A s \in OneShots : WF_vars(Fires(s))

(***************************************************************************)
(* Properties                                                              *)
(***************************************************************************)
\* The lines, the calls and the reminders are of their kinds.
TypeOK ==
    /\ crontab \in Seq([kind : {"job", "tz", "comment"}, of : 0..MaxJobs])
    /\ \A c \in Calls : call[c].action \in {"none", "add", "remove"}
    /\ said \subseteq 1..jobs /\ raced \in BOOLEAN
    /\ \A s \in OneShots : shots[s] \in {"none", "sleeping", "grouped", "fired", "gone", "killed"}

\* Whatever is added and removed by index, between lines of the user's own, a
\* job of the tool runs in the time zone it was added with, and no zone is left
\* behind that would shift a job below it.
OwnZone ==
    /\ \A i \in DOMAIN crontab :
          crontab[i].kind = "job" /\ crontab[i].of # User =>
             i > 1 /\ crontab[i - 1] = Line("tz", crontab[i].of)
    /\ \A i \in DOMAIN crontab :
          crontab[i].kind = "tz" =>
             i < Len(crontab) /\ crontab[i + 1] = Line("job", crontab[i].of)

\* What was said to be added is in the crontab until it is said to be removed,
\* and the user's comments stay, unless two writers read the same crontab.
SaidIsThere ==
    \/ raced
    \/ /\ said = JobsIn(crontab)
       /\ notes = Cardinality({i \in DOMAIN crontab : crontab[i].kind = "comment"})

\* A one-shot reminder fires, even when a daemon outside the unit restarts while
\* it sleeps, unless the machine booted or the group it was started in was killed
\* with the unit's daemon.
ShotsFire ==
    \A s \in OneShots :
       /\ shots[s] = "sleeping" ~> shots[s] = "fired" \/ boots > 0
       /\ shots[s] = "grouped" ~> shots[s] \in {"fired", "killed"} \/ boots > 0

\* "One-shot reminder scheduled for ..." is said of every one (shell.ts), but a
\* restart of the unit ends its sleepers without a word.  Does not hold.
ShotsFireAlways == \A s \in OneShots : Pending(s) ~> shots[s] = "fired" \/ boots > 0
=============================================================================
