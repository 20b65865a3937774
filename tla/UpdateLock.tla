------------------------------ MODULE UpdateLock ------------------------------
(***************************************************************************)
(* The /update command: the lock file run/update.lock that keeps processes *)
(* of one installation from updating together (src/core/runtime/           *)
(* updateLock.ts) and what a holder does to the checkout                   *)
(* (MonolitoV2Runtime.runUpdate).                                          *)
(*                                                                         *)
(* A CALL is one run of runUpdate.  acquireUpdateLock is synchronous: the  *)
(* calls of one process never interleave inside it, those of different     *)
(* processes do between any two system calls.  pc[c] is what c does next:  *)
(*   "idle", "open", "write", "read", "judge", "unlink"  acquireUpdateLock *)
(*   "fetch", "compare", "reset", "clean", "install", "check", "release"   *)
(*   "done", "lost" (its process died)                                     *)
(* The lock file is named by the call that created it, for a call creates  *)
(* one at most: `lock` is the file at the path, `written` the files whose  *)
(* content arrived (writeFileSync comes after openSync has made the file   *)
(* visible, and writes to the descriptor even when the path is gone).      *)
(* System calls on the lock that fail for other reasons are left out.      *)
(***************************************************************************)
EXTENDS Naturals, FiniteSets

CONSTANTS
  Calls,        \* identities of the runs of /update
  Procs,        \* pids of daemons of this installation
  None,
  MaxPushes,    \* bound on the commits that appear on origin/main
  MaxCrashes,   \* bound on the processes that die
  Worked        \* whether somebody commits in the checkout

ASSUME CallsAssumption == IsFiniteSet(Calls)
ASSUME NoneAssumption == None \notin Calls \cup Procs
ASSUME BoundsAssumption == MaxPushes \in Nat /\ MaxCrashes \in Nat
ASSUME WorkedAssumption == Worked \in BOOLEAN

\* Mutant of Attempts: no retry after an abandoned lock is removed.
SingleAttempt == 1

Attempts == 2

VARIABLES
  pc,
  proc,       \* the process of a call
  attempt,    \* iterations of the loop that are spent
  seen,       \* the lock a call has read, None when missing or not JSON
  answer,     \* what the user was told
  lock, written,
  aged,       \* locks whose startedAt is 30 minutes ago or more
  alive,      \* pids that process.kill(pid, 0) finds
  crashes,
  mistaken,   \* history: an acquisition unlinked a lock it had not read
  origin,     \* commits on the remote's main branch
  tracked,    \* commits on origin/main as last fetched
  base,       \* commits of it that the checkout's HEAD contains
  deps,       \* the base that npm install last ran on
  local       \* commits of the checkout that are not on origin/main

lockVars == <<attempt, seen, lock, written, mistaken>>
repoVars == <<tracked, base, deps, local>>
world    == <<alive, crashes, aged, origin>>
vars == <<pc, proc, answer, lockVars, repoVars, world>>

Acquiring == {"open", "write", "read", "judge", "unlink"}
Updating  == {"fetch", "compare", "reset", "clean", "install", "check", "release"}
Holding   == Updating \cup {"write"}
PCs == Acquiring \cup Updating \cup {"idle", "done", "lost"}

Answers == {"busy", "wedged", "failed", "ahead", "diverged", "latest", "restarting"}

ASSUME AnswersAssumption == None \notin Answers

TypeOK ==
  /\ pc \in [Calls -> PCs]
  /\ proc \in [Calls -> Procs \cup {None}]
  /\ attempt \in [Calls -> 0 .. Attempts]
  /\ seen \in [Calls -> Calls \cup {None}]
  /\ answer \in [Calls -> Answers \cup {None}]
  /\ lock \in Calls \cup {None}
  /\ written \subseteq Calls
  /\ aged \subseteq Calls
  /\ alive \in [Procs -> BOOLEAN]
  /\ crashes \in 0 .. MaxCrashes
  /\ mistaken \in BOOLEAN
  /\ {origin, tracked, base, deps} \subseteq 0 .. MaxPushes
  /\ local \in {"none", "made", "late", "lost"}

Init ==
  /\ pc = [c \in Calls |-> "idle"]
  /\ proc = [c \in Calls |-> None]
  /\ attempt = [c \in Calls |-> 0]
  /\ seen = [c \in Calls |-> None]
  /\ answer = [c \in Calls |-> None]
  /\ lock = None /\ written = {} /\ aged = {}
  /\ alive = [p \in Procs |-> TRUE]
  /\ crashes = 0
  /\ mistaken = FALSE
  /\ origin = 0 /\ tracked = 0 /\ base = 0 /\ deps = 0
  /\ local = "none"

Moves(c, from, to) == pc[c] = from /\ pc' = [pc EXCEPT ![c] = to]
Tells(c, a) == answer' = [answer EXCEPT ![c] = a]

-----------------------------------------------------------------------------
(* acquireUpdateLock.                                                      *)

\* The process runs no other call inside the synchronous acquisition.
Free(p) == \A c \in Calls : proc[c] = p => pc[c] \notin Acquiring

Start(c, p) ==
  /\ alive[p] /\ Free(p)
  /\ Moves(c, "idle", "open")
  /\ proc' = [proc EXCEPT ![c] = p]
  /\ UNCHANGED <<answer, lockVars, repoVars, world>>

\* openSync(path, "wx") creates the file: it exists, and is empty.
Create(c) ==
  /\ lock = None
  /\ Moves(c, "open", "write")
  /\ lock' = c
  /\ UNCHANGED <<proc, answer, attempt, seen, written, mistaken, repoVars, world>>

\* ... or fails because somebody's file is there.
Exists(c) ==
  /\ lock # None
  /\ Moves(c, "open", "read")
  /\ UNCHANGED <<proc, answer, lockVars, repoVars, world>>

Write(c) ==
  /\ Moves(c, "write", "fetch")
  /\ written' = written \cup {c}
  /\ UNCHANGED <<proc, answer, attempt, seen, lock, mistaken, repoVars, world>>

\* readUpdateLockMetadata: null for a file that is gone or still empty.
Metadata == IF lock \in written THEN lock ELSE None

Read(c) ==
  /\ Moves(c, "read", IF Metadata = None THEN "unlink" ELSE "judge")
  /\ seen' = [seen EXCEPT ![c] = Metadata]
  /\ UNCHANGED <<proc, answer, attempt, lock, written, mistaken, repoVars, world>>

\* Mutant of Refuses: the comparison of the age is the wrong way round.
RefusesOld(d) == alive[proc[d]] /\ d \in aged

\* A lock refuses a call while its pid is alive and it is recent.
Refuses(d) == alive[proc[d]] /\ d \notin aged

Judge(c) ==
  /\ \/ Moves(c, "judge", "done") /\ Refuses(seen[c]) /\ Tells(c, "busy")
     \/ Moves(c, "judge", "unlink") /\ ~Refuses(seen[c]) /\ UNCHANGED answer
  /\ UNCHANGED <<proc, lockVars, repoVars, world>>

\* Mutant of Unlink: the loop and its body both count the attempt.
UnlinkTwice(c) ==
  /\ attempt' = [attempt EXCEPT ![c] = @ + 2]
  /\ lock' = None
  /\ mistaken' = (mistaken \/ lock \notin {None, seen[c]})
  /\ \/ attempt[c] + 1 < Attempts /\ Moves(c, "unlink", "open") /\ UNCHANGED answer
     \/ attempt[c] + 1 >= Attempts /\ Moves(c, "unlink", "done") /\ Tells(c, "wedged")
  /\ UNCHANGED <<proc, seen, written, repoVars, world>>

\* unlinkSync takes whatever file the path names by now.
Unlink(c) ==
  /\ attempt' = [attempt EXCEPT ![c] = @ + 1]
  /\ lock' = None
  /\ mistaken' = (mistaken \/ lock \notin {None, seen[c]})
  /\ \/ attempt[c] + 1 < Attempts /\ Moves(c, "unlink", "open") /\ UNCHANGED answer
     \/ attempt[c] + 1 >= Attempts /\ Moves(c, "unlink", "done") /\ Tells(c, "wedged")
  /\ UNCHANGED <<proc, seen, written, repoVars, world>>

Acquire(c) ==
  Create(c) \/ Exists(c) \/ Write(c) \/ Read(c) \/ Judge(c) \/ Unlink(c)

-----------------------------------------------------------------------------
(* runUpdate, once it has the lock: one action per command it awaits.      *)

\* Every command may fail or time out: the catch block answers.
Fail(c) ==
  /\ pc[c] \in Updating \ {"release"}
  /\ pc' = [pc EXCEPT ![c] = "release"]
  /\ Tells(c, "failed")
  /\ UNCHANGED <<proc, lockVars, repoVars, world>>

Fetch(c) ==
  /\ Moves(c, "fetch", "compare")
  /\ tracked' = origin
  /\ UNCHANGED <<proc, answer, lockVars, base, deps, local, world>>

\* git rev-list --left-right --count origin/main...HEAD
Behind == base < tracked

\* Mutant of Ahead: a diverged checkout is taken for one that is behind.
AheadOnly == local # "none" /\ ~Behind

Ahead  == local # "none"

\* Mutant of Compare: its early answers leave without the finally block.
CompareReturns(c) ==
  /\ \/ Ahead /\ Tells(c, "ahead") /\ Moves(c, "compare", "done")
     \/ ~Ahead /\ ~Behind /\ Tells(c, "latest") /\ Moves(c, "compare", "done")
     \/ ~Ahead /\ Behind /\ Moves(c, "compare", "reset") /\ UNCHANGED answer
  /\ UNCHANGED <<proc, lockVars, repoVars, world>>

Compare(c) ==
  /\ \/ Ahead /\ ~Behind /\ Tells(c, "ahead") /\ Moves(c, "compare", "release")
     \/ Ahead /\ Behind /\ Tells(c, "diverged") /\ Moves(c, "compare", "release")
     \/ ~Ahead /\ ~Behind /\ Tells(c, "latest") /\ Moves(c, "compare", "release")
     \/ ~Ahead /\ Behind /\ Moves(c, "compare", "reset") /\ UNCHANGED answer
  /\ UNCHANGED <<proc, lockVars, repoVars, world>>

\* git reset --hard origin/main: a "late" commit, made since the comparison,
\* goes unnoticed.
Reset(c) ==
  /\ Moves(c, "reset", "clean")
  /\ base' = tracked
  /\ local' = IF local = "made" THEN "lost" ELSE "none"
  /\ UNCHANGED <<proc, answer, lockVars, tracked, deps, world>>

\* git clean -fd
Clean(c) ==
  /\ Moves(c, "clean", "install")
  /\ UNCHANGED <<proc, answer, lockVars, repoVars, world>>

\* Mutant of Install: npm leaves what is installed.
InstallNothing(c) ==
  /\ Moves(c, "install", "check")
  /\ UNCHANGED <<proc, answer, lockVars, repoVars, world>>

\* npm install
Install(c) ==
  /\ Moves(c, "install", "check")
  /\ deps' = base
  /\ UNCHANGED <<proc, answer, lockVars, tracked, base, local, world>>

\* tsc --noEmit, then restartRequested
Check(c) ==
  /\ Moves(c, "check", "release")
  /\ Tells(c, "restarting")
  /\ UNCHANGED <<proc, lockVars, repoVars, world>>

\* The finally block: release unlinks the path, whosever file it is.
Release(c) ==
  /\ Moves(c, "release", "done")
  /\ lock' = None
  /\ UNCHANGED <<proc, answer, attempt, seen, written, mistaken, repoVars, world>>

Update(c) ==
  \/ Fail(c) \/ Fetch(c) \/ Compare(c) \/ Reset(c)
  \/ Clean(c) \/ Install(c) \/ Check(c) \/ Release(c)

-----------------------------------------------------------------------------
(* The world: processes, time, the remote, and the owner of the checkout.  *)

\* The process dies; its calls leave everything as it is.
Crash(p) ==
  /\ alive[p] /\ crashes < MaxCrashes
  /\ crashes' = crashes + 1
  /\ alive' = [alive EXCEPT ![p] = FALSE]
  /\ pc' = [c \in Calls |->
       IF proc[c] = p /\ pc[c] \notin {"idle", "done"} THEN "lost" ELSE pc[c]]
  /\ UNCHANGED <<proc, answer, lockVars, repoVars, aged, origin>>

\* A process gets the pid of one that died: a daemon, or any program.
Reuse(p) ==
  /\ ~alive[p]
  /\ alive' = [alive EXCEPT ![p] = TRUE]
  /\ UNCHANGED <<pc, proc, answer, lockVars, repoVars, crashes, aged, origin>>

\* Half an hour passes.  The time limits of its commands end an update within
\* five minutes, and an acquisition takes no time, so neither lasts that long.
Age(c) ==
  /\ pc[c] \in {"done", "lost"}
  /\ \A d \in Calls : pc[d] = "judge" => seen[d] # c
  /\ aged' = aged \cup {c}
  /\ UNCHANGED <<pc, proc, answer, lockVars, repoVars, alive, crashes, origin>>

Push ==
  /\ origin < MaxPushes
  /\ origin' = origin + 1
  /\ UNCHANGED <<pc, proc, answer, lockVars, repoVars, alive, crashes, aged>>

\* Somebody works in the checkout.
Commit ==
  /\ Worked /\ local = "none"
  /\ local' = IF \E c \in Calls : pc[c] = "reset" THEN "late" ELSE "made"
  /\ UNCHANGED <<pc, proc, answer, lockVars, tracked, base, deps, world>>

Next ==
  \/ \E c \in Calls : Acquire(c) \/ Update(c) \/ Age(c)
  \/ \E c \in Calls, p \in Procs : Start(c, p)
  \/ \E p \in Procs : Crash(p) \/ Reuse(p)
  \/ Push \/ Commit

Spec == Init /\ [][Next]_vars

-----------------------------------------------------------------------------
(* Properties.                                                             *)

InUpdate == {c \in Calls : pc[c] \in Updating}

\* The contract of updateLock.ts: at most one call is between a successful
\* acquireUpdateLock and its release.
Exclusive == \A c, d \in InUpdate : c = d

\* The only way to two updates at once is an acquisition that unlinks a lock
\* other than the one it found corrupt or stale: neither a crash, nor a reused
\* pid, nor the unconditional unlink of release breaks exclusion by itself.
ExclusiveUnlessMistaken == ~mistaken => Exclusive

\* Every way out of runUpdate releases: a lock file whose creator is neither
\* acquiring nor updating was left by a process that died.
NoLockLeftBehind == lock # None => pc[lock] \in Holding \cup {"lost"}

\* A call gives up only after it met two files in the way, one of them made by
\* a rival during its acquisition: alone it gets past an abandoned lock.
WedgedOnlyByRivals ==
  \A c \in Calls : answer[c] = "wedged" =>
    Cardinality({d \in Calls \ {c} : pc[d] # "idle"}) >= 2

\* A commit that the checkout had when it was compared with origin/main
\* survives every update, however the updates interleave.
CommitsKept == local # "lost"

\* With exclusion, what an update asks a restart for is installed: the
\* dependencies are those of the checkout's HEAD.
RestartsInstalled ==
  ~mistaken => \A c \in Calls :
    pc[c] = "release" /\ answer[c] = "restarting" => deps = base

=============================================================================
