------------------------ MODULE Installation_proofs ------------------------
(***************************************************************************)
(* Proofs about the two protocols in which processes of one installation   *)
(* share files: UpdateLock, for any number of calls, processes, crashes    *)
(* and pushed commits (types, exclusion, who gives up, no leaked lock      *)
(* file, no lost commit); and DaemonOwnership, for any number of processes *)
(* (types, and that a settled daemon is left alone).                       *)
(***************************************************************************)
EXTENDS UpdateLock, DaemonOwnership, FiniteSetTheorems, TLAPS

\* The loop of acquireUpdateLock never exceeds its attempts.
AttemptInv ==
  \A c \in Calls :
    /\ pc[c] = "idle" => attempt[c] = 0
    /\ pc[c] \in Acquiring => attempt[c] < Attempts
    /\ pc[c] = "judge" => seen[c] \in Calls

\* A running call has a process that is alive; an aged lock's call has ended.
LifeInv ==
  /\ \A c \in Calls : pc[c] \in Acquiring \cup Holding => 
       proc[c] \in Procs /\ alive[proc[c]]
  /\ \A c \in aged : pc[c] \in {"done", "lost"}

\* Lock files, and what is read of them, come from calls that have started.
StartedInv ==
  /\ \A c \in written : pc[c] # "idle"
  /\ \A c \in Calls : seen[c] # None => pc[seen[c]] # "idle"

\* A call that is about to unlink a lock it has read knows that the lock's
\* creator has ended.
JudgedInv ==
  \A c \in Calls : pc[c] = "unlink" /\ seen[c] # None =>
    pc[seen[c]] \in {"done", "lost"}

\* Unless somebody unlinked the wrong file, a holder's file is at the path.
HolderInv ==
  ~mistaken => \A c \in Calls : pc[c] \in Holding => lock = c

IInv == TypeOK /\ AttemptInv /\ LifeInv /\ StartedInv /\ JudgedInv /\ HolderInv

USE DEF Moves, Tells, Acquiring, Updating, Holding

\* The types and the attempts, initially.
LEMMA TypeInit == Init => TypeOK /\ AttemptInv
<1> SUFFICES ASSUME Init PROVE TypeOK /\ AttemptInv
  OBVIOUS
<1> USE BoundsAssumption DEF Init
<1>1. TypeOK
  <2>1. pc \in [Calls -> PCs] /\ proc \in [Calls -> Procs \cup {None}]
    BY DEF PCs
  <2>2. attempt \in [Calls -> 0 .. Attempts] /\ seen \in [Calls -> Calls \cup {None}]
    BY DEF Attempts
  <2>3. answer \in [Calls -> Answers \cup {None}] /\ alive \in [Procs -> BOOLEAN]
    OBVIOUS
  <2>4. {origin, tracked, base, deps} \subseteq 0 .. MaxPushes /\ crashes \in 0 .. MaxCrashes
    OBVIOUS
  <2>5. lock \in Calls \cup {None} /\ written \subseteq Calls /\ aged \subseteq Calls
    OBVIOUS
  <2> QED BY <2>1, <2>2, <2>3, <2>4, <2>5 DEF TypeOK
<1>2. AttemptInv
  BY DEF AttemptInv, Attempts
<1> QED BY <1>1, <1>2

\* Every step keeps the types; the attempts bound the loop's counter.
LEMMA TypeNext == TypeOK /\ AttemptInv /\ [Next]_vars => TypeOK' /\ AttemptInv'
<1> SUFFICES ASSUME TypeOK, AttemptInv, [Next]_vars PROVE TypeOK' /\ AttemptInv'
  OBVIOUS
<1> USE NoneAssumption, BoundsAssumption DEF TypeOK, AttemptInv, PCs, Answers, Attempts,
      lockVars, repoVars, world
<1>1. ASSUME NEW c \in Calls, Acquire(c) PROVE TypeOK' /\ AttemptInv'
  <2>1. CASE Create(c)
    BY <2>1 DEF Create
  <2>2. CASE Exists(c)
    BY <2>2 DEF Exists
  <2>3. CASE Write(c)
    BY <2>3 DEF Write
  <2>4. CASE Read(c)
    BY <2>4 DEF Read, Metadata
  <2>5. CASE Judge(c)
    BY <2>5 DEF Judge
  <2>6. CASE Unlink(c)
    BY <2>6 DEF Unlink
  <2> QED BY <1>1, <2>1, <2>2, <2>3, <2>4, <2>5, <2>6 DEF Acquire
<1>2. ASSUME NEW c \in Calls, Update(c) PROVE TypeOK' /\ AttemptInv'
  <2>1. CASE Fail(c)
    BY <2>1 DEF Fail
  <2>2. CASE Fetch(c)
    BY <2>2 DEF Fetch
  <2>3. CASE Compare(c)
    BY <2>3 DEF Compare
  <2>4. CASE Reset(c)
    BY <2>4 DEF Reset
  <2>5. CASE Clean(c)
    BY <2>5 DEF Clean
  <2>6. CASE Install(c)
    BY <2>6 DEF Install
  <2>7. CASE Check(c)
    BY <2>7 DEF Check
  <2>8. CASE Release(c)
    BY <2>8 DEF Release
  <2> QED BY <1>2, <2>1, <2>2, <2>3, <2>4, <2>5, <2>6, <2>7, <2>8 DEF Update
<1>3. ASSUME NEW c \in Calls, Age(c) PROVE TypeOK' /\ AttemptInv'
  BY <1>3 DEF Age
<1>4. ASSUME NEW c \in Calls, NEW p \in Procs, Start(c, p) PROVE TypeOK' /\ AttemptInv'
  BY <1>4 DEF Start
<1>5. ASSUME NEW p \in Procs, Crash(p) PROVE TypeOK' /\ AttemptInv'
  BY <1>5 DEF Crash
<1>6. ASSUME NEW p \in Procs, Reuse(p) PROVE TypeOK' /\ AttemptInv'
  BY <1>6 DEF Reuse
<1>7. CASE Push
  BY <1>7 DEF Push
<1>8. CASE Commit
  BY <1>8 DEF Commit
<1>9. CASE UNCHANGED vars
  BY <1>9 DEF vars
<1> QED BY <1>1, <1>2, <1>3, <1>4, <1>5, <1>6, <1>7, <1>8, <1>9 DEF Next

\* The variables keep their types, for every set of calls and processes and
\* every bound.
THEOREM TypeCorrect == Spec => []TypeOK
<1>1. TypeOK /\ AttemptInv /\ [Next]_vars => TypeOK' /\ AttemptInv'
  BY TypeNext
<1> QED BY <1>1, TypeInit, PTL DEF Spec

-----------------------------------------------------------------------------
(* Exclusion.                                                              *)

\* The inductive invariant, initially.
LEMMA InvInit == Init => IInv
<1> SUFFICES ASSUME Init PROVE IInv
  OBVIOUS
<1>1. TypeOK /\ AttemptInv
  BY TypeInit
<1>2. LifeInv /\ StartedInv /\ JudgedInv /\ HolderInv
  BY DEF Init, LifeInv, StartedInv, JudgedInv, HolderInv
<1> QED BY <1>1, <1>2 DEF IInv

\* Every step keeps the invariant.
LEMMA InvNext == IInv /\ [Next]_vars => IInv'
<1> DEFINE Rest == LifeInv /\ StartedInv /\ JudgedInv /\ HolderInv
<1> SUFFICES ASSUME IInv, [Next]_vars PROVE IInv'
  OBVIOUS
<1>0. TypeOK' /\ AttemptInv'
  BY TypeNext DEF IInv
<1> SUFFICES Rest'
  BY <1>0 DEF IInv
<1> USE NoneAssumption
      DEF IInv, TypeOK, LifeInv, StartedInv, JudgedInv, HolderInv, lockVars, repoVars, world
<1>1. ASSUME NEW c \in Calls, Acquire(c) PROVE Rest'
  <2>1. CASE Create(c)
    BY <2>1 DEF Create
  <2>2. CASE Exists(c)
    BY <2>2 DEF Exists
  <2>3. CASE Write(c)
    BY <2>3 DEF Write
  <2>4. CASE Read(c)
    BY <2>4 DEF Read, Metadata
  <2>5. CASE Judge(c)
    <3>1. seen[c] \in Calls
      BY <2>5 DEF Judge, AttemptInv
    <3>2. LifeInv' /\ StartedInv' /\ HolderInv'
      BY <2>5 DEF Judge
    <3>3. ~Refuses(seen[c]) => pc[seen[c]] \in {"done", "lost"}
      BY <3>1, NoneAssumption DEF Refuses, PCs
    <3>4. JudgedInv'
      BY <2>5, <3>1, <3>3 DEF Judge
    <3> QED BY <3>2, <3>4
  <2>6. CASE Unlink(c)
    <3>1. LifeInv' /\ StartedInv' /\ JudgedInv'
      BY <2>6 DEF Unlink
    <3>2. HolderInv'
      BY <2>6 DEF Unlink
    <3> QED BY <3>1, <3>2
  <2> QED BY <1>1, <2>1, <2>2, <2>3, <2>4, <2>5, <2>6 DEF Acquire
<1>2. ASSUME NEW c \in Calls, Update(c) PROVE Rest'
  <2>1. CASE Fail(c)
    BY <2>1 DEF Fail
  <2>2. CASE Fetch(c)
    BY <2>2 DEF Fetch
  <2>3. CASE Compare(c)
    BY <2>3 DEF Compare
  <2>4. CASE Reset(c)
    BY <2>4 DEF Reset
  <2>5. CASE Clean(c)
    BY <2>5 DEF Clean
  <2>6. CASE Install(c)
    BY <2>6 DEF Install
  <2>7. CASE Check(c)
    BY <2>7 DEF Check
  <2>8. CASE Release(c)
    BY <2>8 DEF Release
  <2> QED BY <1>2, <2>1, <2>2, <2>3, <2>4, <2>5, <2>6, <2>7, <2>8 DEF Update
<1>3. ASSUME NEW c \in Calls, Age(c) PROVE Rest'
  BY <1>3 DEF Age
<1>4. ASSUME NEW c \in Calls, NEW p \in Procs, Start(c, p) PROVE Rest'
  BY <1>4 DEF Start
<1>5. ASSUME NEW p \in Procs, Crash(p) PROVE Rest'
  BY <1>5 DEF Crash
<1>6. ASSUME NEW p \in Procs, Reuse(p) PROVE Rest'
  BY <1>6 DEF Reuse
<1>7. CASE Push
  BY <1>7 DEF Push
<1>8. CASE Commit
  BY <1>8 DEF Commit
<1>9. CASE UNCHANGED vars
  BY <1>9 DEF vars
<1> QED BY <1>1, <1>2, <1>3, <1>4, <1>5, <1>6, <1>7, <1>8, <1>9 DEF Next

\* Two updates at once need an acquisition that unlinked a lock it had not
\* read, for any number of calls, processes and crashes.
THEOREM ExclusionCorrect == Spec => []ExclusiveUnlessMistaken
<1>1. IInv => ExclusiveUnlessMistaken
  BY DEF IInv, HolderInv, ExclusiveUnlessMistaken, Exclusive, InUpdate
<1> QED BY <1>1, InvInit, InvNext, PTL DEF Spec

-----------------------------------------------------------------------------
(* No leaked lock file.                                                    *)

\* Whoever runs /update and returns, with whatever answer, leaves no lock.
THEOREM NothingLeftBehind == Spec => []NoLockLeftBehind
<1> DEFINE I == TypeOK /\ AttemptInv /\ NoLockLeftBehind
<1>1. Init => I
  <2>1. Init => NoLockLeftBehind
    BY DEF Init, NoLockLeftBehind
  <2> QED BY <2>1, TypeInit
<1>2. I /\ [Next]_vars => I'
  <2> SUFFICES ASSUME I, [Next]_vars PROVE NoLockLeftBehind'
    BY TypeNext
  <2> USE NoneAssumption DEF TypeOK, NoLockLeftBehind, lockVars, repoVars, world
  <2>1. ASSUME NEW c \in Calls, Acquire(c) PROVE NoLockLeftBehind'
    BY <2>1 DEF Acquire, Create, Exists, Write, Read, Judge, Unlink
  <2>2. ASSUME NEW c \in Calls, Update(c) PROVE NoLockLeftBehind'
    BY <2>2 DEF Update, Fail, Fetch, Compare, Reset, Clean, Install, Check, Release
  <2>3. ASSUME NEW c \in Calls, Age(c) PROVE NoLockLeftBehind'
    BY <2>3 DEF Age
  <2>4. ASSUME NEW c \in Calls, NEW p \in Procs, Start(c, p) PROVE NoLockLeftBehind'
    BY <2>4 DEF Start
  <2>5. ASSUME NEW p \in Procs, Crash(p) \/ Reuse(p) PROVE NoLockLeftBehind'
    BY <2>5 DEF Crash, Reuse
  <2>6. CASE Push \/ Commit \/ UNCHANGED vars
    BY <2>6 DEF Push, Commit, vars
  <2> QED BY <2>1, <2>2, <2>3, <2>4, <2>5, <2>6 DEF Next
<1> QED BY <1>1, <1>2, PTL DEF Spec

-----------------------------------------------------------------------------
(* No lost commit.                                                         *)

\* While a call is between its comparison and its reset, the checkout has no
\* commit that the comparison could have found.
ComparedInv ==
  /\ local # "lost"
  /\ (\E c \in Calls : pc[c] = "reset") => local # "made"

\* A commit made before the comparison survives, even when two updates
\* interleave: exclusion is not needed for it.
THEOREM CommitsCorrect == Spec => []CommitsKept
<1> DEFINE I == TypeOK /\ AttemptInv /\ ComparedInv
<1>1. Init => I
  <2>1. Init => ComparedInv
    BY DEF Init, ComparedInv
  <2> QED BY <2>1, TypeInit
<1>2. I /\ [Next]_vars => I'
  <2> SUFFICES ASSUME I, [Next]_vars PROVE ComparedInv'
    BY TypeNext
  <2> USE DEF TypeOK, ComparedInv, lockVars, repoVars, world
  <2>1. ASSUME NEW c \in Calls, Acquire(c) PROVE ComparedInv'
    BY <2>1 DEF Acquire, Create, Exists, Write, Read, Judge, Unlink
  <2>2. ASSUME NEW c \in Calls, Update(c) PROVE ComparedInv'
    BY <2>2 DEF Update, Fail, Fetch, Compare, Reset, Clean, Install, Check, Release, Ahead
  <2>3. ASSUME NEW c \in Calls, Age(c) PROVE ComparedInv'
    BY <2>3 DEF Age
  <2>4. ASSUME NEW c \in Calls, NEW p \in Procs, Start(c, p) PROVE ComparedInv'
    BY <2>4 DEF Start
  <2>5. ASSUME NEW p \in Procs, Crash(p) \/ Reuse(p) PROVE ComparedInv'
    BY <2>5 DEF Crash, Reuse
  <2>6. CASE Push \/ Commit \/ UNCHANGED vars
    BY <2>6 DEF Push, Commit, vars
  <2> QED BY <2>1, <2>2, <2>3, <2>4, <2>5, <2>6 DEF Next
<1>3. ComparedInv => CommitsKept
  BY DEF ComparedInv, CommitsKept
<1> QED BY <1>1, <1>2, <1>3, PTL DEF Spec

-----------------------------------------------------------------------------
(* What is restarted is installed.                                         *)

\* From its installation to its release an update finds its base installed.
InstalledInv ==
  ~mistaken => \A c \in Calls :
    pc[c] = "check" \/ (pc[c] = "release" /\ answer[c] = "restarting") => deps = base

\* With exclusion every step keeps InstalledInv: nobody else moves the base.
LEMMA InstalledNext ==
  TypeOK /\ ExclusiveUnlessMistaken /\ InstalledInv /\ [Next]_vars => InstalledInv'
<1> SUFFICES ASSUME TypeOK, ExclusiveUnlessMistaken, InstalledInv, [Next]_vars,
                    NEW c \in Calls, ~mistaken',
                    pc'[c] = "check" \/ (pc'[c] = "release" /\ answer'[c] = "restarting")
             PROVE  deps' = base'
  BY DEF InstalledInv
<1> USE DEF TypeOK, InstalledInv, Moves, Tells, lockVars, repoVars, world
<1>1. ASSUME NEW d \in Calls, Acquire(d) PROVE deps' = base'
  BY <1>1 DEF Acquire, Create, Exists, Write, Read, Judge, Unlink
<1>2. ASSUME NEW d \in Calls, Update(d) PROVE deps' = base'
  <2>1. CASE Reset(d)
    <3>1. pc[d] = "reset" /\ c # d /\ pc'[c] = pc[c]
      BY <2>1 DEF Reset
    <3>2. c \in InUpdate /\ d \in InUpdate
      BY <3>1 DEF InUpdate, Updating
    <3> QED BY <2>1, <3>1, <3>2 DEF ExclusiveUnlessMistaken, Exclusive, Reset
  <2>2. CASE Install(d)
    BY <2>2 DEF Install
  <2>3. CASE Fail(d) \/ Fetch(d) \/ Compare(d) \/ Clean(d) \/ Check(d) \/ Release(d)
    BY <2>3 DEF Fail, Fetch, Compare, Clean, Check, Release
  <2> QED BY <1>2, <2>1, <2>2, <2>3 DEF Update
<1>3. ASSUME NEW d \in Calls, Age(d) PROVE deps' = base'
  BY <1>3 DEF Age
<1>4. ASSUME NEW d \in Calls, NEW p \in Procs, Start(d, p) PROVE deps' = base'
  BY <1>4 DEF Start
<1>5. ASSUME NEW p \in Procs, Crash(p) \/ Reuse(p) PROVE deps' = base'
  BY <1>5 DEF Crash, Reuse
<1>6. CASE Push \/ Commit \/ UNCHANGED vars
  BY <1>6 DEF Push, Commit, vars
<1> QED BY <1>1, <1>2, <1>3, <1>4, <1>5, <1>6 DEF Next

\* What an update asks a restart for is installed.
THEOREM InstalledCorrect == Spec => []RestartsInstalled
<1>1. Init => InstalledInv
  BY DEF Init, InstalledInv
<1>2. InstalledInv => RestartsInstalled
  BY DEF InstalledInv, RestartsInstalled
<1> QED BY <1>1, <1>2, InstalledNext, TypeCorrect, ExclusionCorrect, PTL DEF Spec

-----------------------------------------------------------------------------
(* Who gives up.                                                           *)

\* A call that has created its lock file, or never will: the file at the path
\* is not going to be made by it any more.
Spent(d) == pc[d] \in Updating \cup {"write", "done", "lost"}

Rival(c)  == \E d \in Calls \ {c} : Spent(d)
Rivals(c) == \E d, e \in Calls \ {c} : d # e /\ Spent(d) /\ Spent(e)

\* A call meets one file per attempt, and the file of its second attempt was
\* made after it had unlinked that of the first.
Met(c) ==
  /\ pc[c] = "open" /\ attempt[c] # 0 =>
       \E d \in Calls \ {c} : Spent(d) /\ lock # d
  /\ pc[c] \in {"read", "judge", "unlink"} =>
       /\ Rival(c)
       /\ attempt[c] # 0 => Rivals(c)
  /\ answer[c] = "wedged" => Rivals(c)

MetInv == \A c \in Calls : Met(c)

LEMMA MetNext ==
  TypeOK /\ AttemptInv /\ NoLockLeftBehind /\ MetInv /\ [Next]_vars => MetInv'
<1> SUFFICES ASSUME TypeOK, AttemptInv, NoLockLeftBehind, MetInv, [Next]_vars
             PROVE  MetInv'
  OBVIOUS
<1> USE NoneAssumption, AnswersAssumption
<1>0. /\ pc \in [Calls -> PCs] /\ attempt \in [Calls -> 0 .. 2] /\ lock \in Calls \cup {None}
      /\ answer \in [Calls -> Answers \cup {None}]
      /\ \A c \in Calls : pc[c] \in Acquiring => attempt[c] < 2
      /\ \A c \in Calls : pc[c] = "idle" => attempt[c] = 0
  BY DEF TypeOK, AttemptInv, Attempts
\* Who is spent stays so and makes no lock: what a call met stays met.
<1> DEFINE Lasts == /\ \A d \in Calls : Spent(d) => Spent(d)'
                    /\ lock' \in {lock, None} \/ ~Spent(lock')
<1>k. ASSUME Lasts, NEW d \in Calls, pc'[d] = pc[d] \/ Spent(d)',
             answer'[d] = answer[d] \/ answer'[d] # "wedged", attempt'[d] = attempt[d]
      PROVE  Met(d)'
  <2>1. (Rival(d) => Rival(d)') /\ (Rivals(d) => Rivals(d)')
    BY <1>k DEF Rival, Rivals
  <2>2. pc'[d] \in {"open", "read", "judge", "unlink"} => pc'[d] = pc[d]
    BY <1>k DEF Spent
  <2>3. pc'[d] = "open" /\ attempt'[d] # 0 => \E e \in Calls \ {d} : Spent(e)' /\ lock' # e
    BY <1>k, <2>2 DEF MetInv, Met
  <2> QED BY <1>k, <2>1, <2>2, <2>3 DEF MetInv, Met
<1>1. ASSUME NEW c \in Calls, Create(c) PROVE MetInv'
  <2>1. /\ pc[c] = "open" /\ pc' = [pc EXCEPT ![c] = "write"] /\ lock' = c
        /\ UNCHANGED <<attempt, answer>>
    BY <1>1 DEF Create
  <2> QED BY <1>0, <1>k, <2>1 DEF MetInv, Spent
<1>2. ASSUME NEW c \in Calls, Exists(c) PROVE MetInv'
  <2>1. /\ pc[c] = "open" /\ pc' = [pc EXCEPT ![c] = "read"] /\ lock # None
        /\ UNCHANGED <<attempt, answer, lock>>
    BY <1>2 DEF Exists, lockVars
  <2>2. lock \in Calls \ {c} /\ Spent(lock)
    BY <1>0, <2>1 DEF NoLockLeftBehind, Spent
  <2>3. \A d \in Calls \ {c} : pc'[d] = pc[d] /\ (Spent(d)' <=> Spent(d))
    BY <2>1 DEF Spent
  <2>4. Lasts
    BY <2>1, <2>3 DEF Spent
  <2>5. Met(c)'
    <3>1. Rival(c)'
      BY <2>2, <2>3 DEF Rival
    <3>2. attempt[c] # 0 => Rivals(c)'
      BY <2>1, <2>2, <2>3 DEF MetInv, Met, Rivals
    <3>3. answer[c] = "wedged" => Rivals(c)'
      BY <2>3 DEF MetInv, Met, Rivals
    <3> QED BY <1>0, <2>1, <3>1, <3>2, <3>3 DEF Met
  <2> QED BY <1>0, <1>k, <2>1, <2>3, <2>4, <2>5 DEF MetInv
\* The reading of the file, its judgement, and its removal at the last attempt.
<1>3. ASSUME NEW c \in Calls, Read(c) \/ Judge(c) PROVE MetInv'
  <2>1. /\ pc[c] \in {"read", "judge"} /\ UNCHANGED <<attempt, lock>>
        /\ \E p \in {"judge", "unlink", "done"} : pc' = [pc EXCEPT ![c] = p]
        /\ answer' = answer \/ answer' = [answer EXCEPT ![c] = "busy"]
    BY <1>3 DEF Read, Judge, lockVars
  <2>2. \A d \in Calls \ {c} : pc'[d] = pc[d] /\ answer'[d] = answer[d] /\ (Spent(d)' <=> Spent(d))
    BY <1>0, <2>1 DEF Spent
  <2>3. Lasts
    BY <2>1, <2>2 DEF Spent
  <2>4. (Rival(c) => Rival(c)') /\ (Rivals(c) => Rivals(c)')
    BY <2>2 DEF Rival, Rivals
  <2>5. Met(c)'
    BY <1>0, <2>1, <2>4 DEF MetInv, Met
  <2> QED BY <1>k, <2>1, <2>2, <2>3, <2>5 DEF MetInv
<1>4. ASSUME NEW c \in Calls, Unlink(c) PROVE MetInv'
  <2>1. /\ pc[c] = "unlink" /\ lock' = None /\ attempt' = [attempt EXCEPT ![c] = @ + 1]
        /\ \/ pc' = [pc EXCEPT ![c] = "open"] /\ answer' = answer
           \/ /\ pc' = [pc EXCEPT ![c] = "done"] /\ answer' = [answer EXCEPT ![c] = "wedged"]
              /\ attempt[c] + 1 >= 2
    BY <1>4 DEF Unlink, Attempts
  <2>2. \A d \in Calls \ {c} : /\ pc'[d] = pc[d] /\ answer'[d] = answer[d]
                                /\ attempt'[d] = attempt[d] /\ (Spent(d)' <=> Spent(d))
    BY <1>0, <2>1 DEF Spent
  <2>3. Lasts
    BY <2>1, <2>2 DEF Spent
  <2>4. (Rival(c) => Rival(c)') /\ (Rivals(c) => Rivals(c)') /\ Rival(c)
    BY <2>1, <2>2 DEF Rival, Rivals, MetInv, Met
  <2>5. answer'[c] = "wedged" => Rivals(c)
    BY <1>0, <2>1 DEF MetInv, Met
  <2>6. \E d \in Calls \ {c} : Spent(d)' /\ lock' # d
    BY <2>1, <2>4 DEF Rival
  <2>7. Met(c)'
    BY <1>0, <2>1, <2>4, <2>5, <2>6 DEF Met
  <2> QED BY <1>k, <2>2, <2>3, <2>7 DEF MetInv
\* Whoever has the lock, or ends.
<1>5. ASSUME NEW c \in Calls, Write(c) \/ Update(c) PROVE MetInv'
  <2>1. /\ pc[c] \in Updating \cup {"write"} /\ attempt' = attempt /\ lock' \in {lock, None}
        /\ \E p \in Updating \cup {"done"} : pc' = [pc EXCEPT ![c] = p]
        /\ answer' = answer \/ \E a \in Answers \ {"wedged"} : answer' = [answer EXCEPT ![c] = a]
    BY <1>5 DEF Write, Update, Fail, Fetch, Compare, Reset, Clean, Install, Check, Release,
                lockVars, Answers
  <2> QED BY <1>0, <1>k, <2>1 DEF MetInv, Spent
<1>6. ASSUME NEW c \in Calls, NEW p \in Procs, Start(c, p) PROVE MetInv'
  <2>1. /\ pc[c] = "idle" /\ pc' = [pc EXCEPT ![c] = "open"] /\ UNCHANGED <<attempt, answer, lock>>
    BY <1>6 DEF Start, lockVars
  <2>2. \A d \in Calls \ {c} : pc'[d] = pc[d] /\ (Spent(d)' <=> Spent(d))
    BY <2>1 DEF Spent
  <2>3. Lasts
    BY <2>1, <2>2 DEF Spent
  <2>4. Rivals(c) => Rivals(c)'
    BY <2>2 DEF Rivals
  <2>5. Met(c)'
    BY <1>0, <2>1, <2>4 DEF MetInv, Met
  <2> QED BY <1>k, <2>1, <2>2, <2>3, <2>5 DEF MetInv
<1>7. ASSUME NEW p \in Procs, Crash(p) PROVE MetInv'
  <2>1. /\ UNCHANGED <<attempt, answer, lock>>
        /\ \A d \in Calls : pc'[d] = pc[d] \/ pc'[d] = "lost"
    BY <1>7 DEF Crash, lockVars
  <2> QED BY <1>k, <2>1 DEF MetInv, Spent
<1>8. CASE \/ \E c \in Calls : Age(c)
           \/ \E p \in Procs : Reuse(p)
           \/ Push \/ Commit \/ UNCHANGED vars
  <2>1. UNCHANGED <<pc, attempt, answer, lock>>
    BY <1>8 DEF Age, Reuse, Push, Commit, vars, lockVars
  <2> QED BY <1>k, <2>1 DEF MetInv, Spent
<1> QED
  BY <1>1, <1>2, <1>3, <1>4, <1>5, <1>6, <1>7, <1>8 DEF Next, Acquire

\* A call gives up only when two other calls came between it and the lock: an
\* abandoned file alone never makes it.
THEOREM WedgedCorrect == Spec => []WedgedOnlyByRivals
<1>1. Init => MetInv
  BY AnswersAssumption DEF Init, MetInv, Met, Answers
<1>2. TypeOK /\ AttemptInv /\ [Next]_vars => TypeOK' /\ AttemptInv'
  BY TypeNext
<1>3. MetInv => WedgedOnlyByRivals
  <2> SUFFICES ASSUME MetInv, NEW c \in Calls, answer[c] = "wedged"
               PROVE  Cardinality({d \in Calls \ {c} : pc[d] # "idle"}) >= 2
    BY DEF WedgedOnlyByRivals
  <2> DEFINE Others == {d \in Calls \ {c} : pc[d] # "idle"}
  <2>1. PICK d \in Calls \ {c}, e \in Calls \ {c} : d # e /\ Spent(d) /\ Spent(e)
    BY DEF MetInv, Met, Rivals
  <2>2. {d, e} \in SUBSET Others
    BY <2>1 DEF Spent
  <2>3. IsFiniteSet(Others) /\ Cardinality(Others) \in Nat
    BY CallsAssumption, FS_Subset, FS_CardinalityType
  <2>4. IsFiniteSet({d}) /\ Cardinality({d}) = 1
    BY FS_Singleton
  <2>5. Cardinality({d} \cup {e}) = 2
    BY <2>1, <2>4, FS_AddElement
  <2>6. {d} \cup {e} = {d, e}
    OBVIOUS
  <2>7. Cardinality({d, e}) <= Cardinality(Others)
    BY <2>2, <2>3, FS_Subset
  <2> QED BY <2>3, <2>5, <2>6, <2>7
<1> QED BY <1>1, <1>2, <1>3, TypeInit, NothingLeftBehind, MetNext, PTL DEF Spec

-----------------------------------------------------------------------------
(* Which process is the daemon.                                            *)

USE DEF Goes, Gone, Claiming, Starting, Daemon

\* The initial state has its types.
LEMMA DaemonTypeInit == DaemonInit => DaemonTypeOK
BY PidAssumption DEF DaemonInit, DaemonTypeOK, Places

\* Every step keeps the types.
LEMMA DaemonTypeNext == DaemonTypeOK /\ [DaemonNext]_daemonVars => DaemonTypeOK'
<1> SUFFICES ASSUME DaemonTypeOK, [DaemonNext]_daemonVars PROVE DaemonTypeOK'
  OBVIOUS
<1> USE PidAssumption DEF DaemonTypeOK, Places, files
<1>1. ASSUME NEW p \in Pids, Starts(p) PROVE DaemonTypeOK'
  <2>1. CASE Claim(p)
    BY <2>1 DEF Claim
  <2>2. CASE WriteClaim(p)
    BY <2>2 DEF WriteClaim
  <2>3. CASE ReadOwner(p)
    BY <2>3 DEF ReadOwner
  <2>4. CASE Probe(p)
    BY <2>4 DEF Probe
  <2>5. CASE KillZombie(p)
    BY <2>5 DEF KillZombie, Kills
  <2>6. CASE RemoveOwner(p)
    BY <2>6 DEF RemoveOwner
  <2>7. CASE RemoveSocket(p)
    BY <2>7 DEF RemoveSocket
  <2>8. CASE Reclaim(p)
    BY <2>8 DEF Reclaim, Stopped
  <2>9. CASE ListDuplicates(p)
    BY <2>9 DEF ListDuplicates, Duplicates
  <2>10. CASE Reaped(p)
    BY <2>10 DEF Reaped
  <2>11. CASE ReapDeadline(p)
    BY <2>11 DEF ReapDeadline, Kills
  <2>12. CASE UnlinkSocket(p)
    BY <2>12 DEF UnlinkSocket
  <2>13. CASE Listen(p)
    BY <2>13 DEF Listen, Stopped
  <2>14. CASE Record(p)
    BY <2>14 DEF Record
  <2> QED BY <1>1, <2>1, <2>2, <2>3, <2>4, <2>5, <2>6, <2>7, <2>8, <2>9, <2>10,
              <2>11, <2>12, <2>13, <2>14 DEF Starts
<1>2. ASSUME NEW p \in Pids, Run(p) PROVE DaemonTypeOK'
  <2>1. CASE Monitor(p)
    BY <2>1 DEF Monitor, Stopped
  <2>2. CASE Leave(p)
    BY <2>2 DEF Leave
  <2>3. CASE Terminate(p)
    BY <2>3 DEF Terminate, Stopped
  <2>4. CASE HandOver(p)
    BY <2>4 DEF HandOver
  <2>5. CASE GiveUp(p)
    BY <2>5 DEF GiveUp
  <2> QED BY <1>2, <2>1, <2>2, <2>3, <2>4, <2>5 DEF Run
<1>3. ASSUME NEW p \in Pids, Launch(p) PROVE DaemonTypeOK'
  BY <1>3 DEF Launch, Begins
<1>4. ASSUME NEW p \in Pids, SelfStop(p) PROVE DaemonTypeOK'
  BY <1>4 DEF SelfStop, Stopped
<1>5. ASSUME NEW p \in Pids, SelfRestart(p) PROVE DaemonTypeOK'
  BY <1>5 DEF SelfRestart, Stopped
<1>6. ASSUME NEW p \in Pids, Dies(p) \/ PidReused(p) PROVE DaemonTypeOK'
  BY <1>6 DEF Dies, PidReused
<1>7. ASSUME NEW p \in Pids, NEW q \in Pids, SpawnSuccessor(p, q) PROVE DaemonTypeOK'
  BY <1>7 DEF SpawnSuccessor, Begins
<1>8. ASSUME NEW p \in Pids, NEW q \in Pids, LaunchByHelper(p, q) PROVE DaemonTypeOK'
  BY <1>8 DEF LaunchByHelper, Begins
<1>9. CASE UNCHANGED daemonVars
  BY <1>9 DEF daemonVars
<1> QED BY <1>1, <1>2, <1>3, <1>4, <1>5, <1>6, <1>7, <1>8, <1>9 DEF DaemonNext

\* The variables keep their types.
THEOREM DaemonTypeCorrect == DaemonSpec => []DaemonTypeOK
BY DaemonTypeInit, DaemonTypeNext, PTL DEF DaemonSpec

-----------------------------------------------------------------------------
(* A settled daemon is left alone.                                         *)

\* The one step: q is settled and still runs after it, so it is settled after
\* it.  Whoever else acts is launched, looks at the claim and at the socket, or
\* is on its way out.
LEMMA SettledStep ==
  ASSUME DaemonTypeOK, [DaemonNext]_daemonVars, NEW q \in Pids, Settled(q), place'[q] = "running"
  PROVE  Settled(q)'
<1> USE PidAssumption DEF DaemonTypeOK, Places, Settled, Reachable, files
<1>0. place[q] = "running" /\ sock = q /\ owner = q /\ owner # NoPid
  OBVIOUS
<1>1. ASSUME NEW p \in Pids, Starts(p) PROVE Settled(q)'
  <2>1. p # q /\ place[p] \in {"claim", "read", "probe"}
    BY <1>1 DEF Starts, Claim, WriteClaim, ReadOwner, Probe, KillZombie, RemoveOwner,
      RemoveSocket, Reclaim, ListDuplicates, Reaped, ReapDeadline, UnlinkSocket, Listen, Record
  <2>2. CASE Claim(p)
    BY <2>1, <2>2 DEF Claim
  <2>3. CASE ReadOwner(p)
    BY <2>1, <2>3 DEF ReadOwner, Alive
  <2>4. CASE Probe(p)
    BY <2>1, <2>4 DEF Probe, SocketAlive, Serving
  <2> QED
    BY <1>1, <2>1, <2>2, <2>3, <2>4 DEF Starts, WriteClaim, KillZombie, RemoveOwner,
      RemoveSocket, Reclaim, ListDuplicates, Reaped, ReapDeadline, UnlinkSocket, Listen, Record
<1>2. ASSUME NEW p \in Pids, Run(p) PROVE Settled(q)'
  <2>1. CASE p = q
    BY <1>2, <2>1 DEF Run, Monitor, Leave, Terminate, HandOver, GiveUp
  <2>2. CASE p # q
    BY <1>2, <2>2 DEF Run, Monitor, Leave, Terminate, HandOver, GiveUp
  <2> QED BY <2>1, <2>2
<1>3. ASSUME NEW p \in Pids, Launch(p) PROVE Settled(q)'
  BY <1>3 DEF Launch, Begins, Room
<1>4. ASSUME NEW p \in Pids, SelfStop(p) \/ SelfRestart(p) PROVE Settled(q)'
  BY <1>4 DEF SelfStop, SelfRestart
<1>5. ASSUME NEW p \in Pids, Dies(p) \/ PidReused(p) PROVE Settled(q)'
  BY <1>5 DEF Dies, PidReused
<1>6. ASSUME NEW p \in Pids, NEW r \in Pids, SpawnSuccessor(p, r) PROVE Settled(q)'
  BY <1>6 DEF SpawnSuccessor, Begins, Room
<1>7. ASSUME NEW p \in Pids, NEW r \in Pids, LaunchByHelper(p, r) PROVE Settled(q)'
  BY <1>7 DEF LaunchByHelper, Begins, Room
<1>8. CASE UNCHANGED daemonVars
  BY <1>8 DEF daemonVars
<1> QED BY <1>1, <1>2, <1>3, <1>4, <1>5, <1>6, <1>7, <1>8 DEF DaemonNext

\* Launches, races and exits of others leave a settled daemon its claim, its
\* socket and its life, for any number of processes.
THEOREM SettledCorrect == DaemonSpec => SettledStays
<1>1. DaemonTypeOK /\ [DaemonNext]_daemonVars
      => [\A q \in Pids : Settled(q) /\ place'[q] = "running" => Settled(q)']_daemonVars
  BY SettledStep
<1> QED BY <1>1, DaemonTypeCorrect, PTL DEF DaemonSpec, SettledStays
=============================================================================
