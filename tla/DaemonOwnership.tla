--------------------------- MODULE DaemonOwnership ---------------------------
(***************************************************************************)
(* Which process is the daemon of an installation: MonolitoV2Daemon.start, *)
(* stop and the ownership monitor (src/core/runtime/daemon.ts), the signal *)
(* handlers of runDaemon (src/apps/daemon.ts) and the graceful restart     *)
(* (MonolitoV2Runtime.performGracefulRestart).                             *)
(*                                                                         *)
(* Processes share files: the owner file, the Unix socket and the lock     *)
(* file.  They run in parallel, so a step here is one system call on those *)
(* files, or on other processes.  place[p] is what p does next:            *)
(*   "off"                  not launched                                   *)
(*   "claim", "write"       tryClaim: create the owner file, then write it *)
(*   "read", "probe", "kill", "remove", "unsocket", "reclaim"              *)
(*                          acquireOwnership when the file exists          *)
(*   "ps", "reap"           terminateDuplicateDaemons                      *)
(*   "unlink", "listen", "record"  the rest of start                       *)
(*   "running"              handlers installed, monitor armed              *)
(*   "leaving"              stop() is done, process.exit to come           *)
(*   "exited", "dead", "killed"  gone by itself, crashed, killed by another *)
(*   "outsider"             the pid now belongs to another program         *)
(* stop() is one step: its reads and unlinks follow each other at once.    *)
(***************************************************************************)
EXTENDS Naturals, FiniteSets

CONSTANTS
  Pids,        \* of the processes
  Units,       \* those the systemd unit launches, with a relative script path
  NoPid, Empty, \* no file; an owner file without content yet
  Overlap,     \* bound on the daemon processes that are alive together
  Restarts,    \* whether the system_reboot tool and self-restarts are used
  Crashes,     \* whether daemons die at any point
  Recycled,    \* whether a daemon may get the pid of one that died
  Reused       \* whether another program may

ASSUME UnitsAssumption == Units \subseteq Pids
ASSUME PidAssumption == NoPid \notin Pids /\ Empty \notin Pids /\ NoPid # Empty
ASSUME OverlapAssumption == Overlap \in Nat
ASSUME FlagsAssumption == {Restarts, Crashes, Recycled, Reused} \subseteq BOOLEAN

VARIABLES
  place,
  found,       \* the pid that acquireOwnership read from the owner file
  dups,        \* the duplicates that ps showed
  termed,      \* processes with a SIGTERM to handle
  owner,       \* daemon-owner.json
  sock,        \* whose server the socket file belongs to
  tcp,         \* daemons that fell back to TCP
  lockf,       \* pid in daemon-lock.json
  successor,   \* the replacement a graceful restart waits for
  helpers      \* daemons whose restart helper waits for them to be gone

files == <<owner, sock, tcp, lockf>>
daemonVars == <<place, found, dups, termed, files, successor, helpers>>

Claiming == {"claim", "write", "read", "probe", "kill", "remove", "unsocket", "reclaim"}
Starting == Claiming \cup {"ps", "reap", "unlink", "listen", "record"}
Daemon   == Starting \cup {"running", "leaving"}
Gone == {"off", "exited", "dead", "killed"}
Places == Daemon \cup Gone \cup {"outsider"}

Alive(p) == place[p] \in Daemon \cup {"outsider"}
Serving(p) == place[p] \in {"record", "running"}

DaemonTypeOK ==
  /\ place \in [Pids -> Places]
  /\ found \in [Pids -> Pids \cup {NoPid}]
  /\ dups \in [Pids -> SUBSET Pids]
  /\ termed \subseteq Pids
  /\ owner \in Pids \cup {NoPid, Empty}
  /\ {sock, lockf} \subseteq Pids \cup {NoPid}
  /\ tcp \subseteq Pids
  /\ successor \in [Pids -> Pids \cup {NoPid}]
  /\ helpers \subseteq Pids

DaemonInit ==
  /\ place = [p \in Pids |-> "off"]
  /\ found = [p \in Pids |-> NoPid]
  /\ dups = [p \in Pids |-> {}]
  /\ termed = {}
  /\ owner = NoPid /\ sock = NoPid /\ lockf = NoPid /\ tcp = {}
  /\ successor = [p \in Pids |-> NoPid]
  /\ helpers = {}

Goes(p, from, to) == place[p] = from /\ place' = [place EXCEPT ![p] = to]

-----------------------------------------------------------------------------
(* Launch: by systemd, one instance of the unit at a time; detached, by a  *)
(* CLI that found no daemon; by the helper of a self-restart.              *)

\* A pid is not given away within the seconds in which a start looks at it.
Unwatched(p) ==
  \A q \in Pids : /\ place[q] \in {"probe", "kill"} => found[q] # p
                  /\ place[q] = "reap" => p \notin dups[q]

Room(p) ==
  /\ place[p] \in IF Recycled THEN Gone ELSE {"off"}
  /\ Unwatched(p)
  /\ Cardinality({q \in Pids : place[q] \in Daemon}) < Overlap
  /\ p \in Units => \A q \in Units : place[q] \notin Daemon

Begins(p) ==
  /\ Room(p)
  /\ place' = [place EXCEPT ![p] = "claim"]
  /\ termed' = termed \ {p}

\* startDetachedDaemon looks for a live pid in the lock file first.
Launch(p) ==
  /\ Begins(p)
  /\ p \in Units \/ ~(lockf \in Pids /\ Alive(lockf))
  /\ UNCHANGED <<found, dups, files, successor, helpers>>

\* The script of scheduleSelfRestart, once kill -0 fails for its daemon.
LaunchByHelper(p, q) ==
  /\ q \in helpers /\ ~Alive(q)
  /\ Begins(p)
  /\ helpers' = helpers \ {q}
  /\ UNCHANGED <<found, dups, files, successor>>

-----------------------------------------------------------------------------
(* acquireOwnership.                                                       *)

\* openSync(ownerFile, "wx")
Claim(p) ==
  /\ \/ owner = NoPid /\ Goes(p, "claim", "write") /\ owner' = Empty
     \/ owner # NoPid /\ Goes(p, "claim", "read") /\ UNCHANGED owner
  /\ UNCHANGED <<found, dups, termed, sock, tcp, lockf, successor, helpers>>

\* writeFileSync(ownerFile): by path, whoever created the file at it.
WriteClaim(p) ==
  /\ Goes(p, "write", "ps")
  /\ owner' = p
  /\ UNCHANGED <<found, dups, termed, sock, tcp, lockf, successor, helpers>>

\* readOwnerClaim, then isProcessRunning
ReadOwner(p) ==
  /\ \/ Goes(p, "read", "probe") /\ owner \in Pids /\ Alive(owner)
        /\ found' = [found EXCEPT ![p] = owner]
     \/ Goes(p, "read", "remove") /\ ~(owner \in Pids /\ Alive(owner))
        /\ UNCHANGED found
  /\ UNCHANGED <<dups, termed, files, successor, helpers>>

\* Mutant of SocketAlive: the answer of the daemon is not waited for.
SocketDeaf == FALSE

\* probeSocketAlive: the kernel completes the connection for a listening server.
SocketAlive == sock # NoPid /\ Serving(sock)

Probe(p) ==
  /\ \/ SocketAlive /\ Goes(p, "probe", "exited")
     \/ ~SocketAlive /\ Goes(p, "probe", "kill")
  /\ UNCHANGED <<found, dups, termed, files, successor, helpers>>

\* p sends SIGKILL to a set of pids, its own perhaps, and goes on at `next`.
Kills(p, S, next) ==
  place' = [q \in Pids |->
    IF q \in S /\ Alive(q) THEN "killed" ELSE IF q = p THEN next ELSE place[q]]

KillZombie(p) ==
  /\ place[p] = "kill"
  /\ Kills(p, {found[p]}, "remove")
  /\ UNCHANGED <<found, dups, termed, files, successor, helpers>>

\* Mutant of RemoveOwner: the stale claim stays.
RemoveNothing(p) ==
  /\ Goes(p, "remove", "unsocket")
  /\ UNCHANGED <<found, dups, termed, files, successor, helpers>>

RemoveOwner(p) ==
  /\ Goes(p, "remove", "unsocket")
  /\ owner' = NoPid
  /\ UNCHANGED <<found, dups, termed, sock, tcp, lockf, successor, helpers>>

RemoveSocket(p) ==
  /\ Goes(p, "unsocket", "reclaim")
  /\ sock' = NoPid
  /\ UNCHANGED <<found, dups, termed, owner, tcp, lockf, successor, helpers>>

-----------------------------------------------------------------------------
(* stop                                                                    *)

\* Mutant of Stopped: the lock file is truncated.
StoppedTruncates(p) ==
  LET bound == Serving(p) /\ p \notin tcp
      owns  == owner = p
  IN /\ sock' = IF bound \/ owns THEN NoPid ELSE sock
     /\ lockf' = IF owns THEN Empty ELSE lockf
     /\ owner' = IF owns THEN NoPid ELSE owner
     /\ tcp' = tcp \ {p}

\* server.close() unlinks the path the server was bound to, whatever is
\* there by now; the shared files go with their owner.
Stopped(p) ==
  LET bound == Serving(p) /\ p \notin tcp
      owns  == owner = p
  IN /\ sock' = IF bound \/ owns THEN NoPid ELSE sock
     /\ lockf' = IF owns THEN NoPid ELSE lockf
     /\ owner' = IF owns THEN NoPid ELSE owner
     /\ tcp' = tcp \ {p}

\* The second openSync; when it fails start() rejects and runDaemon exits.
Reclaim(p) ==
  /\ \/ owner = NoPid /\ Goes(p, "reclaim", "write") /\ owner' = Empty
        /\ UNCHANGED <<sock, tcp, lockf>>
     \/ owner # NoPid /\ Goes(p, "reclaim", "exited") /\ Stopped(p)
  /\ UNCHANGED <<found, dups, termed, successor, helpers>>

-----------------------------------------------------------------------------
(* terminateDuplicateDaemons                                               *)

\* ps shows the absolute script path of spawned daemons only.
Duplicates(p) == {q \in Pids \ ({p} \cup Units) : place[q] \in Daemon}

\* SIGTERM ends a process that has not installed its handlers yet.
ListDuplicates(p) ==
  /\ place[p] = "ps"
  /\ dups' = [dups EXCEPT ![p] = Duplicates(p)]
  /\ place' = [q \in Pids |->
       IF q = p THEN IF Duplicates(p) = {} THEN "unlink" ELSE "reap"
       ELSE IF q \in Duplicates(p) /\ place[q] \in Starting THEN "killed" ELSE place[q]]
  /\ termed' = termed \cup {q \in Duplicates(p) : place[q] = "running"}
  /\ UNCHANGED <<found, files, successor, helpers>>

Reaped(p) ==
  /\ \A q \in dups[p] : ~Alive(q)
  /\ Goes(p, "reap", "unlink")
  /\ UNCHANGED <<found, dups, termed, files, successor, helpers>>

\* Five seconds are over: SIGKILL for the survivors.
ReapDeadline(p) ==
  /\ \E q \in dups[p] : Alive(q)
  /\ place[p] = "reap"
  /\ Kills(p, dups[p], "unlink")
  /\ UNCHANGED <<found, dups, termed, files, successor, helpers>>

-----------------------------------------------------------------------------
(* The rest of start.                                                      *)

UnlinkSocket(p) ==
  /\ Goes(p, "unlink", "listen")
  /\ sock' = NoPid
  /\ UNCHANGED <<found, dups, termed, owner, tcp, lockf, successor, helpers>>

\* listenUnix, and listenTcp when somebody has bound the path meanwhile; when
\* the port is taken as well start() rejects.
Listen(p) ==
  /\ \/ sock = NoPid /\ Goes(p, "listen", "record") /\ sock' = p
        /\ UNCHANGED <<owner, tcp, lockf>>
     \/ sock # NoPid /\ (\A q \in tcp : ~Serving(q)) /\ Goes(p, "listen", "record")
        /\ tcp' = tcp \cup {p} /\ UNCHANGED <<owner, sock, lockf>>
     \/ sock # NoPid /\ (\E q \in tcp : Serving(q)) /\ Goes(p, "listen", "exited")
        /\ Stopped(p)
  /\ UNCHANGED <<found, dups, termed, successor, helpers>>

\* writeLock, then the monitor, the channels and the signal handlers.
Record(p) ==
  /\ Goes(p, "record", "running")
  /\ lockf' = p
  /\ UNCHANGED <<found, dups, termed, owner, sock, tcp, successor, helpers>>

-----------------------------------------------------------------------------
(* The life of a daemon.                                                   *)

\* Mutant of Monitor: a claim by somebody else is taken for this daemon's.
MonitorMissing(p) ==
  /\ owner \notin Pids
  /\ Goes(p, "running", "leaving")
  /\ Stopped(p)
  /\ UNCHANGED <<found, dups, termed, successor, helpers>>

\* The five-second check of startOwnershipMonitor
Monitor(p) ==
  /\ owner # p
  /\ Goes(p, "running", "leaving")
  /\ Stopped(p)
  /\ UNCHANGED <<found, dups, termed, successor, helpers>>

Leave(p) ==
  /\ Goes(p, "leaving", "exited")
  /\ UNCHANGED <<found, dups, termed, files, successor, helpers>>

\* SIGTERM handler
Terminate(p) ==
  /\ p \in termed
  /\ Goes(p, "running", "exited")
  /\ Stopped(p)
  /\ termed' = termed \ {p}
  /\ UNCHANGED <<found, dups, successor, helpers>>

\* scheduleSelfStop
SelfStop(p) ==
  /\ Goes(p, "running", "exited")
  /\ Stopped(p)
  /\ UNCHANGED <<found, dups, termed, successor, helpers>>

\* scheduleSelfRestart
SelfRestart(p) ==
  /\ Restarts
  /\ Goes(p, "running", "exited")
  /\ Stopped(p)
  /\ helpers' = helpers \cup {p}
  /\ UNCHANGED <<found, dups, termed, successor>>

\* performGracefulRestart spawns the replacement ...
SpawnSuccessor(p, q) ==
  /\ Restarts
  /\ place[p] = "running" /\ successor[p] = NoPid
  /\ q \notin Units /\ Begins(q)
  /\ successor' = [successor EXCEPT ![p] = q]
  /\ UNCHANGED <<found, dups, files, helpers>>

\* ... polls the lock file until it names somebody else who is alive, then
\* exits without stop() ...
HandOver(p) ==
  /\ successor[p] # NoPid
  /\ lockf \in Pids \ {p} /\ Alive(lockf)
  /\ Goes(p, "running", "exited")
  /\ UNCHANGED <<found, dups, termed, files, successor, helpers>>

\* ... or gives up.  A start takes less than the 90 seconds of the timeout.
GiveUp(p) ==
  /\ place[p] = "running" /\ successor[p] # NoPid
  /\ place[successor[p]] \notin Starting
  /\ successor' = [successor EXCEPT ![p] = NoPid]
  /\ UNCHANGED <<place, found, dups, termed, files, helpers>>

Dies(p) ==
  /\ Crashes
  /\ place[p] \in Daemon
  /\ place' = [place EXCEPT ![p] = "dead"]
  /\ UNCHANGED <<found, dups, termed, files, successor, helpers>>

\* External: the system gives the pid to a program of the same user.
PidReused(p) ==
  /\ Reused /\ Unwatched(p)
  /\ place[p] \in Gone \ {"off"}
  /\ place' = [place EXCEPT ![p] = "outsider"]
  /\ UNCHANGED <<found, dups, termed, files, successor, helpers>>

Starts(p) ==
  \/ Claim(p) \/ WriteClaim(p) \/ ReadOwner(p) \/ Probe(p) \/ KillZombie(p)
  \/ RemoveOwner(p) \/ RemoveSocket(p) \/ Reclaim(p) \/ ListDuplicates(p)
  \/ Reaped(p) \/ ReapDeadline(p) \/ UnlinkSocket(p) \/ Listen(p) \/ Record(p)

Run(p) == Monitor(p) \/ Leave(p) \/ Terminate(p) \/ HandOver(p) \/ GiveUp(p)

DaemonNext ==
  \/ \E p \in Pids : Launch(p) \/ Starts(p) \/ Run(p) \/ SelfStop(p) \/ SelfRestart(p)
  \/ \E p \in Pids : Dies(p) \/ PidReused(p)
  \/ \E p, q \in Pids : SpawnSuccessor(p, q) \/ LaunchByHelper(p, q)

DaemonSpec == DaemonInit /\ [][DaemonNext]_daemonVars

\* A process that runs takes its next step.
FairSpec ==
  /\ DaemonSpec
  /\ \A p \in Pids : WF_daemonVars(Starts(p)) /\ WF_daemonVars(Run(p))
  /\ \A q \in Pids : WF_daemonVars(\E p \in Pids : LaunchByHelper(p, q))

-----------------------------------------------------------------------------
(* Properties.                                                             *)

Running == {p \in Pids : place[p] = "running"}
Reachable(p) == place[p] = "running" /\ sock = p

\* q owns the installation and answers on its socket, and whoever else is
\* about is still looking.
Settled(q) ==
  /\ Reachable(q) /\ owner = q
  /\ \A p \in Pids \ {q} :
       place[p] \in Gone \cup {"outsider", "claim", "read", "probe", "leaving"}

\* Nobody but the daemon itself ends a settled daemon, takes its socket or its
\* claim: launches, restarts of others and exits of old daemons leave it alone.
SettledStays == [][\A q \in Pids : Settled(q) /\ place'[q] = "running" => Settled(q)']_daemonVars

\* However launches race, and wherever daemons die, at most one is left: the
\* ownership monitor sorts out those that a race let through.
Converges == <>[](Cardinality(Running) <= 1)

Alone(p) == \A q \in Pids \ {p} : place[q] \notin Daemon

\* Whatever races and crashes before it left behind, a daemon that starts and
\* stays alone takes over and becomes reachable, unless it dies itself.
AloneTakesOver ==
  \A p \in Pids :
    place[p] = "claim" /\ Alone(p) ~> Reachable(p) \/ place[p] = "dead" \/ ~Alone(p)

\* runtime.ts:3002: a graceful restart replaces this daemon by its successor.
HandsOver == \A p \in Pids : successor[p] # NoPid ~> place[p] # "running"
=============================================================================
