--------------------------- MODULE DaemonStartup ---------------------------
(***************************************************************************)
(* Starting, replacing and stopping the daemon: the startup reservation    *)
(* (internal/dial/startup_lock.go), the instance lock and the persistence  *)
(* lock (internal/daemon/broker_evidence.go), the stop intent              *)
(* (internal/dial/stop_intent.go), and the clients that autospawn, restart *)
(* or stop a daemon (internal/dial/autospawn.go, internal/cli/restart.go,  *)
(* internal/cli/stop.go).                                                  *)
(*                                                                         *)
(* One socket directory and one state database.  The instance lock is a    *)
(* flock on whatever inode the lock path names; its release unlinks the    *)
(* path.  The reservation and the persistence lock are flocks on paths     *)
(* nobody unlinks, so each is one variable.  Daemons in Elsewhere serve    *)
(* another socket directory (CANARY_SOCKET) over the same database.        *)
(*                                                                         *)
(* A daemon is a process slot.  A process id that a file or a waiting      *)
(* client still names is not given to a new process.                       *)
(***************************************************************************)
EXTENDS Naturals, FiniteSets

CONSTANTS Daemons,
          Direct,      \* daemons started by hand (`canary daemon`), not by a client
          Elsewhere,   \* daemons of another socket directory
          Spawners, Restarters, Stoppers,
          Inodes, NoInode, Nobody,
          MayStraddle  \* one daemon's open and flock may straddle another's unlock and remove

Clients == Spawners \cup Restarters \cup Stoppers
Managed == Daemons \ (Direct \cup Elsewhere)

ASSUME StartupAssumption ==
    /\ Direct \subseteq Daemons /\ Elsewhere \subseteq Daemons \ Direct
    /\ Nobody \notin Daemons \cup Clients /\ NoInode \notin Inodes
    /\ Daemons \cap Clients = {} /\ MayStraddle \in BOOLEAN

\* The file system has an inode for every process that opens the lock file.
ASSUME InodesAssumption ==
    /\ IsFiniteSet(Daemons) /\ IsFiniteSet(Inodes)
    /\ Cardinality(Daemons) <= Cardinality(Inodes)

VARIABLES
    pc,           \* where a daemon process is in Server.Start and Server.Stop
    sharer,       \* the client whose reservation descriptor a daemon shares
    path,         \* the inode the instance lock path names
    fd,           \* the inode a daemon opened at that path
    flock, pidIn, \* an inode's holder and the pid written in it
    writer,       \* the holder of the persistence lock
    socket,       \* the daemon that bound the socket file; stale if not serving
    reservation,  \* the holder of the startup reservation
    stopIntent,   \* the stop-intent file exists
    standing,     \* history: the stops that set the intent since it was last cleared
    stopped,      \* history: one of them reported success
    cpc, seen, child, conn \* a client: its step, the pid it read, spawned, reached

lockVars   == <<path, fd, flock, pidIn>>
daemonVars == <<pc, sharer>>
clientVars == <<cpc, seen, child, conn>>
intentVars == <<stopIntent, standing, stopped>>
vars == <<daemonVars, lockVars, writer, socket, reservation, intentVars, clientVars>>

Alive(d)   == d # Nobody /\ pc[d] # "absent"
LockHolderPID == IF path = NoInode THEN Nobody ELSE pidIn[path]
HolderAlive   == Alive(LockHolderPID)
Connects   == socket # Nobody /\ pc[socket] = "serving"

DaemonSteps == {"absent", "boot", "reserved", "opened", "flocked", "instanced", "checked", "storing",
                "serving", "closing", "unlock", "unlink", "failUnlock", "failUnlink", "failClose", "exiting"}
ClientSteps == {"idle", "reserved", "probe", "waitHolder", "recheck", "exact", "spawn", "waitChild", "verify",
                "accepted", "allow", "find", "findSocket", "waitStop"}

TypeOK ==
    /\ pc \in [Daemons -> DaemonSteps] /\ sharer \in [Daemons -> Clients \cup {Nobody}]
    /\ path \in Inodes \cup {NoInode} /\ fd \in [Daemons -> Inodes \cup {NoInode}]
    /\ flock \in [Inodes -> Daemons \cup {Nobody}] /\ pidIn \in [Inodes -> Daemons \cup {Nobody}]
    /\ writer \in Daemons \cup {Nobody} /\ socket \in Daemons \cup {Nobody}
    /\ reservation \in Daemons \cup Clients \cup {Nobody}
    /\ stopIntent \in BOOLEAN /\ standing \subseteq Stoppers /\ stopped \in BOOLEAN
    /\ cpc \in [Clients -> ClientSteps] /\ seen \in [Clients -> Daemons \cup {Nobody}]
    /\ child \in [Clients -> Daemons \cup {Nobody}] /\ conn \in [Clients -> Daemons \cup {Nobody}]

Init ==
    /\ pc = [d \in Daemons |-> "absent"] /\ sharer = [d \in Daemons |-> Nobody]
    /\ path = NoInode /\ fd = [d \in Daemons |-> NoInode]
    /\ flock = [i \in Inodes |-> Nobody] /\ pidIn = [i \in Inodes |-> Nobody]
    /\ writer = Nobody /\ socket = Nobody /\ reservation = Nobody
    /\ stopIntent = FALSE /\ standing = {} /\ stopped = FALSE
    /\ cpc = [c \in Clients |-> "idle"] /\ seen = [c \in Clients |-> Nobody]
    /\ child = [c \in Clients |-> Nobody] /\ conn = [c \in Clients |-> Nobody]

-----------------------------------------------------------------------------
(***************************************************************************)
(* The daemon process: Server.Start, Server.Stop.                          *)
(***************************************************************************)
Goto(d, step) == pc' = [pc EXCEPT ![d] = step]

FreshPid(d) ==
    /\ pc[d] = "absent" /\ socket # d /\ LockHolderPID # d
    /\ \A c \in Clients : d \notin {seen[c], child[c], conn[c]}

\* `canary daemon` run by hand: no descriptor to inherit.  For another socket
\* directory it wins the locks of that directory; only the database is shared.
StartByHand(d) ==
    /\ d \in Direct \cup Elsewhere /\ FreshPid(d)
    /\ Goto(d, IF d \in Elsewhere THEN "checked" ELSE "boot")
    /\ UNCHANGED <<sharer, lockVars, writer, socket, reservation, intentVars, clientVars>>

\* The process is gone: the kernel closes its descriptors, which ends its
\* flocks, and keeps the files.
Gone(d) ==
    /\ pc' = [pc EXCEPT ![d] = "absent"]
    /\ sharer' = [sharer EXCEPT ![d] = Nobody]
    /\ fd' = [fd EXCEPT ![d] = NoInode]
    /\ flock' = [i \in Inodes |-> IF flock[i] = d THEN Nobody ELSE flock[i]]
    /\ writer' = IF writer = d THEN Nobody ELSE writer
    /\ reservation' = IF reservation = d THEN Nobody ELSE reservation

\* Mutant: a child waits for the reservation its parent holds.
MutLockWithoutDescriptor(d) ==
    /\ pc[d] = "boot" /\ reservation \in {Nobody, d}
    /\ Goto(d, "reserved")
    /\ reservation' = d
    /\ UNCHANGED <<sharer, lockVars, writer, socket, intentVars, clientVars>>

\* An inherited descriptor shares its client's open file: flock on it succeeds
\* while that client holds the reservation.  A descriptor whose client closed
\* it competes for the lock and the daemon fails if it lost; without a
\* descriptor the daemon waits, and gives up after the startup budget.
LockDaemonStartup(d) ==
    /\ pc[d] = "boot"
    /\ \/ /\ sharer[d] # Nobody
          /\ Goto(d, "reserved")
          /\ UNCHANGED reservation
       \/ /\ sharer[d] = Nobody /\ reservation \in {Nobody, d}
          /\ Goto(d, "reserved")
          /\ reservation' = d
    /\ UNCHANGED <<sharer, lockVars, writer, socket, intentVars, clientVars>>

LoseStartup(d) ==
    /\ pc[d] = "boot" /\ sharer[d] = Nobody /\ reservation \notin {Nobody, d}
    /\ Gone(d)
    /\ UNCHANGED <<path, pidIn, socket, intentVars, clientVars>>

FreeInode(i) == i # path /\ \A d \in Daemons : fd[d] # i

\* acquireInstanceLock opens the path, creating the file when there is none,
\* then flocks what it opened, then writes its pid there.
OpenInstanceLock(d) ==
    /\ pc[d] = "reserved"
    /\ MayStraddle \/ \A e \in Daemons : pc[e] \notin {"unlink", "failUnlink"}
    /\ \/ /\ path # NoInode
          /\ fd' = [fd EXCEPT ![d] = path]
          /\ UNCHANGED <<path, pidIn>>
       \/ /\ path = NoInode
          /\ LET i == CHOOSE j \in Inodes : FreeInode(j)
             IN  /\ path' = i /\ fd' = [fd EXCEPT ![d] = i]
                 /\ pidIn' = [pidIn EXCEPT ![i] = Nobody]
    /\ Goto(d, "opened")
    /\ UNCHANGED <<sharer, flock, writer, socket, reservation, intentVars, clientVars>>

FlockInstance(d) ==
    /\ pc[d] = "opened" /\ flock[fd[d]] = Nobody
    /\ flock' = [flock EXCEPT ![fd[d]] = d]
    /\ Goto(d, "flocked")
    /\ UNCHANGED <<sharer, path, fd, pidIn, writer, socket, reservation, intentVars, clientVars>>

\* ErrAlreadyRunning: the reservation is released and the process exits.
AlreadyRunning(d) ==
    /\ pc[d] = "opened" /\ flock[fd[d]] # Nobody
    /\ Gone(d)
    /\ UNCHANGED <<path, pidIn, socket, intentVars, clientVars>>

\* Mutant: the pid written is that of the process that started the daemon.
MutWriteParentPid(d) ==
    /\ pc[d] = "flocked"
    /\ pidIn' = [pidIn EXCEPT ![fd[d]] = sharer[d]]
    /\ sharer' = [sharer EXCEPT ![d] = Nobody]
    /\ reservation' = IF reservation = d THEN Nobody ELSE reservation
    /\ Goto(d, "instanced")
    /\ UNCHANGED <<path, fd, flock, writer, socket, intentVars, clientVars>>

\* releaseStartup only closes the daemon's copy of the descriptor.
WritePid(d) ==
    /\ pc[d] = "flocked"
    /\ pidIn' = [pidIn EXCEPT ![fd[d]] = d]
    /\ sharer' = [sharer EXCEPT ![d] = Nobody]
    /\ reservation' = IF reservation = d THEN Nobody ELSE reservation
    /\ Goto(d, "instanced")
    /\ UNCHANGED <<path, fd, flock, writer, socket, intentVars, clientVars>>

\* Mutant: a daemon that has its lock does not look at the stop intent.
MutStartUnasked(d) ==
    /\ pc[d] = "instanced"
    /\ Goto(d, "checked")
    /\ UNCHANGED <<sharer, lockVars, writer, socket, reservation, intentVars, clientVars>>

CheckAutostart(d) ==
    /\ pc[d] = "instanced"
    /\ Goto(d, IF stopIntent THEN "unlock" ELSE "checked")
    /\ UNCHANGED <<sharer, lockVars, writer, socket, reservation, intentVars, clientVars>>

\* Mutant: the persistence lock is not taken.
MutStoreUnlocked(d) ==
    /\ pc[d] = "checked"
    /\ writer' = d /\ Goto(d, "storing")
    /\ UNCHANGED <<sharer, lockVars, socket, reservation, intentVars, clientVars>>

OpenCoreStore(d) ==
    /\ pc[d] = "checked"
    /\ \/ /\ writer = Nobody
          /\ writer' = d /\ Goto(d, "storing")
       \/ /\ writer # Nobody \* ErrPersistenceInUse
          /\ Goto(d, IF d \in Elsewhere THEN "exiting" ELSE "unlock")
          /\ UNCHANGED writer
    /\ UNCHANGED <<sharer, lockVars, socket, reservation, intentVars, clientVars>>

\* The authority does not verify: openCoreStore releases its lock, Start the
\* instance lock.
CoreStoreFails(d) ==
    /\ pc[d] = "storing"
    /\ writer' = Nobody
    /\ Goto(d, IF d \in Elsewhere THEN "exiting" ELSE "unlock")
    /\ UNCHANGED <<sharer, lockVars, socket, reservation, intentVars, clientVars>>

\* A later step of Start fails: the instance lock goes first, the store closes
\* in Start's deferred calls.
StartFails(d) ==
    /\ pc[d] = "storing"
    /\ Goto(d, IF d \in Elsewhere THEN "failClose" ELSE "failUnlock")
    /\ UNCHANGED <<sharer, lockVars, writer, socket, reservation, intentVars, clientVars>>

\* openSocket dial-probes a file in its way: it evicts a stale socket, and
\* leaves a served one to its daemon.
OpenSocket(d) ==
    /\ pc[d] = "storing"
    /\ d \in Elsewhere \/ ~Connects
    /\ socket' = IF d \in Elsewhere THEN socket ELSE d
    /\ Goto(d, "serving")
    /\ UNCHANGED <<sharer, lockVars, writer, reservation, intentVars, clientVars>>

\* Idle, or SIGTERM: the listener closes, which unlinks the socket path.
CloseListener(d) ==
    /\ pc[d] = "serving"
    /\ socket' = IF d \in Elsewhere THEN socket ELSE Nobody
    /\ Goto(d, "closing")
    /\ UNCHANGED <<sharer, lockVars, writer, reservation, intentVars, clientVars>>

CloseCoreStore(d) ==
    /\ pc[d] \in {"closing", "failClose"}
    /\ writer' = Nobody
    /\ Goto(d, IF pc[d] = "failClose" \/ d \in Elsewhere THEN "exiting" ELSE "unlock")
    /\ UNCHANGED <<sharer, lockVars, socket, reservation, intentVars, clientVars>>

\* Mutant: the path is removed and the lock left to the end of the process.
MutReleaseKeepsLock(d) ==
    /\ pc[d] \in {"unlock", "failUnlock"}
    /\ MayStraddle \/ \A e \in Daemons : pc[e] # "opened"
    /\ Goto(d, IF pc[d] = "unlock" THEN "unlink" ELSE "failUnlink")
    /\ UNCHANGED <<sharer, lockVars, writer, socket, reservation, intentVars, clientVars>>

\* instanceLock.Release: unlock and close, and then remove the path.
ReleaseUnlock(d) ==
    /\ pc[d] \in {"unlock", "failUnlock"}
    /\ MayStraddle \/ \A e \in Daemons : pc[e] # "opened"
    /\ flock' = [flock EXCEPT ![fd[d]] = Nobody]
    /\ fd' = [fd EXCEPT ![d] = NoInode]
    /\ Goto(d, IF pc[d] = "unlock" THEN "unlink" ELSE "failUnlink")
    /\ UNCHANGED <<sharer, path, pidIn, writer, socket, reservation, intentVars, clientVars>>

ReleaseRemove(d) ==
    /\ pc[d] \in {"unlink", "failUnlink"}
    /\ path' = NoInode
    /\ Goto(d, IF pc[d] = "unlink" THEN "exiting" ELSE "failClose")
    /\ UNCHANGED <<sharer, fd, flock, pidIn, writer, socket, reservation, intentVars, clientVars>>

Exit(d) ==
    /\ pc[d] = "exiting"
    /\ Gone(d)
    /\ UNCHANGED <<path, pidIn, socket, intentVars, clientVars>>

\* A crash, or SIGKILL.
Crash(d) ==
    /\ Alive(d)
    /\ Gone(d)
    /\ UNCHANGED <<path, pidIn, socket, intentVars, clientVars>>

-----------------------------------------------------------------------------
(***************************************************************************)
(* The clients.                                                            *)
(***************************************************************************)
To(c, step) == cpc' = [cpc EXCEPT ![c] = step]

\* WithStartupLock polls until the startup budget runs out; a client that
\* gives up changes nothing.
WithStartupLock(c) ==
    /\ c \in Spawners \cup Restarters /\ cpc[c] = "idle" /\ reservation = Nobody
    /\ reservation' = c
    /\ To(c, IF c \in Restarters THEN "allow" ELSE "reserved")
    /\ UNCHANGED <<daemonVars, lockVars, writer, socket, intentVars, seen, child, conn>>

\* The command returns.  Releasing the reservation unlocks the open file, so a
\* daemon that shares it loses it too.
Return(c) ==
    /\ To(c, "idle")
    /\ reservation' = IF reservation = c THEN Nobody ELSE reservation
    /\ sharer' = [d \in Daemons |-> IF sharer[d] = c THEN Nobody ELSE sharer[d]]
    /\ seen' = [seen EXCEPT ![c] = Nobody] /\ child' = [child EXCEPT ![c] = Nobody]
    /\ conn' = [conn EXCEPT ![c] = Nobody]

\* The client is killed: nothing unlocks the open file, and a child that shares
\* it keeps the reservation.
Killed(c) ==
    /\ cpc[c] # "idle"
    /\ To(c, "idle")
    /\ reservation' = IF reservation # c THEN reservation
                      ELSE IF \E d \in Daemons : sharer[d] = c THEN CHOOSE d \in Daemons : sharer[d] = c
                      ELSE Nobody
    /\ sharer' = [d \in Daemons |-> IF sharer[d] = c THEN Nobody ELSE sharer[d]]
    /\ seen' = [seen EXCEPT ![c] = Nobody] /\ child' = [child EXCEPT ![c] = Nobody]
    /\ conn' = [conn EXCEPT ![c] = Nobody]
    /\ UNCHANGED <<pc, lockVars, writer, socket, intentVars>>

Client(c, step) ==
    /\ To(c, step)
    /\ UNCHANGED <<daemonVars, reservation, seen, child, conn>>

\* Both autospawns start with the stop intent.
ClientChecks(c) ==
    /\ cpc[c] = "reserved"
    /\ IF stopIntent THEN Return(c) /\ UNCHANGED pc ELSE Client(c, "probe")
    /\ UNCHANGED <<lockVars, writer, socket, intentVars>>

\* A live lock holder is waited for by an ordinary autospawn and refused by the
\* exact-executable one, which then refuses a served socket too.
ProbeHolder(c) ==
    /\ cpc[c] = "probe"
    /\ \/ /\ HolderAlive /\ c \in Spawners
          /\ To(c, "waitHolder")
          /\ seen' = [seen EXCEPT ![c] = LockHolderPID]
          /\ UNCHANGED <<daemonVars, reservation, child, conn>>
       \/ HolderAlive /\ c \in Restarters /\ Return(c) /\ UNCHANGED pc
       \/ ~HolderAlive /\ Client(c, IF c \in Spawners THEN "recheck" ELSE "exact")
    /\ UNCHANGED <<lockVars, writer, socket, intentVars>>

ProbeSocket(c) ==
    /\ cpc[c] = "exact"
    /\ IF Connects THEN Return(c) /\ UNCHANGED pc ELSE Client(c, "spawn")
    /\ UNCHANGED <<lockVars, writer, socket, intentVars>>

\* waitForSocketOrPIDDeath on the holder: connected, dead (spawn), or out of budget.
WaitHolder(c) ==
    /\ cpc[c] = "waitHolder"
    /\ IF Connects \/ Alive(seen[c]) THEN Return(c) /\ UNCHANGED pc ELSE Client(c, "recheck")
    /\ UNCHANGED <<lockVars, writer, socket, intentVars>>

RecheckIntent(c) ==
    /\ cpc[c] = "recheck"
    /\ IF stopIntent THEN Return(c) /\ UNCHANGED pc ELSE Client(c, "spawn")
    /\ UNCHANGED <<lockVars, writer, socket, intentVars>>

SpawnDaemon(c, d) ==
    /\ cpc[c] = "spawn" /\ d \in Managed /\ FreshPid(d)
    /\ Goto(d, "boot")
    /\ sharer' = [sharer EXCEPT ![d] = c]
    /\ child' = [child EXCEPT ![c] = d]
    /\ To(c, "waitChild")
    /\ UNCHANGED <<lockVars, writer, socket, reservation, intentVars, seen, conn>>

\* waitForSocketOrPIDDeath on the child: connected, dead, or out of budget.
WaitChild(c) ==
    /\ cpc[c] = "waitChild"
    /\ \/ /\ Connects /\ c \in Restarters
          /\ To(c, "verify") /\ conn' = [conn EXCEPT ![c] = socket]
          /\ UNCHANGED <<daemonVars, reservation, seen, child>>
       \/ Connects /\ c \in Spawners /\ Return(c) /\ UNCHANGED pc
       \/ ~Connects /\ Return(c) /\ UNCHANGED pc
    /\ UNCHANGED <<lockVars, writer, socket, intentVars>>

\* Mutant: any live lock holder will do.
MutVerifyAnyHolder(c) ==
    /\ cpc[c] = "verify"
    /\ IF HolderAlive THEN Client(c, "accepted") ELSE Return(c) /\ UNCHANGED pc
    /\ UNCHANGED <<lockVars, writer, socket, intentVars>>

\* The exact start accepts a connection only if its own child holds the lock.
VerifyChild(c) ==
    /\ cpc[c] = "verify"
    /\ IF LockHolderPID = child[c] /\ HolderAlive
       THEN Client(c, "accepted") ELSE Return(c) /\ UNCHANGED pc
    /\ UNCHANGED <<lockVars, writer, socket, intentVars>>

\* A restart has reported its daemon: the app resumes and the reservation ends.
Accept(c) ==
    /\ cpc[c] = "accepted"
    /\ Return(c)
    /\ UNCHANGED <<pc, lockVars, writer, socket, intentVars>>

AllowAutostart(c) ==
    /\ cpc[c] = "allow"
    /\ stopIntent' = FALSE /\ standing' = {} /\ stopped' = FALSE
    /\ Client(c, "find")
    /\ UNCHANGED <<lockVars, writer, socket>>

InhibitAutostart(c) ==
    /\ c \in Stoppers /\ cpc[c] = "idle"
    /\ stopIntent' = TRUE /\ standing' = standing \cup {c}
    /\ Client(c, "find")
    /\ UNCHANGED <<lockVars, writer, socket, stopped>>

\* What follows once no daemon is running: a restart starts one, a stop is done.
NotRunning(c) ==
    \/ c \in Restarters /\ Client(c, "reserved") /\ UNCHANGED stopped
    \/ c \in Stoppers /\ stopped' = (stopped \/ c \in standing) /\ Return(c) /\ UNCHANGED pc

\* FindDaemonProcess: the pid in the lock file, then SIGTERM; or the socket.
FindPid(c) ==
    /\ cpc[c] = "find"
    /\ \/ /\ HolderAlive
          /\ To(c, "waitStop") /\ seen' = [seen EXCEPT ![c] = LockHolderPID]
          /\ UNCHANGED <<daemonVars, reservation, child, conn>>
       \/ ~HolderAlive /\ Client(c, "findSocket")
    /\ UNCHANGED <<lockVars, writer, socket, intentVars>>

FindSocket(c) ==
    /\ cpc[c] = "findSocket"
    /\ IF Connects THEN Return(c) /\ UNCHANGED <<pc, stopped>> ELSE NotRunning(c)
    /\ UNCHANGED <<lockVars, writer, socket, stopIntent, standing>>

\* StopDaemon: the process exits, or the stop times out.
WaitStop(c) ==
    /\ cpc[c] = "waitStop"
    /\ IF Alive(seen[c]) THEN Return(c) /\ UNCHANGED <<pc, stopped>> ELSE NotRunning(c)
    /\ UNCHANGED <<lockVars, writer, socket, stopIntent, standing>>

-----------------------------------------------------------------------------
DaemonStep(d) ==
    \/ LockDaemonStartup(d) \/ LoseStartup(d)
    \/ OpenInstanceLock(d) \/ FlockInstance(d) \/ AlreadyRunning(d) \/ WritePid(d)
    \/ CheckAutostart(d) \/ OpenCoreStore(d) \/ OpenSocket(d)
    \/ CloseCoreStore(d) \/ ReleaseUnlock(d) \/ ReleaseRemove(d) \/ Exit(d)

DaemonFault(d) ==
    \/ CoreStoreFails(d) \/ StartFails(d) \/ Crash(d)

ClientStep(c) ==
    \/ WithStartupLock(c) \/ Killed(c) \/ ClientChecks(c) \/ ProbeHolder(c) \/ ProbeSocket(c)
    \/ WaitHolder(c) \/ RecheckIntent(c) \/ \E d \in Daemons : SpawnDaemon(c, d)
    \/ WaitChild(c) \/ VerifyChild(c) \/ Accept(c)
    \/ AllowAutostart(c) \/ InhibitAutostart(c) \/ FindPid(c) \/ FindSocket(c) \/ WaitStop(c)

Next ==
    \/ \E d \in Daemons : StartByHand(d) \/ CloseListener(d) \/ DaemonStep(d) \/ DaemonFault(d)
    \/ \E c \in Clients : ClientStep(c)

Spec == Init /\ [][Next]_vars

\* A started process runs: the kernel schedules it.  Strong fairness, because
\* without MayStraddle a release waits out the starts it must not straddle.
\* Nothing is assumed of a client, of the idle timer or of a failure.
FairSpec == Spec /\ \A d \in Daemons \ Elsewhere : SF_vars(DaemonStep(d))

-----------------------------------------------------------------------------
(***************************************************************************)
(* Properties.                                                             *)
(***************************************************************************)
HoldsStore == {"storing", "serving", "closing", "failUnlock", "failUnlink", "failClose"}

\* Whatever the sockets and however the daemons were started, at most one
\* process has the state database open, and a served socket is that process's:
\* openSocket never finds a live peer in its way (internal/daemon/
\* core_store_runtime.go, openCoreStore; server.go, openSocket).
OneWriter ==
    /\ \A d, e \in Daemons : pc[d] \in HoldsStore /\ pc[e] \in HoldsStore => d = e
    /\ \A d \in Daemons \ Elsewhere : pc[d] = "storing" => ~Connects

\* At most one daemon of a socket directory holds the instance lock.
SingleInstance ==
    \A d, e \in Daemons \ Elsewhere :
        (\E i \in Inodes : flock[i] = d) /\ (\E i \in Inodes : flock[i] = e) => d = e

\* Once a `canary stop` whose intent still stands has reported success, no daemon
\* of the directory serves until a restart clears the intent, a daemon that was
\* booting while the stop looked for it included: it wrote its pid before it read
\* the intent, and the stop wrote the intent before it read the pid.
StopMeansStopped ==
    stopped => \A d \in Daemons \ Elsewhere : pc[d] # "serving"

\* A restart that reports success has not connected its caller to some other
\* daemon that still serves, an orphan of an earlier autospawn for instance: it
\* accepts the connection only once its own child holds the instance lock
\* (AutospawnAndConnectContextFromExecutableWithTimeout).
RestartExact ==
    \A c \in Restarters : cpc[c] = "accepted" =>
        conn[c] = child[c] \/ pc[conn[c]] # "serving"

\* A daemon of the directory comes to serve or to be gone, from every step of a
\* start, a failed start or a stop: it never waits for the reservation its
\* parent holds while the parent waits for it (LockDaemonStartup).
BootSettles ==
    \A d \in Daemons \ Elsewhere : []<>(pc[d] \in {"serving", "absent"})
=============================================================================
