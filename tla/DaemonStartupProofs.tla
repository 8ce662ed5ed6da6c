------------------------ MODULE DaemonStartupProofs ------------------------
(***************************************************************************)
(* For any number of daemons, clients and socket directories, whatever     *)
(* crashes: at most one process has the state database open, however the   *)
(* instance locks are lost; and, where no start straddles a release, one   *)
(* daemon of a directory holds the instance lock, a stop holds and a       *)
(* restart reaches its own child.                                          *)
(***************************************************************************)
EXTENDS DaemonStartup, FiniteSetTheorems, TLAPS

\* The persistence lock is held by exactly the process that has the store open.
StoreInv ==
    /\ pc \in [Daemons -> DaemonSteps]
    /\ writer \in Daemons \cup {Nobody} /\ socket \in Daemons \cup {Nobody}
    /\ \A d \in Daemons : pc[d] \in HoldsStore <=> writer = d

\* Initially no process runs.
LEMMA StoreInit == Init => StoreInv
BY StartupAssumption DEF StartupAssumption, Init, StoreInv, HoldsStore, DaemonSteps

\* A process that is gone has closed its descriptor of the lock.
LEMMA GoneKeepsStore ==
    ASSUME StoreInv, NEW d \in Daemons, Gone(d), UNCHANGED socket
    PROVE  StoreInv'
BY StartupAssumption DEF StartupAssumption, StoreInv, Gone, HoldsStore, DaemonSteps

\* A step that moves one daemon without opening or closing its store.
LEMMA MoveKeepsStore ==
    ASSUME StoreInv, NEW d \in Daemons, NEW step \in DaemonSteps, Goto(d, step),
           step \in HoldsStore <=> pc[d] \in HoldsStore, UNCHANGED writer,
           socket' \in {socket, d, Nobody}
    PROVE  StoreInv'
BY DEF StoreInv, Goto

\* A daemon's own steps: only openCoreStore takes the lock, and only while
\* nobody has it; every way out of HoldsStore gives it back.
LEMMA DaemonKeepsStore ==
    ASSUME StoreInv, NEW d \in Daemons,
           StartByHand(d) \/ CloseListener(d) \/ DaemonStep(d) \/ DaemonFault(d)
    PROVE  StoreInv'
<1>1. CASE StartByHand(d)
  BY <1>1, MoveKeepsStore DEF StartByHand, FreshPid, HoldsStore, DaemonSteps
<1>2. CASE CloseListener(d)
  BY <1>2, MoveKeepsStore DEF CloseListener, HoldsStore, DaemonSteps
<1>3. CASE LockDaemonStartup(d) \/ OpenInstanceLock(d) \/ FlockInstance(d) \/ WritePid(d)
  BY <1>3, MoveKeepsStore
     DEF LockDaemonStartup, OpenInstanceLock, FlockInstance, WritePid, HoldsStore, DaemonSteps
<1>4. CASE LoseStartup(d) \/ AlreadyRunning(d) \/ Exit(d) \/ Crash(d)
  BY <1>4, GoneKeepsStore DEF LoseStartup, AlreadyRunning, Exit, Crash
<1>5. CASE CheckAutostart(d) \/ OpenSocket(d) \/ StartFails(d)
  BY <1>5, MoveKeepsStore DEF CheckAutostart, OpenSocket, StartFails, HoldsStore, DaemonSteps
<1>6. CASE OpenCoreStore(d)
  BY <1>6, StartupAssumption
     DEF StartupAssumption, OpenCoreStore, Goto, StoreInv, HoldsStore, DaemonSteps
<1>7. CASE CoreStoreFails(d)
  BY <1>7, StartupAssumption
     DEF StartupAssumption, CoreStoreFails, Goto, StoreInv, HoldsStore, DaemonSteps
<1>8. CASE CloseCoreStore(d)
  BY <1>8, StartupAssumption
     DEF StartupAssumption, CloseCoreStore, Goto, StoreInv, HoldsStore, DaemonSteps
<1>9. CASE ReleaseUnlock(d) \/ ReleaseRemove(d)
  BY <1>9, MoveKeepsStore DEF ReleaseUnlock, ReleaseRemove, HoldsStore, DaemonSteps
<1> QED
  BY <1>1, <1>2, <1>3, <1>4, <1>5, <1>6, <1>7, <1>8, <1>9 DEF DaemonStep, DaemonFault

\* A client moves a daemon only by starting its process.
LEMMA ClientKeepsStore ==
    ASSUME StoreInv, NEW c \in Clients, ClientStep(c)
    PROVE  StoreInv'
<1>1. CASE \E d \in Daemons : SpawnDaemon(c, d)
  BY <1>1, MoveKeepsStore DEF SpawnDaemon, FreshPid, HoldsStore, DaemonSteps
<1>2. CASE WithStartupLock(c) \/ Killed(c) \/ ClientChecks(c) \/ ProbeHolder(c) \/ ProbeSocket(c)
  BY <1>2 DEF WithStartupLock, Killed, ClientChecks, ProbeHolder, ProbeSocket, Client, daemonVars, StoreInv
<1>3. CASE WaitHolder(c) \/ RecheckIntent(c) \/ WaitChild(c) \/ VerifyChild(c) \/ Accept(c)
  BY <1>3 DEF WaitHolder, RecheckIntent, WaitChild, VerifyChild, Accept, Client, daemonVars, StoreInv
<1>4. CASE AllowAutostart(c) \/ InhibitAutostart(c) \/ FindPid(c) \/ FindSocket(c) \/ WaitStop(c)
  BY <1>4 DEF AllowAutostart, InhibitAutostart, FindPid, FindSocket, WaitStop, NotRunning, Client, daemonVars,
     StoreInv
<1> QED
  BY <1>1, <1>2, <1>3, <1>4 DEF ClientStep

\* openCoreStore: at most one process has the state database open, and a daemon
\* that goes on to bind the socket finds none serving it, for every number of
\* daemons, clients and socket directories.
THEOREM StoreHasOneWriter == Spec => []OneWriter
<1>1. StoreInv /\ [Next]_vars => StoreInv'
  <2> SUFFICES ASSUME StoreInv, [Next]_vars PROVE StoreInv'
    OBVIOUS
  <2>1. CASE UNCHANGED vars
    BY <2>1 DEF vars, daemonVars, StoreInv
  <2>2. CASE Next
    BY <2>2, DaemonKeepsStore, ClientKeepsStore DEF Next
  <2> QED
    BY <2>1, <2>2
<1>2. StoreInv => OneWriter
  BY DEF StoreInv, OneWriter, HoldsStore, Connects
<1> QED
  BY StoreInit, <1>1, <1>2, PTL DEF Spec

-----------------------------------------------------------------------------
(* The instance lock *)

\* The daemons of the socket directory.
Local == Daemons \ Elsewhere

\* Where a daemon has the lock file open, where it holds its flock, and where
\* the file names it.
HasFile == {"opened", "flocked", "instanced", "checked", "storing", "serving", "closing",
            "unlock", "failUnlock"}
HasLock == HasFile \ {"opened"}
HasPid == HasLock \ {"flocked"}
ElsewhereSteps == {"absent", "checked", "storing", "serving", "closing", "failClose", "exiting"}

\* A descriptor, a flock and a pid are there exactly as long as the daemon's
\* step says; an inode is flocked only by a daemon that has it open.
FileInv ==
    /\ \A d \in Local : pc[d] \in HasFile <=> fd[d] # NoInode
    /\ \A d \in Elsewhere : fd[d] = NoInode /\ pc[d] \in ElsewhereSteps
    /\ \A d \in Local : pc[d] \in HasLock => flock[fd[d]] = d
    /\ \A i \in Inodes : flock[i] # Nobody =>
          flock[i] \in Local /\ pc[flock[i]] \in HasLock /\ fd[flock[i]] = i
    /\ \A d \in Local : pc[d] \in HasPid => pidIn[fd[d]] = d
    /\ socket \notin Elsewhere

\* No descriptor is left on an inode the path no longer names, and nobody has the
\* file open while a release is about to remove it.
PathInv ==
    /\ \A d \in Local : pc[d] \in HasFile => fd[d] = path
    /\ \A d, e \in Local : pc[e] \in {"unlink", "failUnlink"} => pc[d] \notin HasFile

\* A daemon that read the stop intent before it was set, and has not begun to
\* stop.
Active == {"checked", "storing", "serving"}

\* What a stop whose intent stands has established at each of its steps.
StopInv ==
    /\ standing # {} => stopIntent
    /\ stopped => stopIntent /\ \A d \in Local : pc[d] \notin Active
    /\ \A c \in standing, d \in Local : pc[d] \in Active =>
          /\ cpc[c] # "findSocket"
          /\ cpc[c] = "waitStop" => seen[c] = d

\* From serving on, a process only stops.
Past == {"serving", "closing", "unlock", "unlink", "exiting", "absent"}

\* The daemon a restart connected to never serves again once it has stopped,
\* while the restart still names it.
ConnInv ==
    /\ \A c \in Clients : cpc[c] \in {"verify", "accepted"} => conn[c] # Nobody
    /\ \A c \in Clients : conn[c] # Nobody => conn[c] \in Local /\ pc[conn[c]] \in Past

-----------------------------------------------------------------------------
(* Types, and the files: no assumption on the interleaving *)

\* Initially there is no file and no process.
LEMMA FileInit == Init => TypeOK /\ FileInv
<1> SUFFICES ASSUME Init PROVE TypeOK /\ FileInv
  OBVIOUS
<1>1. TypeOK
  BY Zenon DEF Init, TypeOK, DaemonSteps, ClientSteps
<1>2. FileInv
  BY StartupAssumption
     DEF StartupAssumption, Init, FileInv, Local, HasFile, HasLock, HasPid, ElsewhereSteps
<1> QED
  BY <1>1, <1>2

\* acquireInstanceLock finds an inode for a new file: the other daemons have at
\* most one open each.
LEMMA InodeLeft ==
    ASSUME TypeOK, FileInv, NEW d \in Daemons, pc[d] = "reserved", path = NoInode
    PROVE  \E i \in Inodes : FreeInode(i)
<1> DEFINE Others == Daemons \ {d}
           file == [e \in Others |-> fd[e]]
           Open == {file[e] : e \in Others}
<1>1. IsFiniteSet(Others) /\ Cardinality(Others) = Cardinality(Daemons) - 1
  BY InodesAssumption, FS_RemoveElement DEF InodesAssumption
<1>2. IsFiniteSet(Open) /\ Cardinality(Open) <= Cardinality(Others)
  <2>1. file \in [Others -> Open]
    OBVIOUS
  <2>2. \A i \in Open : \E e \in Others : file[e] = i
    OBVIOUS
  <2> HIDE DEF Others, Open, file
  <2>3. file \in Surjection(Others, Open)
    BY <2>1, <2>2 DEF Surjection
  <2> QED
    BY <1>1, <2>3, FS_Surjection
<1>3. Cardinality(Daemons) \in Nat /\ Cardinality(Inodes) \in Nat /\ Cardinality(Open) \in Nat
  BY <1>2, InodesAssumption, FS_CardinalityType DEF InodesAssumption
<1>4. Cardinality(Open) < Cardinality(Inodes)
  BY <1>1, <1>2, <1>3, InodesAssumption DEF InodesAssumption
<1>5. ~(Inodes \subseteq Open)
  BY <1>2, <1>3, <1>4, FS_Subset
<1>6. PICK i \in Inodes : i \notin Open
  BY <1>5
<1>7. fd[d] # i
  BY StartupAssumption DEF StartupAssumption, TypeOK, FileInv, Local, HasFile, ElsewhereSteps
<1> QED
  BY <1>6, <1>7, StartupAssumption DEF StartupAssumption, FreeInode

\* A process that is gone leaves no descriptor and no flock.
LEMMA GoneKeepsFile ==
    ASSUME TypeOK, FileInv, NEW d \in Daemons, Gone(d), UNCHANGED <<path, pidIn, socket, intentVars, clientVars>>
    PROVE  TypeOK' /\ FileInv'
<1>1. TypeOK'
  BY DEF TypeOK, Gone, intentVars, clientVars, DaemonSteps
<1>2. FileInv'
  BY StartupAssumption
     DEF StartupAssumption, TypeOK, FileInv, Gone, Local, HasFile, HasLock, HasPid, ElsewhereSteps
<1> QED
  BY <1>1, <1>2

\* A step between two places that have the same files.
LEMMA MoveKeepsFile ==
    ASSUME TypeOK, FileInv, NEW d \in Daemons, NEW step \in DaemonSteps, Goto(d, step),
           d \in Elsewhere => step \in ElsewhereSteps,
           d \in Local => /\ step \in HasFile <=> pc[d] \in HasFile
                          /\ step \in HasLock <=> pc[d] \in HasLock
                          /\ step \in HasPid <=> pc[d] \in HasPid,
           UNCHANGED lockVars, socket' \in {socket, Nobody} \cup (Local \cap {d})
    PROVE  FileInv'
BY StartupAssumption DEF StartupAssumption, TypeOK, FileInv, Goto, Local, lockVars

\* acquireInstanceLock's three steps.
LEMMA OpenKeepsFile ==
    ASSUME TypeOK, FileInv, NEW d \in Daemons, OpenInstanceLock(d)
    PROVE  TypeOK' /\ FileInv'
<1>1. d \in Local /\ pc[d] = "reserved"
  BY DEF OpenInstanceLock, FileInv, Local, ElsewhereSteps
<1>2. CASE path # NoInode
  <2>1. TypeOK'
    BY <1>2 DEF OpenInstanceLock, Goto, TypeOK, DaemonSteps, intentVars, clientVars
  <2>2. FileInv'
    BY <1>1, <1>2, StartupAssumption
       DEF StartupAssumption, OpenInstanceLock, Goto, TypeOK, FileInv, Local, HasFile, HasLock, HasPid
  <2> QED
    BY <2>1, <2>2
<1>3. CASE path = NoInode
  <2>1. PICK i \in Inodes : FreeInode(i) /\ path' = i /\ fd' = [fd EXCEPT ![d] = i]
                            /\ pidIn' = [pidIn EXCEPT ![i] = Nobody]
    BY <1>1, <1>3, InodeLeft, Zenon DEF OpenInstanceLock
  <2>2. TypeOK'
    BY <2>1 DEF OpenInstanceLock, Goto, TypeOK, DaemonSteps, intentVars, clientVars
  <2>3. FileInv'
    BY <1>1, <2>1, StartupAssumption
       DEF StartupAssumption, FreeInode, OpenInstanceLock, Goto, TypeOK, FileInv, Local, HasFile, HasLock, HasPid
  <2> QED
    BY <2>2, <2>3
<1> QED
  BY <1>2, <1>3

\* Taking the lock, writing the pid and letting go of the lock.
LEMMA LockKeepsFile ==
    ASSUME TypeOK, FileInv, NEW d \in Daemons,
           FlockInstance(d) \/ WritePid(d) \/ ReleaseUnlock(d)
    PROVE  TypeOK' /\ FileInv'
<1>1. d \in Local
  BY DEF FlockInstance, WritePid, ReleaseUnlock, FileInv, Local, ElsewhereSteps
<1>2. fd[d] \in Inodes
  BY <1>1 DEF FlockInstance, WritePid, ReleaseUnlock, FileInv, TypeOK, HasFile
<1>3. CASE FlockInstance(d)
  <2>1. TypeOK'
    BY <1>2, <1>3 DEF FlockInstance, Goto, TypeOK, DaemonSteps, intentVars, clientVars
  <2>2. FileInv'
    BY <1>1, <1>2, <1>3, StartupAssumption
       DEF StartupAssumption, FlockInstance, Goto, TypeOK, FileInv, Local, HasFile, HasLock, HasPid
  <2> QED
    BY <2>1, <2>2
<1>4. CASE WritePid(d)
  <2>1. TypeOK'
    BY <1>2, <1>4 DEF WritePid, Goto, TypeOK, DaemonSteps, intentVars, clientVars
  <2>2. FileInv'
    BY <1>1, <1>2, <1>4, StartupAssumption, SMTT(30)
       DEF StartupAssumption, WritePid, Goto, TypeOK, FileInv, Local, HasFile, HasLock, HasPid
  <2> QED
    BY <2>1, <2>2
<1>5. CASE ReleaseUnlock(d)
  <2>1. TypeOK'
    BY <1>2, <1>5 DEF ReleaseUnlock, Goto, TypeOK, DaemonSteps, intentVars, clientVars
  <2>2. FileInv'
    BY <1>1, <1>2, <1>5, StartupAssumption
       DEF StartupAssumption, ReleaseUnlock, Goto, TypeOK, FileInv, Local, HasFile, HasLock, HasPid
  <2> QED
    BY <2>1, <2>2
<1> QED
  BY <1>3, <1>4, <1>5

\* Server.Start and Server.Stop keep the files in step with the daemon.
LEMMA DaemonKeepsFile ==
    ASSUME TypeOK, FileInv, NEW d \in Daemons,
           StartByHand(d) \/ CloseListener(d) \/ DaemonStep(d) \/ DaemonFault(d)
    PROVE  TypeOK' /\ FileInv'
<1> USE StartupAssumption DEF StartupAssumption, Local
<1>1. CASE OpenInstanceLock(d) \/ FlockInstance(d) \/ WritePid(d) \/ ReleaseUnlock(d)
  BY <1>1, OpenKeepsFile, LockKeepsFile
<1>2. CASE LoseStartup(d) \/ AlreadyRunning(d) \/ Exit(d) \/ Crash(d)
  BY <1>2, GoneKeepsFile DEF LoseStartup, AlreadyRunning, Exit, Crash
<1>3. CASE StartByHand(d) \/ LockDaemonStartup(d) \/ CheckAutostart(d)
  <2>1. TypeOK'
    <3>1. pc' \in [Daemons -> DaemonSteps]
      BY <1>3, Zenon DEF StartByHand, LockDaemonStartup, CheckAutostart, Goto, TypeOK, DaemonSteps
    <3>2. reservation' \in Daemons \cup Clients \cup {Nobody}
      BY <1>3, Zenon DEF StartByHand, LockDaemonStartup, CheckAutostart, TypeOK
    <3> QED
      BY <1>3, <3>1, <3>2, Zenon DEF StartByHand, LockDaemonStartup, CheckAutostart, TypeOK,
                                     lockVars, intentVars, clientVars
  <2>2. FileInv'
    BY <1>3, MoveKeepsFile, Zenon
       DEF StartByHand, FreshPid, LockDaemonStartup, CheckAutostart, FileInv, HasFile, HasLock, HasPid,
           ElsewhereSteps, DaemonSteps
  <2> QED
    BY <2>1, <2>2
<1>4. CASE OpenCoreStore(d) \/ CoreStoreFails(d) \/ StartFails(d)
  <2>1. TypeOK'
    BY <1>4 DEF OpenCoreStore, CoreStoreFails, StartFails, Goto, TypeOK, DaemonSteps,
                lockVars, intentVars, clientVars
  <2>2. FileInv'
    BY <1>4, MoveKeepsFile, Zenon
       DEF OpenCoreStore, CoreStoreFails, StartFails, FileInv, HasFile, HasLock, HasPid,
           ElsewhereSteps, DaemonSteps
  <2> QED
    BY <2>1, <2>2
<1>5. CASE OpenSocket(d) \/ CloseListener(d) \/ CloseCoreStore(d)
  <2>1. TypeOK'
    BY <1>5 DEF OpenSocket, CloseListener, CloseCoreStore, Goto, TypeOK, DaemonSteps,
                lockVars, intentVars, clientVars
  <2>2. CASE OpenSocket(d)
    BY <2>1, <2>2, MoveKeepsFile, Zenon DEF OpenSocket, FileInv, HasFile, HasLock, HasPid, ElsewhereSteps, DaemonSteps
  <2>3. CASE CloseListener(d)
    BY <2>1, <2>3, MoveKeepsFile, Zenon DEF CloseListener, FileInv, HasFile, HasLock, HasPid, ElsewhereSteps,
       DaemonSteps
  <2>4. CASE CloseCoreStore(d)
    BY <2>1, <2>4, MoveKeepsFile, ZenonT(30) DEF CloseCoreStore, FileInv, HasFile, HasLock, HasPid, ElsewhereSteps,
       DaemonSteps
  <2> QED
    BY <1>5, <2>2, <2>3, <2>4
<1>6. CASE ReleaseRemove(d)
  <2>1. TypeOK'
    BY <1>6 DEF ReleaseRemove, Goto, TypeOK, DaemonSteps, intentVars, clientVars
  <2>2. FileInv'
    BY <1>6 DEF ReleaseRemove, Goto, TypeOK, FileInv, HasFile, HasLock, HasPid, ElsewhereSteps
  <2> QED
    BY <2>1, <2>2
<1> QED
  BY <1>1, <1>2, <1>3, <1>4, <1>5, <1>6 DEF DaemonStep, DaemonFault

\* A client touches no lock file and starts a process without descriptors.
LEMMA ClientKeepsFile ==
    ASSUME TypeOK, FileInv, NEW c \in Clients, ClientStep(c)
    PROVE  TypeOK' /\ FileInv'
<1>1. CASE \E d \in Daemons : SpawnDaemon(c, d)
  <2> PICK d \in Daemons : SpawnDaemon(c, d)
    BY <1>1
  <2>1. TypeOK'
    BY DEF SpawnDaemon, Goto, To, TypeOK, DaemonSteps, ClientSteps, lockVars, intentVars
  <2>2. FileInv'
    BY MoveKeepsFile
       DEF SpawnDaemon, FreshPid, Managed, Local, HasFile, HasLock, HasPid, ElsewhereSteps, DaemonSteps
  <2> QED
    BY <2>1, <2>2
<1>2. CASE WithStartupLock(c) \/ Killed(c) \/ ClientChecks(c) \/ ProbeHolder(c) \/ ProbeSocket(c)
  <2>1. TypeOK'
    <3>1. CASE Killed(c)
      BY <3>1, Zenon DEF Killed, To, TypeOK, ClientSteps, lockVars, intentVars
    <3>2. CASE WithStartupLock(c) \/ ClientChecks(c) \/ ProbeSocket(c)
      BY <3>2 DEF WithStartupLock, ClientChecks, ProbeSocket, Client, Return, To, TypeOK, ClientSteps,
                  daemonVars, lockVars, intentVars
    <3>3. CASE ProbeHolder(c)
      BY <3>3 DEF ProbeHolder, HolderAlive, Alive, LockHolderPID, Client, Return, To, TypeOK, ClientSteps,
                  daemonVars, lockVars, intentVars
    <3> QED
      BY <1>2, <3>1, <3>2, <3>3
  <2>2. UNCHANGED <<pc, lockVars, socket>>
    BY <1>2 DEF WithStartupLock, Killed, ClientChecks, ProbeHolder, ProbeSocket, Client, daemonVars
  <2> QED
    BY <2>1, <2>2 DEF FileInv, lockVars
<1>3. CASE WaitHolder(c) \/ RecheckIntent(c) \/ WaitChild(c) \/ VerifyChild(c) \/ Accept(c)
  <2>1. TypeOK'
    <3>1. CASE WaitChild(c)
      BY <3>1 DEF WaitChild, Connects, Return, To, TypeOK, ClientSteps, daemonVars, lockVars, intentVars
    <3>2. CASE WaitHolder(c) \/ RecheckIntent(c)
      BY <3>2 DEF WaitHolder, RecheckIntent, Client, Return, To, TypeOK, ClientSteps,
                  daemonVars, lockVars, intentVars
    <3>3. CASE VerifyChild(c) \/ Accept(c)
      BY <3>3 DEF VerifyChild, Accept, Client, Return, To, TypeOK, ClientSteps,
                  daemonVars, lockVars, intentVars
    <3> QED
      BY <1>3, <3>1, <3>2, <3>3, Zenon
  <2>2. UNCHANGED <<pc, lockVars, socket>>
    BY <1>3 DEF WaitHolder, RecheckIntent, WaitChild, VerifyChild, Accept, Client, daemonVars
  <2> QED
    BY <2>1, <2>2 DEF FileInv, lockVars
<1>4. CASE AllowAutostart(c) \/ InhibitAutostart(c) \/ FindPid(c) \/ FindSocket(c) \/ WaitStop(c)
  <2>1. TypeOK'
    <3>1. CASE AllowAutostart(c) \/ InhibitAutostart(c)
      BY <3>1, Zenon DEF AllowAutostart, InhibitAutostart, Client, To, TypeOK, ClientSteps, daemonVars, lockVars
    <3>2. CASE FindPid(c)
      BY <3>2, Zenon DEF FindPid, HolderAlive, Alive, LockHolderPID, Client, To, TypeOK, ClientSteps,
                  daemonVars, lockVars, intentVars
    <3>3. CASE FindSocket(c) \/ WaitStop(c)
      <4>1. stopped' \in BOOLEAN
        BY <3>3, Zenon DEF FindSocket, WaitStop, NotRunning, TypeOK
      <4> QED
        BY <3>3, <4>1 DEF FindSocket, WaitStop, NotRunning, Client, Return, To, TypeOK, ClientSteps,
                          daemonVars, lockVars
    <3> QED
      BY <1>4, <3>1, <3>2, <3>3
  <2>2. UNCHANGED <<pc, lockVars, socket>>
    BY <1>4 DEF AllowAutostart, InhibitAutostart, FindPid, FindSocket, WaitStop, NotRunning, Client, daemonVars
  <2> QED
    BY <2>1, <2>2 DEF FileInv, lockVars
<1> QED
  BY <1>1, <1>2, <1>3, <1>4 DEF ClientStep

\* Every step keeps the types and what is known of the lock file.
LEMMA NextKeepsFile == TypeOK /\ FileInv /\ [Next]_vars => TypeOK' /\ FileInv'
<1> SUFFICES ASSUME TypeOK, FileInv, [Next]_vars PROVE TypeOK' /\ FileInv'
  OBVIOUS
<1>1. CASE UNCHANGED vars
  BY <1>1 DEF vars, daemonVars, lockVars, intentVars, clientVars, TypeOK, FileInv
<1>2. CASE Next
  BY <1>2, DaemonKeepsFile, ClientKeepsFile DEF Next
<1> QED
  BY <1>1, <1>2

\* The types hold for every number of daemons and clients, two starts that
\* straddle a release included; acquireInstanceLock always finds an inode.
THEOREM StartupTypes == Spec => []TypeOK
BY FileInit, NextKeepsFile, PTL DEF Spec

-----------------------------------------------------------------------------
(* Where no start straddles a release *)

\* A daemon that holds the flock is the only one with the file open, once no
\* start is between its open and its flock.
LEMMA OneHolder ==
    ASSUME TypeOK, FileInv, PathInv, NEW d \in Local, NEW e \in Local,
           pc[d] \in HasLock, pc[e] \in HasLock
    PROVE  d = e
BY DEF FileInv, PathInv, HasLock

\* The lock file names every daemon that has written its pid in it: the pid is
\* there, and the daemon is alive, until it releases the lock.
LEMMA HolderKnown ==
    ASSUME TypeOK, FileInv, PathInv, NEW d \in Local, pc[d] \in HasPid
    PROVE  LockHolderPID = d /\ HolderAlive
BY StartupAssumption
   DEF StartupAssumption, FileInv, PathInv, HasPid, HasLock, HasFile, LockHolderPID, HolderAlive, Alive, Local

\* Only a release removes the file, and then nobody has it open.
LEMMA DaemonKeepsPath ==
    ASSUME ~MayStraddle, TypeOK, FileInv, PathInv, NEW d \in Daemons,
           StartByHand(d) \/ CloseListener(d) \/ DaemonStep(d) \/ DaemonFault(d)
    PROVE  PathInv'
<1> USE StartupAssumption DEF StartupAssumption, Local, PathInv, Goto, lockVars
<1>1. CASE OpenInstanceLock(d)
  <2>1. \A e \in Local : pc'[e] \notin {"unlink", "failUnlink"}
    BY <1>1 DEF OpenInstanceLock, TypeOK
  <2>2. fd'[d] = path' /\ \A e \in Local \ {d} : fd'[e] = fd[e] /\ pc'[e] = pc[e]
    BY <1>1, ZenonT(30) DEF OpenInstanceLock, TypeOK
  <2>3. path # NoInode => path' = path
    BY <1>1 DEF OpenInstanceLock
  <2>4. path = NoInode => \A e \in Local : pc[e] \notin HasFile
    BY DEF FileInv
  <2> QED
    BY <2>1, <2>2, <2>3, <2>4, Zenon
<1>2. CASE FlockInstance(d) \/ WritePid(d)
  BY <1>2 DEF FlockInstance, WritePid, TypeOK, HasFile
<1>3. CASE LoseStartup(d) \/ AlreadyRunning(d) \/ Exit(d) \/ Crash(d)
  BY <1>3, SMTT(30) DEF LoseStartup, AlreadyRunning, Exit, Crash, Gone, TypeOK, HasFile
<1>4. CASE StartByHand(d) \/ LockDaemonStartup(d) \/ CheckAutostart(d)
  BY <1>4 DEF StartByHand, FreshPid, LockDaemonStartup, CheckAutostart, TypeOK, FileInv, HasFile
<1>5. CASE OpenCoreStore(d) \/ CoreStoreFails(d) \/ StartFails(d)
  BY <1>5 DEF OpenCoreStore, CoreStoreFails, StartFails, TypeOK, HasFile
<1>6. CASE OpenSocket(d) \/ CloseListener(d) \/ CloseCoreStore(d)
  BY <1>6 DEF OpenSocket, CloseListener, CloseCoreStore, TypeOK, HasFile
<1>7. CASE ReleaseUnlock(d)
  <2>1. d \in Local /\ pc[d] \in HasLock
    BY <1>7, Zenon DEF ReleaseUnlock, FileInv, ElsewhereSteps, HasLock, HasFile
  <2>2. \A e \in Local : pc[e] \in HasFile => e = d
    BY <1>7, <2>1, OneHolder DEF ReleaseUnlock, HasLock
  <2> QED
    BY <1>7, <2>1, <2>2 DEF ReleaseUnlock, TypeOK, HasFile
<1>8. CASE ReleaseRemove(d)
  BY <1>8 DEF ReleaseRemove, TypeOK, FileInv, HasFile, ElsewhereSteps
<1> QED
  BY <1>1, <1>2, <1>3, <1>4, <1>5, <1>6, <1>7, <1>8, Zenon DEF DaemonStep, DaemonFault

\* What a client step may do to the daemons: nothing, or start one.
LEMMA ClientMoves ==
    ASSUME TypeOK, NEW c \in Clients, ClientStep(c)
    PROVE  /\ UNCHANGED <<lockVars, socket>>
           /\ UNCHANGED pc \/ \E d \in Managed : FreshPid(d) /\ Goto(d, "boot")
<1>1. CASE \E d \in Daemons : SpawnDaemon(c, d)
  BY <1>1 DEF SpawnDaemon
<1>2. CASE WithStartupLock(c) \/ Killed(c) \/ ClientChecks(c) \/ ProbeHolder(c) \/ ProbeSocket(c)
  BY <1>2 DEF WithStartupLock, Killed, ClientChecks, ProbeHolder, ProbeSocket, Client, daemonVars
<1>3. CASE WaitHolder(c) \/ RecheckIntent(c) \/ WaitChild(c) \/ VerifyChild(c) \/ Accept(c)
  BY <1>3, Zenon DEF WaitHolder, RecheckIntent, WaitChild, VerifyChild, Accept, Client, daemonVars
<1>4. CASE AllowAutostart(c) \/ InhibitAutostart(c) \/ FindPid(c) \/ FindSocket(c) \/ WaitStop(c)
  BY <1>4 DEF AllowAutostart, InhibitAutostart, FindPid, FindSocket, WaitStop, NotRunning, Client, daemonVars
<1> QED
  BY <1>1, <1>2, <1>3, <1>4 DEF ClientStep

\* Every step keeps the lock file at its path while a daemon relies on it.
LEMMA NextKeepsPath ==
    ASSUME ~MayStraddle
    PROVE  TypeOK /\ FileInv /\ PathInv /\ [Next]_vars => PathInv'
<1> SUFFICES ASSUME TypeOK, FileInv, PathInv, [Next]_vars PROVE PathInv'
  OBVIOUS
<1>1. CASE UNCHANGED vars
  BY <1>1, Zenon DEF vars, daemonVars, lockVars, PathInv
<1>2. ASSUME NEW c \in Clients, ClientStep(c) PROVE PathInv'
  BY <1>2, ClientMoves DEF FreshPid, Goto, Managed, TypeOK, PathInv, HasFile, Local, lockVars
<1> QED
  BY <1>1, <1>2, DaemonKeepsPath DEF Next

\* instanceLock: at most one daemon of a socket directory holds the lock, for
\* every number of daemons and clients, as long as no start's open and flock
\* straddle another daemon's unlock and remove.
THEOREM OneInstance ==
    ASSUME ~MayStraddle
    PROVE  Spec => []SingleInstance
<1>1. Init => PathInv
  BY DEF Init, PathInv, Local, HasFile
<1>2. TypeOK /\ FileInv /\ PathInv => SingleInstance
  BY OneHolder, StartupAssumption DEF StartupAssumption, SingleInstance, FileInv, Local
<1> QED
  BY FileInit, NextKeepsFile, NextKeepsPath, <1>1, <1>2, PTL DEF Spec

-----------------------------------------------------------------------------
(* The stop *)

\* A daemon step touches no client and no intent, and a daemon of the directory
\* becomes active only by reading that there is no intent.
LEMMA DaemonActs ==
    ASSUME TypeOK, FileInv, NEW d \in Daemons,
           StartByHand(d) \/ CloseListener(d) \/ DaemonStep(d) \/ DaemonFault(d)
    PROVE  /\ UNCHANGED <<intentVars, clientVars>>
           /\ \A e \in Local : pc'[e] \in Active => pc[e] \in Active \/ ~stopIntent
<1> USE DEF Goto, Active, Local, TypeOK
<1>1. CASE OpenInstanceLock(d) \/ FlockInstance(d) \/ WritePid(d)
  BY <1>1, Zenon DEF OpenInstanceLock, FlockInstance, WritePid
<1>2. CASE LoseStartup(d) \/ AlreadyRunning(d) \/ Exit(d) \/ Crash(d)
  BY <1>2 DEF LoseStartup, AlreadyRunning, Exit, Crash, Gone
<1>3. CASE StartByHand(d) \/ LockDaemonStartup(d) \/ CheckAutostart(d)
  BY <1>3 DEF StartByHand, LockDaemonStartup, CheckAutostart
<1>4. CASE OpenCoreStore(d) \/ CoreStoreFails(d) \/ StartFails(d)
  BY <1>4 DEF OpenCoreStore, CoreStoreFails, StartFails
<1>5. CASE OpenSocket(d) \/ CloseListener(d) \/ CloseCoreStore(d)
  BY <1>5 DEF OpenSocket, CloseListener, CloseCoreStore
<1>6. CASE ReleaseUnlock(d) \/ ReleaseRemove(d)
  BY <1>6, Zenon DEF ReleaseUnlock, ReleaseRemove
<1> QED
  BY <1>1, <1>2, <1>3, <1>4, <1>5, <1>6, Zenon DEF DaemonStep, DaemonFault

\* The steps of a client that neither looks for a daemon nor reports a stop:
\* the intent is as it was, or set, or cleared.
LEMMA OtherClientsKeepStop ==
    ASSUME TypeOK, StopInv, NEW c \in Clients, \A e \in Local : pc'[e] \in Active => pc[e] \in Active,
           cpc'[c] \notin {"findSocket", "waitStop"}, \A k \in Clients \ {c} : cpc'[k] = cpc[k] /\ seen'[k] = seen[k],
           \/ UNCHANGED intentVars
           \/ stopIntent' /\ standing' = standing \cup {c} /\ UNCHANGED stopped
           \/ ~stopped' /\ standing' = {}
    PROVE  StopInv'
<1>1. standing \subseteq Clients
  BY Zenon DEF TypeOK, Clients
<1> QED
  BY <1>1 DEF StopInv, intentVars

\* FindDaemonProcess: the stop has written its intent, so a daemon that is
\* active has read the intent before and written its pid before that; the file
\* names it.
LEMMA FindPidKeepsStop ==
    ASSUME TypeOK, FileInv, PathInv, StopInv, NEW c \in Clients, FindPid(c)
    PROVE  StopInv'
<1>1. UNCHANGED <<pc, intentVars>> /\ \A k \in Clients \ {c} : cpc'[k] = cpc[k] /\ seen'[k] = seen[k]
  BY DEF FindPid, Client, To, daemonVars, TypeOK
<1>2. standing \subseteq Clients
  BY DEF TypeOK, Clients
<1>3. ASSUME NEW d \in Local, pc[d] \in Active
      PROVE  cpc'[c] = "waitStop" /\ seen'[c] = d
  <2>1. LockHolderPID = d /\ HolderAlive
    BY <1>3, HolderKnown DEF Active, HasPid, HasLock, HasFile
  <2> QED
    BY <2>1 DEF FindPid, To, TypeOK
<1> QED
  BY <1>1, <1>2, <1>3, Zenon DEF StopInv, intentVars

\* The stop reports success only when no daemon is active.
LEMMA NotRunningKeepsStop ==
    ASSUME TypeOK, StopInv, NEW c \in Clients, FindSocket(c) \/ WaitStop(c)
    PROVE  StopInv'
<1>1. UNCHANGED <<pc, stopIntent, standing>>
  BY Zenon DEF FindSocket, WaitStop, NotRunning, Client, daemonVars
<1>2. cpc'[c] \notin {"findSocket", "waitStop"}
  BY Zenon DEF FindSocket, WaitStop, NotRunning, Client, Return, To, TypeOK
<1>3. \A k \in Clients \ {c} : cpc'[k] = cpc[k] /\ seen'[k] = seen[k]
  BY DEF FindSocket, WaitStop, NotRunning, Client, Return, To, TypeOK
<1>4. standing \subseteq Clients
  BY DEF TypeOK, Clients
<1>5. stopped' => stopped \/ (c \in standing /\ \A d \in Local : pc[d] \notin Active)
  <2>1. CASE FindSocket(c)
    BY <2>1, Zenon DEF FindSocket, NotRunning, StopInv
  <2>2. CASE WaitStop(c)
    <3> SUFFICES ASSUME stopped', ~stopped PROVE c \in standing /\ \A d \in Local : pc[d] \notin Active
      OBVIOUS
    <3>1. c \in standing /\ ~Alive(seen[c])
      BY <2>2, Zenon DEF WaitStop, NotRunning
    <3> QED
      BY <2>2, <3>1, StartupAssumption DEF StartupAssumption, WaitStop, StopInv, Alive, Active, Local
  <2> QED
    BY <2>1, <2>2
<1> QED
  BY <1>1, <1>2, <1>3, <1>4, <1>5, Zenon DEF StopInv

\* Every step keeps what a stop that reported success has ruled out.
LEMMA NextKeepsStop == TypeOK /\ FileInv /\ PathInv /\ StopInv /\ [Next]_vars => StopInv'
<1> SUFFICES ASSUME TypeOK, FileInv, PathInv, StopInv, [Next]_vars PROVE StopInv'
  BY Zenon
<1>1. CASE UNCHANGED vars
  BY <1>1 DEF vars, daemonVars, intentVars, clientVars, StopInv
<1>2. ASSUME NEW d \in Daemons, StartByHand(d) \/ CloseListener(d) \/ DaemonStep(d) \/ DaemonFault(d)
      PROVE  StopInv'
  BY <1>2, DaemonActs DEF StopInv, intentVars, clientVars
<1>3. ASSUME NEW c \in Clients, ClientStep(c) PROVE StopInv'
  <2>1. CASE FindPid(c)
    BY <2>1, FindPidKeepsStop
  <2>2. CASE FindSocket(c) \/ WaitStop(c)
    BY <2>2, NotRunningKeepsStop, Zenon
  <2>3. \A e \in Local : pc'[e] \in Active => pc[e] \in Active
    BY <1>3, ClientMoves, Zenon DEF Goto, TypeOK, Active, Local, Managed
  <2>4. CASE WithStartupLock(c) \/ Killed(c) \/ ClientChecks(c) \/ ProbeHolder(c) \/ ProbeSocket(c)
    <3>1. UNCHANGED intentVars
      BY <2>4, Zenon DEF WithStartupLock, Killed, ClientChecks, ProbeHolder, ProbeSocket
    <3>2. cpc'[c] \notin {"findSocket", "waitStop"} /\ \A k \in Clients \ {c} : cpc'[k] = cpc[k] /\ seen'[k] = seen[k]
      BY <2>4, Zenon DEF WithStartupLock, Killed, ClientChecks, ProbeHolder, ProbeSocket, Client, Return, To, TypeOK
    <3> QED
      BY <2>3, <3>1, <3>2, OtherClientsKeepStop, Zenon
  <2>5. CASE WaitHolder(c) \/ RecheckIntent(c) \/ WaitChild(c) \/ VerifyChild(c) \/ Accept(c)
             \/ \E d \in Daemons : SpawnDaemon(c, d)
    <3>1. UNCHANGED intentVars
      BY <2>5, Zenon DEF WaitHolder, RecheckIntent, WaitChild, VerifyChild, Accept, SpawnDaemon
    <3>2. cpc'[c] \notin {"findSocket", "waitStop"} /\ \A k \in Clients \ {c} : cpc'[k] = cpc[k] /\ seen'[k] = seen[k]
      BY <2>5, Zenon DEF WaitHolder, RecheckIntent, WaitChild, VerifyChild, Accept, SpawnDaemon, Client,
         Return, To, TypeOK
    <3> QED
      BY <2>3, <3>1, <3>2, OtherClientsKeepStop, Zenon
  <2>6. CASE AllowAutostart(c) \/ InhibitAutostart(c)
    <3>1. \/ stopIntent' /\ standing' = standing \cup {c} /\ UNCHANGED stopped
          \/ ~stopped' /\ standing' = {}
      BY <2>6, Zenon DEF AllowAutostart, InhibitAutostart
    <3>2. cpc'[c] \notin {"findSocket", "waitStop"} /\ \A k \in Clients \ {c} : cpc'[k] = cpc[k] /\ seen'[k] = seen[k]
      BY <2>6 DEF AllowAutostart, InhibitAutostart, Client, To, TypeOK
    <3> QED
      BY <2>3, <3>1, <3>2, OtherClientsKeepStop, Zenon
  <2> QED
    BY <1>3, <2>1, <2>2, <2>4, <2>5, <2>6 DEF ClientStep
<1> QED
  BY <1>1, <1>2, <1>3 DEF Next

\* `canary stop` (StopDaemon, FindDaemonProcess, CheckAutostart): once a stop
\* whose intent stands has reported success no daemon of the directory serves,
\* for every number of daemons, restarts and concurrent stops, where no start
\* straddles a release.
THEOREM StopHolds ==
    ASSUME ~MayStraddle
    PROVE  Spec => []StopMeansStopped
<1>1. Init => PathInv /\ StopInv
  BY Zenon DEF Init, PathInv, StopInv, Local, HasFile
<1>2. StopInv => StopMeansStopped
  BY Zenon DEF StopInv, StopMeansStopped, Active, Local
<1> QED
  BY FileInit, NextKeepsFile, NextKeepsPath, NextKeepsStop, <1>1, <1>2, PTL DEF Spec

-----------------------------------------------------------------------------
(* The restart *)

\* A process that serves or has stopped serving does not serve again unless its
\* slot is given to a new process.
LEMMA DaemonStaysPast ==
    ASSUME TypeOK, NEW d \in Daemons, NEW e \in Local, pc[e] \in Past, ~FreshPid(e),
           StartByHand(d) \/ CloseListener(d) \/ DaemonStep(d) \/ DaemonFault(d)
    PROVE  pc'[e] \in Past /\ (pc'[e] = "serving" => pc[e] = "serving")
<1> USE DEF Goto, Past, Local, TypeOK
<1>1. CASE OpenInstanceLock(d) \/ FlockInstance(d) \/ WritePid(d)
  BY <1>1, Zenon DEF OpenInstanceLock, FlockInstance, WritePid
<1>2. CASE LoseStartup(d) \/ AlreadyRunning(d) \/ Exit(d) \/ Crash(d)
  BY <1>2, Zenon DEF LoseStartup, AlreadyRunning, Exit, Crash, Gone
<1>3. CASE StartByHand(d) \/ LockDaemonStartup(d) \/ CheckAutostart(d)
  BY <1>3, Zenon DEF StartByHand, LockDaemonStartup, CheckAutostart
<1>4. CASE OpenCoreStore(d) \/ CoreStoreFails(d) \/ StartFails(d)
  BY <1>4, Zenon DEF OpenCoreStore, CoreStoreFails, StartFails
<1>5. CASE OpenSocket(d) \/ CloseListener(d) \/ CloseCoreStore(d)
  BY <1>5, Zenon DEF OpenSocket, CloseListener, CloseCoreStore
<1>6. CASE ReleaseUnlock(d) \/ ReleaseRemove(d)
  BY <1>6 DEF ReleaseUnlock, ReleaseRemove
<1> QED
  BY <1>1, <1>2, <1>3, <1>4, <1>5, <1>6, Zenon DEF DaemonStep, DaemonFault

\* The steps of a daemon keep what is known of the clients connected to it.
LEMMA DaemonKeepsConn ==
    ASSUME TypeOK, FileInv, ConnInv, RestartExact, NEW d \in Daemons,
           StartByHand(d) \/ CloseListener(d) \/ DaemonStep(d) \/ DaemonFault(d)
    PROVE  ConnInv' /\ RestartExact'
<1>1. UNCHANGED clientVars
  BY DaemonActs
<1>2. \A c \in Clients : conn[c] # Nobody =>
          pc'[conn[c]] \in Past /\ (pc'[conn[c]] = "serving" => pc[conn[c]] = "serving")
  <2> TAKE c \in Clients
  <2> HAVE conn[c] # Nobody
  <2> DEFINE e == conn[c]
  <2>1. e \in Local /\ pc[e] \in Past /\ ~FreshPid(e)
    BY Zenon DEF ConnInv, FreshPid
  <2> HIDE DEF e
  <2>2. pc'[e] \in Past /\ (pc'[e] = "serving" => pc[e] = "serving")
    BY <2>1, DaemonStaysPast, Zenon
  <2> QED
    BY <2>2 DEF e
<1>3. ConnInv'
  BY <1>1, <1>2, Zenon DEF ConnInv, clientVars
<1>4. RestartExact'
  BY <1>1, <1>2, Zenon DEF ConnInv, RestartExact, clientVars, Clients
<1> QED
  BY <1>3, <1>4

\* A client step that leaves the connected daemons where they are.
LEMMA ClientKeepsPast ==
    ASSUME TypeOK, ConnInv, NEW c \in Clients, ClientStep(c)
    PROVE  \A k \in Clients : conn[k] # Nobody => pc'[conn[k]] = pc[conn[k]]
<1> SUFFICES ASSUME NEW k \in Clients, conn[k] # Nobody PROVE pc'[conn[k]] = pc[conn[k]]
  BY Zenon
<1>1. conn[k] \in Daemons /\ ~FreshPid(conn[k])
  BY DEF ConnInv, Local, FreshPid
<1> QED
  BY <1>1, ClientMoves DEF Goto, TypeOK

\* The exact start connects to the daemon that serves the socket, and accepts
\* the connection when the lock file names its own child.
LEMMA RestartKeepsConn ==
    ASSUME TypeOK, FileInv, PathInv, ConnInv, RestartExact, NEW c \in Clients, WaitChild(c) \/ VerifyChild(c)
    PROVE  ConnInv' /\ RestartExact'
<1>1. UNCHANGED pc /\ \A k \in Clients \ {c} : cpc'[k] = cpc[k] /\ conn'[k] = conn[k] /\ child'[k] = child[k]
  BY DEF WaitChild, VerifyChild, Client, Return, To, TypeOK, daemonVars
<1>2. CASE WaitChild(c)
  <2>1. \/ cpc'[c] = "verify" /\ conn'[c] = socket /\ Connects
        \/ cpc'[c] = "idle" /\ conn'[c] = Nobody
    BY <1>2, Zenon DEF WaitChild, Return, To, TypeOK
  <2>2. Connects => socket \in Local /\ pc[socket] \in Past
    BY DEF Connects, TypeOK, FileInv, Local, Past
  <2> QED
    BY <1>1, <2>1, <2>2, Zenon DEF ConnInv, RestartExact, Connects, Clients
<1>3. CASE VerifyChild(c)
  <2>1. CASE LockHolderPID = child[c] /\ HolderAlive
    <3>1. cpc'[c] = "accepted" /\ conn' = conn /\ child' = child
      BY <1>3, <2>1 DEF VerifyChild, Client, To, TypeOK
    <3>2. conn[c] \in Local
      BY <1>3, Zenon DEF VerifyChild, ConnInv
    <3>3. pc[conn[c]] = "serving" => conn[c] = child[c]
      <4>1. "serving" \in HasPid
        BY SMTT(30) DEF HasPid, HasLock, HasFile
      <4> QED
        BY <2>1, <3>2, <4>1, HolderKnown, Zenon
    <3> QED
      BY <1>1, <3>1, <3>2, <3>3, StartupAssumption, SMTT(30) DEF StartupAssumption, ConnInv, RestartExact, Clients, Local
  <2>2. CASE ~(LockHolderPID = child[c] /\ HolderAlive)
    BY <1>1, <1>3, <2>2 DEF VerifyChild, Return, To, TypeOK, ConnInv, RestartExact, Clients
  <2> QED
    BY <2>1, <2>2, Zenon
<1> QED
  BY <1>2, <1>3, Zenon

\* Any other client step ends the restart or leaves its connection alone.
LEMMA OtherClientsKeepConn ==
    ASSUME TypeOK, ConnInv, RestartExact, NEW c \in Clients, ClientStep(c),
           cpc'[c] \notin {"verify", "accepted"}, conn'[c] \in {conn[c], Nobody},
           \A k \in Clients \ {c} : cpc'[k] = cpc[k] /\ conn'[k] = conn[k] /\ child'[k] = child[k]
    PROVE  ConnInv' /\ RestartExact'
<1>1. \A k \in Clients : conn[k] # Nobody => pc'[conn[k]] = pc[conn[k]]
  BY ClientKeepsPast, Zenon
<1>2. ConnInv'
  <2>1. ASSUME NEW k \in Clients, cpc'[k] \in {"verify", "accepted"} PROVE conn'[k] # Nobody
    <3>1. k # c
      BY <2>1, ZenonT(30)
    <3> QED
      BY <2>1, <3>1, Zenon DEF ConnInv
  <2>2. ASSUME NEW k \in Clients, conn'[k] # Nobody PROVE conn'[k] \in Local /\ pc'[conn'[k]] \in Past
    <3>1. conn'[k] = conn[k]
      BY <2>2, Zenon
    <3> QED
      BY <1>1, <2>2, <3>1, ZenonT(30) DEF ConnInv
  <2> QED
    BY <2>1, <2>2, Zenon DEF ConnInv, Local
<1>3. ASSUME NEW k \in Restarters, cpc'[k] = "accepted" PROVE conn'[k] = child'[k] \/ pc'[conn'[k]] # "serving"
  <2>1. k \in Clients \ {c}
    BY <1>3, Zenon DEF Clients
  <2>2. cpc[k] = "accepted" /\ conn'[k] = conn[k] /\ child'[k] = child[k]
    BY <1>3, <2>1, Zenon
  <2>3. conn[k] = child[k] \/ pc[conn[k]] # "serving"
    BY <1>3, <2>2, Zenon DEF RestartExact
  <2>4. pc'[conn[k]] = pc[conn[k]]
    BY <1>1, <2>1, <2>2 DEF ConnInv
  <2> QED
    BY <2>2, <2>3, <2>4, Zenon
<1> QED
  BY <1>2, <1>3, Zenon DEF RestartExact

\* Every step keeps what is known of the connections, and restarts exact.
LEMMA NextKeepsConn ==
    TypeOK /\ FileInv /\ PathInv /\ ConnInv /\ RestartExact /\ [Next]_vars => ConnInv' /\ RestartExact'
<1> SUFFICES ASSUME TypeOK, FileInv, PathInv, ConnInv, RestartExact, [Next]_vars
             PROVE  ConnInv' /\ RestartExact'
  BY Zenon
<1>1. CASE UNCHANGED vars
  BY <1>1 DEF vars, daemonVars, clientVars, ConnInv, RestartExact
<1>2. ASSUME NEW c \in Clients, ClientStep(c) PROVE ConnInv' /\ RestartExact'
  <2>1. CASE WaitChild(c) \/ VerifyChild(c)
    BY <2>1, RestartKeepsConn, Zenon
  <2>2. CASE ~(WaitChild(c) \/ VerifyChild(c))
    <3>1. cpc'[c] \notin {"verify", "accepted"}
      BY <1>2, <2>2, Zenon DEF ClientStep, WithStartupLock, Killed, ClientChecks, ProbeHolder, ProbeSocket,
         WaitHolder,
                        RecheckIntent, SpawnDaemon, Accept, AllowAutostart, InhibitAutostart, FindPid,
                        FindSocket, WaitStop, NotRunning, Client, Return, To, TypeOK
    <3>2. conn'[c] \in {conn[c], Nobody}
      BY <1>2, <2>2, Zenon DEF ClientStep, WithStartupLock, Killed, ClientChecks, ProbeHolder, ProbeSocket,
         WaitHolder,
                        RecheckIntent, SpawnDaemon, Accept, AllowAutostart, InhibitAutostart, FindPid,
                        FindSocket, WaitStop, NotRunning, Client, Return, TypeOK
    <3>3. \A k \in Clients \ {c} : cpc'[k] = cpc[k] /\ conn'[k] = conn[k] /\ child'[k] = child[k]
      BY <1>2, <2>2, Zenon DEF ClientStep, WithStartupLock, Killed, ClientChecks, ProbeHolder, ProbeSocket,
         WaitHolder,
                        RecheckIntent, SpawnDaemon, Accept, AllowAutostart, InhibitAutostart, FindPid,
                        FindSocket, WaitStop, NotRunning, Client, Return, To, TypeOK
    <3> QED
      BY <1>2, <3>1, <3>2, <3>3, OtherClientsKeepConn, Zenon
  <2> QED
    BY <2>1, <2>2
<1> QED
  BY <1>1, <1>2, DaemonKeepsConn DEF Next

\* AutospawnAndConnectContextFromExecutableWithTimeout: a restart that reports
\* success is not connected to another daemon that still serves, for every
\* number of daemons, orphans and clients, where no start straddles a release.
THEOREM RestartReachesItsChild ==
    ASSUME ~MayStraddle
    PROVE  Spec => []RestartExact
<1>1. Init => PathInv /\ ConnInv /\ RestartExact
  BY DEF Init, PathInv, ConnInv, RestartExact, Clients, Local, HasFile
<1> QED
  BY FileInit, NextKeepsFile, NextKeepsPath, NextKeepsConn, <1>1, PTL DEF Spec
=============================================================================
