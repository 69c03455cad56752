--------------------------- MODULE StartupProofs ----------------------------
(***************************************************************************)
(* For any number of agents and starts: whoever passed flopen's comparison *)
(* of inodes is alone with the pid file until it unlinks it or ends.       *)
(***************************************************************************)
EXTENDS Startup, FiniteSetTheorems, TLAPS

\* flopen and what follows it has a descriptor,
Opening == {"flock", "stat", "truncate", "write", "unlink", "exit unlink", "close", "exit close"}
HasFd == \A a \in Agents : pc[a] \in Opening => fd[a] # 0
\* whose lock is the agent's after flock,
HasLock == \A a \in Agents : (pc[a] = "stat" \/ Holds(a)) => lock[fd[a]] = a
\* and which is the file at the path after stat, with the pid in it in the end.
AtPath == \A a \in Agents : Holds(a) => path = fd[a]
Inv == TypeOK /\ HasFd /\ HasLock /\ AtPath /\ PidStays

LEMMA NoInodeZero == 0 \notin Inodes
  BY FS_CardinalityType, StartupAssumption DEF Inodes

\* The lock has one owner and the path one file.
LEMMA OneHolder ==
  ASSUME Inv, NEW a \in Agents, NEW b \in Agents, Holds(a), (pc[b] = "stat" /\ path = fd[b]) \/ Holds(b)
  PROVE  a = b
  BY DEF Inv, HasLock, AtPath

LEMMA InitInv == Init => Inv
  BY StartupAssumption DEF Init, Inv, TypeOK, PCs, HasFd, HasLock, AtPath, PidStays, Holds, Opening

\* An agent that gives up its descriptor, as it ends or before.
LEMMA ReleaseInv ==
  ASSUME Inv, NEW a \in Agents, NEW p \in {"off", "open", "start"}, Close(a), Go(a, p),
         port' \in {port, None}, UNCHANGED <<starts, path, content, tries>>
  PROVE  Inv'
  <1>. USE NoInodeZero, StartupAssumption DEF Inv, Close, Go
  <1>1. TypeOK'
    <2>1. pc' \in [Agents -> PCs] /\ fd' \in [Agents -> Inodes \union {0}]
      BY DEF TypeOK, PCs
    <2>2. lock' \in [Inodes -> Agents \union {None}]
      BY DEF TypeOK, PCs
    <2>. QED  BY <2>1, <2>2 DEF TypeOK
  <1>2. HasFd'
    BY DEF TypeOK, HasFd, Opening
  <1>3. HasLock'
    BY DEF TypeOK, HasFd, HasLock, Holds, Opening
  <1>4. AtPath'
    BY DEF TypeOK, HasFd, HasLock, AtPath, Holds, Opening
  <1>5. PidStays'
    BY DEF TypeOK, HasFd, HasLock, AtPath, PidStays, Holds, Opening
  <1>. QED  BY <1>1, <1>2, <1>3, <1>4, <1>5

\* An agent that goes on to p with the pid file as it is.
LEMMA MoveInv ==
  ASSUME Inv, NEW a \in Agents, NEW p \in PCs, Go(a, p), UNCHANGED <<path, content, lock, fd>>,
         starts' \in [Agents -> 0 .. MaxStarts], tries' \in [Agents -> 0 .. 3], port' \in Agents \union {None},
         p \in Opening => fd[a] # 0,
         p = "stat" \/ Holds(a)' => lock[fd[a]] = a,
         Holds(a)' => path = fd[a],
         Holds(a)' /\ p \in {"start", "run"} => content[path] = a
  PROVE  Inv'
  <1>. USE DEF Inv
  <1>0. \A b \in Agents : pc'[b] = (IF b = a THEN p ELSE pc[b])
    BY DEF Go, TypeOK
  <1>1. TypeOK'
    BY DEF TypeOK, Go
  <1>2. HasFd'
    BY <1>0 DEF HasFd
  <1>3. \A b \in Agents : b # a => (Holds(b)' <=> Holds(b))
    BY <1>0 DEF Holds
  <1>4. HasLock' /\ AtPath'
    BY <1>0, <1>3 DEF HasLock, AtPath
  <1>5. PidStays'
    BY <1>0, <1>3 DEF PidStays
  <1>. QED  BY <1>1, <1>2, <1>4, <1>5

LEMMA StartInv == ASSUME Inv, NEW a \in Agents, Start(a) PROVE Inv'
  <1>1. starts' \in [Agents -> 0 .. MaxStarts]
    BY StartupAssumption DEF Inv, TypeOK, Start
  <1>. QED  BY <1>1, MoveInv DEF Start, file, Inv, TypeOK, PCs, Opening, Holds, Go

LEMMA OptionInv == ASSUME Inv, NEW a \in Agents, core_opt(a) PROVE Inv'
  <1>1. "open" \in PCs /\ "open" \notin Opening /\ ~Holds(a)'
    BY DEF core_opt, PCs, Opening, Holds, Go, Inv, TypeOK
  <1>. QED  BY <1>1, MoveInv DEF core_opt, file, Inv, TypeOK

\* An agent that holds the pid file, or has none, and keeps it so.
LEMMA KeepInv ==
  ASSUME Inv, NEW a \in Agents, NEW p \in PCs \ {"flock", "stat", "truncate", "close", "exit close"}, Go(a, p),
         pc[a] \in {"sandbox", "daemon", "write", "start"}, p \in {"write", "unlink", "exit unlink"} => fd[a] # 0,
         p \in {"start", "run"} => fd[a] = 0 \/ pc[a] = "start",
         port' \in Agents \union {None}, UNCHANGED <<path, content, lock, fd, starts, tries>>
  PROVE  Inv'
  <1>. USE DEF Inv
  <1>1. starts' \in [Agents -> 0 .. MaxStarts] /\ tries' \in [Agents -> 0 .. 3]
    BY DEF TypeOK
  <1>2. fd[a] # 0 => Holds(a)
    BY DEF Holds
  <1>3. Holds(a)' => Holds(a)
    BY <1>2 DEF Holds
  <1>4. Holds(a)' /\ p \in {"start", "run"} => content[path] = a
    BY <1>3 DEF Holds, PidStays
  <1>5. Holds(a)' => path = fd[a] /\ lock[fd[a]] = a
    BY <1>3 DEF HasLock, AtPath
  <1>6. p \in Opening => fd[a] # 0
    BY DEF Opening
  <1>. QED  BY <1>1, <1>4, <1>5, <1>6, MoveInv

LEMMA StayInv ==
  ASSUME Inv, NEW a \in Agents, sandbox(a) \/ v_daemon(a) \/ WriteFails(a) \/ Bind(a) PROVE Inv'
  <1>1. pc[a] = "write" => fd[a] # 0
    BY DEF Inv, HasFd, Opening
  <1>2. CASE sandbox(a)
    BY <1>2, KeepInv DEF sandbox, file, Inv, TypeOK, PCs
  <1>3. CASE v_daemon(a) /\ fd[a] = 0
    BY <1>3, KeepInv DEF v_daemon, file, Inv, TypeOK, PCs
  <1>4. CASE v_daemon(a) /\ fd[a] # 0
    BY <1>4, KeepInv DEF v_daemon, file, Inv, TypeOK, PCs
  <1>5. CASE WriteFails(a)
    BY <1>1, <1>5, KeepInv DEF WriteFails, file, Inv, TypeOK, PCs
  <1>6. CASE Bind(a)
    BY <1>6, KeepInv DEF Bind, file, Inv, TypeOK, PCs
  <1>. QED  BY <1>2, <1>3, <1>4, <1>5, <1>6

LEMMA DaemonFailsInv ==
  ASSUME Inv, NEW a \in Agents, CannotDaemonize(a), fd[a] # 0 PROVE Inv'
  BY KeepInv DEF CannotDaemonize, file, Inv, TypeOK, PCs

\* An agent that has just opened or closed the file is no holder of it.
LEMMA OutsideInv ==
  ASSUME Inv, NEW a \in Agents, NEW p \in PCs \ {"stat"}, NEW i \in Inodes \union {0}, Go(a, p),
         fd' = [fd EXCEPT ![a] = i], p \in Opening => i # 0, ~Holds(a)', ~Holds(a),
         path' \in Inodes \union {0}, path # 0 => path' = path,
         tries' \in [Agents -> 0 .. 3], UNCHANGED <<starts, content, lock, port>>
  PROVE  Inv'
  <1>. USE DEF Inv
  <1>0. \A b \in Agents : /\ pc'[b] = (IF b = a THEN p ELSE pc[b])
                          /\ fd'[b] = (IF b = a THEN i ELSE fd[b])
    BY DEF Go, TypeOK
  <1>1. TypeOK'
    BY DEF TypeOK, Go
  <1>2. HasFd'
    BY <1>0 DEF HasFd
  <1>3. \A b \in Agents : Holds(b)' => Holds(b) /\ b # a /\ path' = path
    BY <1>0, NoInodeZero DEF Holds, AtPath
  <1>4. HasLock' /\ AtPath'
    BY <1>0, <1>3 DEF HasLock, AtPath
  <1>5. PidStays'
    BY <1>0, <1>3 DEF PidStays
  <1>. QED  BY <1>1, <1>2, <1>4, <1>5

LEMMA OpenInv ==
  ASSUME Inv, NEW a \in Agents, OpenFile(a) PROVE Inv'
  <1>1. PICK i \in Inodes : path' = i /\ fd' = [fd EXCEPT ![a] = i] /\ (path # 0 => i = path)
    BY DEF OpenFile, Opened
  <1>2. pc[a] = "open" /\ Go(a, "flock") /\ UNCHANGED <<starts, content, lock, tries, port>>
    BY DEF OpenFile, Opened
  <1>3. ~Holds(a) /\ ~Holds(a)' /\ "flock" \in PCs
    BY <1>2 DEF Holds, Go, PCs, Inv, TypeOK
  <1>. QED  BY <1>1, <1>2, <1>3, NoInodeZero, OutsideInv DEF Inv, TypeOK

LEMMA OpenFailsInv ==
  ASSUME Inv, NEW a \in Agents, OpenFails(a) PROVE Inv'
  <1>1. "sandbox" \in PCs /\ "sandbox" \notin Opening /\ ~Holds(a) /\ ~Holds(a)'
    BY DEF OpenFails, Warn, Holds, Go, PCs, Inv, TypeOK, Opening
  <1>. QED  BY <1>1, OutsideInv DEF OpenFails, Warn, Inv, TypeOK

LEMMA FlockInv ==
  ASSUME Inv, NEW a \in Agents, Flock(a) PROVE Inv'
  <1>0. pc[a] = "flock" /\ fd[a] # 0 /\ ~Holds(a)
    BY DEF Flock, Locks, Inv, HasFd, Opening, Holds
  <1>1. CASE lock[fd[a]] = None
    <2>1. /\ lock' = [lock EXCEPT ![fd[a]] = a] /\ Go(a, "stat")
          /\ UNCHANGED <<fd, tries, starts, path, content, port>>
      BY <1>1 DEF Flock, Locks
    <2>2. /\ \A b \in Agents : pc'[b] = (IF b = a THEN "stat" ELSE pc[b])
          /\ \A i \in Inodes : lock'[i] = (IF i = fd[a] THEN a ELSE lock[i])
      BY <1>0, <2>1 DEF Go, Inv, TypeOK
    <2>3. TypeOK'
      BY <2>1 DEF Inv, TypeOK, PCs, Go
    <2>4. \A b \in Agents : Holds(b)' => Holds(b) /\ b # a
      BY <2>1, <2>2 DEF Holds
    <2>5. HasFd' /\ AtPath' /\ PidStays'
      BY <1>0, <2>1, <2>2, <2>4 DEF Inv, HasFd, AtPath, PidStays
    <2>6. \A b \in Agents : pc[b] = "stat" \/ Holds(b) => fd[b] \in Inodes
      BY DEF Inv, TypeOK, HasFd, Holds, Opening
    <2>7. HasLock'
      BY <1>0, <1>1, <2>1, <2>2, <2>4, <2>6, StartupAssumption DEF Inv, HasLock, TypeOK
    <2>. QED  BY <2>3, <2>5, <2>7 DEF Inv
  <1>2. CASE lock[fd[a]] # None
    <2>1. /\ fd' = [fd EXCEPT ![a] = 0] /\ tries' = [tries EXCEPT ![a] = 0] /\ Go(a, "read")
          /\ UNCHANGED <<lock, starts, path, content, port>>
      BY <1>2 DEF Flock, Locks
    <2>2. "read" \in PCs /\ "read" \notin Opening /\ ~Holds(a)'
      BY <2>1 DEF Inv, TypeOK, Holds, Go, PCs, Opening
    <2>3. tries' \in [Agents -> 0 .. 3]
      BY <2>1 DEF Inv, TypeOK
    <2>. QED  BY <1>0, <2>1, <2>2, <2>3, OutsideInv DEF Inv, TypeOK
  <1>. QED  BY <1>1, <1>2

LEMMA StatInv ==
  ASSUME Inv, NEW a \in Agents, Stat(a), path = fd[a] PROVE Inv'
  <1>1. Go(a, "truncate") /\ UNCHANGED <<path, content, lock, fd, starts, tries, port>>
    BY DEF Stat
  <1>2. lock[fd[a]] = a /\ fd[a] # 0
    BY DEF Inv, Stat, HasLock, HasFd, Opening
  <1>3. "truncate" \notin {"start", "run"} /\ "truncate" \in PCs
    BY DEF PCs
  <1>. QED  BY <1>1, <1>2, <1>3, MoveInv DEF Inv, TypeOK

LEMMA TruncateInv ==
  ASSUME Inv, NEW a \in Agents, Truncate(a)
  PROVE  Inv'
  <1>. USE NoInodeZero, StartupAssumption DEF Inv, Truncate, Go
  <1>1. TypeOK'
    BY DEF TypeOK, PCs
  <1>2. HasFd'
    BY DEF TypeOK, HasFd, Opening
  <1>3. HasLock'
    BY DEF TypeOK, HasFd, HasLock, Holds, Opening
  <1>4. AtPath'
    BY DEF TypeOK, HasFd, HasLock, AtPath, Holds, Opening
  <1>5. PidStays'
    BY DEF TypeOK, HasFd, HasLock, AtPath, PidStays, Holds, Opening
  <1>. QED  BY <1>1, <1>2, <1>3, <1>4, <1>5

LEMMA ReadInv ==
  ASSUME Inv, NEW a \in Agents, pidfile_read(a), ~Exit(a) PROVE Inv'
  <1>. USE DEF Inv, pidfile_read, ReadLoop
  <1>1. CASE UNCHANGED <<pc, fd>>
    <2>1. tries' \in [Agents -> 0 .. 3]
      BY <1>1 DEF TypeOK, Warn, Go
    <2>. QED  BY <1>1, <2>1 DEF TypeOK, HasFd, HasLock, AtPath, PidStays, Holds
  <1>2. CASE Warn(a) /\ tries' = [tries EXCEPT ![a] = 0]
    <2>1. tries' \in [Agents -> 0 .. 3]
      BY <1>2 DEF TypeOK
    <2>2. "sandbox" \in PCs /\ "sandbox" \notin Opening /\ ~Holds(a) /\ ~Holds(a)'
      BY <1>2 DEF Warn, Go, Holds, PCs, TypeOK, Opening
    <2>. QED  BY <1>2, <2>1, <2>2, OutsideInv DEF Warn, TypeOK
  <1>. QED  BY <1>1, <1>2

LEMMA WriteInv ==
  ASSUME Inv, NEW a \in Agents, pidfile_write(a)
  PROVE  Inv'
  <1>. USE NoInodeZero, StartupAssumption DEF Inv, pidfile_write, Go
  <1>1. TypeOK'
    BY DEF TypeOK, PCs
  <1>2. HasFd'
    BY DEF TypeOK, HasFd, Opening
  <1>3. HasLock'
    BY DEF TypeOK, HasFd, HasLock, Holds, Opening
  <1>4. AtPath'
    BY DEF TypeOK, HasFd, HasLock, AtPath, Holds, Opening
  <1>5. PidStays'
    BY DEF TypeOK, HasFd, HasLock, AtPath, PidStays, Holds, Opening
  <1>. QED  BY <1>1, <1>2, <1>3, <1>4, <1>5

LEMMA UnlinkInv ==
  ASSUME Inv, NEW a \in Agents, Unlink(a)
  PROVE  Inv'
  <1>. USE NoInodeZero, StartupAssumption DEF Inv, Unlink, Go
  <1>1. TypeOK'
    BY DEF TypeOK, PCs
  <1>2. HasFd'
    BY DEF TypeOK, HasFd, Opening
  <1>3. HasLock'
    BY DEF TypeOK, HasFd, HasLock, Holds, Opening
  <1>4. AtPath'
    BY DEF TypeOK, HasFd, HasLock, AtPath, Holds, Opening
  <1>5. PidStays'
    BY DEF TypeOK, HasFd, HasLock, AtPath, PidStays, Holds, Opening
  <1>. QED  BY <1>1, <1>2, <1>3, <1>4, <1>5

LEMMA NextInv == Inv /\ [Next]_vars => Inv'
  <1>. SUFFICES ASSUME Inv, [Next]_vars PROVE Inv'
    OBVIOUS
  <1>1. CASE UNCHANGED vars
    BY <1>1 DEF Inv, TypeOK, HasFd, HasLock, AtPath, PidStays, Holds, Inodes, vars, file
  <1>2. ASSUME NEW a \in Agents, Exit(a) PROVE Inv'
    BY <1>2, ReleaseInv DEF Exit
  <1>3. ASSUME NEW a \in Agents, Start(a) \/ Step(a) \/ Killed(a) PROVE Inv'
    <2>1. CASE Start(a) \/ sandbox(a) \/ v_daemon(a) \/ WriteFails(a) \/ Bind(a)
      BY <2>1, StartInv, StayInv
    <2>2. CASE core_opt(a)
      BY <2>2, OptionInv
    <2>3. CASE OpenFile(a) \/ OpenFails(a)
      BY <2>3, OpenInv, OpenFailsInv
    <2>4. CASE Flock(a)
      BY <2>4, FlockInv
    <2>5. CASE Stat(a)
      BY <2>5, StatInv, ReleaseInv DEF Stat
    <2>6. CASE Truncate(a)
      BY <2>6, TruncateInv
    <2>7. CASE pidfile_read(a)
      BY <2>7, <1>2, ReadInv
    <2>8. CASE pidfile_write(a)
      BY <2>8, WriteInv
    <2>9. CASE Unlink(a)
      BY <2>9, UnlinkInv
    <2>10. CASE CannotDaemonize(a)
      BY <2>10, <1>2, DaemonFailsInv DEF CannotDaemonize
    <2>11. CASE CloseRemoved(a)
      BY <2>11, <1>2, ReleaseInv DEF CloseRemoved
    <2>12. CASE BadOptions(a) \/ NoSuchUser(a) \/ BindFails(a) \/ Killed(a)
      BY <2>12, <1>2 DEF BadOptions, NoSuchUser, BindFails, Killed
    <2>. QED  BY <1>3, <2>1, <2>2, <2>3, <2>4, <2>5, <2>6, <2>7, <2>8, <2>9, <2>10, <2>11, <2>12 DEF Step
  <1>. QED  BY <1>1, <1>3 DEF Next

\* The inductive invariant: the descriptor, the lock and the path of an agent at
\* each place of pidfile_open and of what main does after it.
THEOREM StartupInvariant == Spec => []Inv
  BY InitInv, NextInv, PTL DEF Spec

\* Type correctness of Startup.
THEOREM TypeCorrect == Spec => []TypeOK
  <1>1. Inv => TypeOK
    BY DEF Inv
  <1>. QED  BY <1>1, StartupInvariant, PTL

\* The pid of an agent that serves stays in the pid file, and the file at its
\* path, for any number of agents and starts.
THEOREM PidAlwaysStays == Spec => []PidStays
  <1>1. Inv => PidStays
    BY DEF Inv
  <1>. QED  BY <1>1, StartupInvariant, PTL

-----------------------------------------------------------------------------
\* A step that takes the pid file: nobody held it.
LEMMA StatAcquires ==
  ASSUME Inv, NEW a \in Agents, Stat(a), path = fd[a]
  PROVE  Lock!Acquire(a)
  <1>1. \A b \in Agents : ~Holds(b)
    BY OneHolder DEF Stat, Holds
  <1>2. Holds(a)' /\ \A b \in Agents \ {a} : ~Holds(b)'
    BY <1>1, NoInodeZero DEF Stat, Go, Holds, Inv, TypeOK, HasFd, Opening
  <1>. QED  BY <1>1, <1>2 DEF Lock!Acquire, holders

\* A step of one agent that does not take it: it keeps it, or it is free.
LEMMA OthersKeep ==
  ASSUME Inv, NEW a \in Agents, Holds(a)' => Holds(a),
         \A b \in Agents \ {a} : pc'[b] = pc[b] /\ fd'[b] = fd[b]
  PROVE  Lock!Release \/ holders' = holders
  <1>1. \A b \in Agents \ {a} : Holds(b)' <=> Holds(b)
    BY DEF Holds
  <1>2. CASE Holds(a)' <=> Holds(a)
    BY <1>1, <1>2 DEF holders
  <1>3. CASE Holds(a) /\ ~Holds(a)'
    <2>1. holders = {a}
      BY <1>3, OneHolder DEF holders
    <2>2. holders' = {}
      BY <1>1, <1>3, <2>1 DEF holders
    <2>. QED  BY <2>1, <2>2 DEF Lock!Release
  <1>. QED  BY <1>2, <1>3

LEMMA StepImplements == Inv /\ [Next]_vars => [Lock!LNext]_holders
  <1>. SUFFICES ASSUME Inv, [Next]_vars PROVE [Lock!LNext]_holders
    OBVIOUS
  <1>1. CASE UNCHANGED vars
    BY <1>1 DEF vars, file, holders, Holds
  <1>2. ASSUME NEW a \in Agents, Start(a) \/ Step(a) \/ Killed(a) PROVE [Lock!LNext]_holders
    <2>1. CASE Stat(a) /\ path = fd[a]
      BY <2>1, StatAcquires DEF Lock!LNext
    <2>2. CASE ~(Stat(a) /\ path = fd[a])
      <3>1. \A b \in Agents \ {a} : pc'[b] = pc[b] /\ fd'[b] = fd[b]
        BY <1>2 DEF Inv, TypeOK, Start, Step, Killed, core_opt, BadOptions, OpenFile, Opened, OpenFails, Warn, Flock, Locks,
           Stat, Truncate, pidfile_read, ReadLoop, sandbox, NoSuchUser, v_daemon, CannotDaemonize, pidfile_write,
           WriteFails, Unlink, CloseRemoved, Bind, BindFails, Exit, Close, Go, file
      <3>2. Holds(a)' => Holds(a)
        BY <1>2, <2>2 DEF Inv, TypeOK, Start, Step, Killed, core_opt, BadOptions, OpenFile, Opened, OpenFails, Warn, Flock, Locks,
           Stat, Truncate, pidfile_read, ReadLoop, sandbox, NoSuchUser, v_daemon, CannotDaemonize, pidfile_write,
           WriteFails, Unlink, CloseRemoved, Bind, BindFails, Exit, Close, Go, file, Holds
      <3>. QED  BY <3>1, <3>2, OthersKeep DEF Lock!LNext
    <2>. QED  BY <2>1, <2>2
  <1>. QED  BY <1>1, <1>2 DEF Next

\* The pid file, with its open, flock, stat, truncate, write and unlink one by
\* one, is a lock with one holder, for any number of agents.
THEOREM StartupImplementsLock == Spec => ImplementsLock
  <1>1. Init => Lock!LInit
    BY DEF Init, Lock!LInit, holders, Holds
  <1>. QED  BY <1>1, StepImplements, StartupInvariant, PTL DEF Spec, ImplementsLock, Lock!LSpec

=============================================================================
