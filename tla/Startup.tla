------------------------------ MODULE Startup -------------------------------
(***************************************************************************)
(* Agents that start (main.c) with one pid file (foreign/pidfile.c) and    *)
(* one port: each system call on the pid file is a step, and an agent may  *)
(* be killed before any of them.                                           *)
(***************************************************************************)
EXTENDS Naturals, FiniteSets

CONSTANTS
    Agents, None,
    MaxStarts       \* bound on starts of each agent

ASSUME StartupAssumption == IsFiniteSet(Agents) /\ None \notin Agents /\ MaxStarts \in Nat

VARIABLES
    pc,             \* of an agent; "off" when there is no such process
    starts,
    path,           \* the inode at the pid file's path, 0 when there is none
    content,        \* of an inode: None, or the agent whose pid is in it
    lock,           \* the agent with the flock of an inode
    fd,             \* the inode an agent has open, 0 for pf_fd == -1
    tries,          \* of pidfile_read
    port            \* the agent that listens

file == <<path, content, lock, fd>>
vars == <<pc, starts, file, tries, port>>

\* An inode is only made when another was removed, which a start does once.
Inodes == 1 .. MaxStarts * Cardinality(Agents) + 1
Unused == {i \in Inodes : content[i] = None /\ i # path /\ lock[i] = None /\ \A a \in Agents : fd[a] # i}

Init ==
    /\ pc = [a \in Agents |-> "off"]
    /\ starts = [a \in Agents |-> 0]
    /\ path = 0
    /\ content = [i \in Inodes |-> None] /\ lock = [i \in Inodes |-> None]
    /\ fd = [a \in Agents |-> 0]
    /\ tries = [a \in Agents |-> 0]
    /\ port = None

Go(a, p) == pc' = [pc EXCEPT ![a] = p]

\* The process ends: its descriptors are closed, and with them its lock.
Close(a) ==
    /\ lock' = [i \in Inodes |-> IF lock[i] = a THEN None ELSE lock[i]]
    /\ fd' = [fd EXCEPT ![a] = 0]
Exit(a) ==
    /\ Go(a, "off") /\ Close(a)
    /\ port' = IF port = a THEN None ELSE port
    /\ UNCHANGED <<starts, path, content, tries>>

-----------------------------------------------------------------------------
(* main.c: what comes before the pid file.                                  *)

Start(a) ==
    /\ pc[a] = "off" /\ starts[a] < MaxStarts
    /\ starts' = [starts EXCEPT ![a] = @ + 1]
    /\ Go(a, "options")
    /\ UNCHANGED <<file, tries, port>>

\* The options and the secret file are as they should be, or they are not.
core_opt(a) ==
    /\ pc[a] = "options" /\ Go(a, "open")
    /\ UNCHANGED <<starts, file, tries, port>>
BadOptions(a) == pc[a] = "options" /\ Exit(a)

-----------------------------------------------------------------------------
(* pidfile_open: flopen, a system call a step.                              *)

Opened(a, truncated) ==
    /\ pc[a] = "open"
    /\ \E i \in Inodes :
           /\ IF path = 0 THEN i \in Unused /\ \A j \in Unused : i <= j ELSE i = path
           /\ path' = i /\ fd' = [fd EXCEPT ![a] = i] 
           /\ content' = IF truncated THEN [content EXCEPT ![i] = None] ELSE content
    /\ Go(a, "flock")
    /\ UNCHANGED <<starts, lock, tries, port>>
OpenFileTruncates(a) == Opened(a, TRUE)
OpenFile(a) == Opened(a, FALSE)

\* Some error other than EEXIST, now or below: main only warns.
Warn(a) == Go(a, "sandbox") /\ fd' = [fd EXCEPT ![a] = 0]
OpenFails(a) ==
    /\ pc[a] = "open" /\ Warn(a)
    /\ UNCHANGED <<starts, path, content, lock, tries, port>>

Locks(a, free) ==
    /\ pc[a] = "flock"
    /\ IF free
       THEN lock' = [lock EXCEPT ![fd[a]] = a] /\ Go(a, "stat") /\ UNCHANGED <<fd, tries>>
       ELSE /\ fd' = [fd EXCEPT ![a] = 0] /\ tries' = [tries EXCEPT ![a] = 0]
            /\ Go(a, "read") /\ lock' = lock
    /\ UNCHANGED <<starts, path, content, port>>
FlockShared(a) == Locks(a, TRUE)
Flock(a) == Locks(a, lock[fd[a]] = None)

\* The file has to be the one at the path, or flopen starts again.
Stat(a) ==
    /\ pc[a] = "stat"
    /\ IF path = fd[a] THEN Go(a, "truncate") /\ UNCHANGED <<lock, fd>> ELSE Go(a, "open") /\ Close(a)
    /\ UNCHANGED <<starts, path, content, tries, port>>

Truncate(a) ==
    /\ pc[a] = "truncate"
    /\ content' = [content EXCEPT ![fd[a]] = None]
    /\ Go(a, "sandbox")
    /\ UNCHANGED <<starts, path, lock, fd, tries, port>>

\* A pid ends the agent, an empty file is read again.
ReadLoop(a, more) ==
    /\ pc[a] = "read"
    /\ IF path # 0 /\ content[path] # None THEN Exit(a)
       ELSE /\ IF path # 0 /\ more
               THEN tries' = [tries EXCEPT ![a] = @ + 1] /\ UNCHANGED <<pc, fd>>
               ELSE Warn(a) /\ tries' = [tries EXCEPT ![a] = 0]
            /\ UNCHANGED <<starts, path, content, lock, port>>
\* Four times.
pidfile_readFive(a) == ReadLoop(a, tries[a] < 4)
pidfile_readOn(a) ==
    \/ pc[a] = "read" /\ path # 0 /\ content[path] = None /\ UNCHANGED vars
    \/ ~(path # 0 /\ content[path] = None) /\ ReadLoop(a, FALSE)
pidfile_read(a) == ReadLoop(a, tries[a] < 3)

-----------------------------------------------------------------------------
(* main.c again: sandbox, v_daemon, pidfile_write, and the threads.         *)

sandbox(a) ==
    /\ pc[a] = "sandbox" /\ Go(a, "daemon")
    /\ UNCHANGED <<starts, file, tries, port>>
NoSuchUser(a) == pc[a] = "sandbox" /\ Exit(a)

\* The child of daemon(), or the agent itself with -d, goes on.
v_daemon(a) ==
    /\ pc[a] = "daemon" /\ Go(a, IF fd[a] = 0 THEN "start" ELSE "write")
    /\ UNCHANGED <<starts, file, tries, port>>
CannotDaemonize(a) ==
    /\ pc[a] = "daemon"
    /\ IF fd[a] = 0 THEN Exit(a)
       ELSE Go(a, "exit unlink") /\ UNCHANGED <<starts, file, tries, port>>

pidfile_write(a) ==
    /\ pc[a] = "write"
    /\ content' = [content EXCEPT ![fd[a]] = a]
    /\ Go(a, "start")
    /\ UNCHANGED <<starts, path, lock, fd, tries, port>>
WriteFails(a) ==
    /\ pc[a] = "write" /\ Go(a, "unlink")
    /\ UNCHANGED <<starts, file, tries, port>>

\* _pidfile_remove: unlink, then close; main exits after it or goes on.
Unlink(a) ==
    /\ pc[a] \in {"unlink", "exit unlink"}
    /\ path' = 0
    /\ Go(a, IF pc[a] = "unlink" THEN "close" ELSE "exit close")
    /\ UNCHANGED <<starts, content, lock, fd, tries, port>>
CloseRemoved(a) ==
    \/ pc[a] = "exit close" /\ Exit(a)
    \/ /\ pc[a] = "close" /\ Close(a) /\ Go(a, "start")
       /\ UNCHANGED <<starts, path, content, tries, port>>

\* http_run binds the port, or ends the agent, which leaves its pid file.
Bind(a) ==
    /\ pc[a] = "start" /\ port = None
    /\ port' = a /\ Go(a, "run")
    /\ UNCHANGED <<starts, file, tries>>
BindFails(a) == pc[a] = "start" /\ port # None /\ Exit(a)

Killed(a) == pc[a] # "off" /\ Exit(a)

Step(a) ==
    \/ core_opt(a) \/ BadOptions(a) \/ OpenFile(a) \/ OpenFails(a) \/ Flock(a) \/ Stat(a) \/ Truncate(a) \/ pidfile_read(a)
    \/ sandbox(a) \/ NoSuchUser(a) \/ v_daemon(a) \/ CannotDaemonize(a) \/ pidfile_write(a) \/ WriteFails(a)
    \/ Unlink(a) \/ CloseRemoved(a) \/ Bind(a) \/ BindFails(a)
Next == \E a \in Agents : Start(a) \/ Step(a) \/ Killed(a)

\* A process that was started runs on until it serves or is gone.
Spec == Init /\ [][Next]_vars
FairSpec == Spec /\ \A a \in Agents : WF_vars(Step(a))

-----------------------------------------------------------------------------
PCs == {"off", "options", "open", "flock", "stat", "truncate", "read", "sandbox", "daemon", "write",
        "unlink", "exit unlink", "close", "exit close", "start", "run"}

\* Type correctness.
TypeOK ==
    /\ pc \in [Agents -> PCs]
    /\ starts \in [Agents -> 0 .. MaxStarts] /\ tries \in [Agents -> 0 .. 3]
    /\ path \in Inodes \union {0} /\ fd \in [Agents -> Inodes \union {0}]
    /\ content \in [Inodes -> Agents \union {None}] /\ lock \in [Inodes -> Agents \union {None}]
    /\ port \in Agents \union {None}

\* An agent whose pidfile_open succeeded holds the pid file until it unlinks it
\* or ends.
Holds(a) == fd[a] # 0 /\ pc[a] \in {"truncate", "sandbox", "daemon", "write", "unlink", "exit unlink", "start", "run"}
holders == {a \in Agents : Holds(a)}

\* Nobody truncates, overwrites or unlinks the pid file of an agent that wrote
\* its pid: while that agent lives it is there and says so.
PidStays == \A a \in Agents : (Holds(a) /\ pc[a] \in {"start", "run"}) => path = fd[a] /\ content[path] = a

\* Two agents never hold it together, however open, flock, stat and unlink of
\* theirs mix and whenever they are killed (flopen compares the inodes for it):
\* seen through its holders, the pid file is a lock.
Lock == INSTANCE PidLock
ImplementsLock == Lock!LSpec

\* A start comes to its end: the agent serves or is gone.
StartEnds == \A a \in Agents : pc[a] # "off" ~> pc[a] \in {"off", "run"}
=============================================================================
