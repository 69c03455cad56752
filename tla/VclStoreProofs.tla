--------------------------- MODULE VclStoreProofs ---------------------------
(***************************************************************************)
(* Proofs about VclStore, for any names, programs and inodes, any number   *)
(* of crashes, failing system calls and late answers.                      *)
(***************************************************************************)
EXTENDS VclStore, SequenceTheorems, TLAPS

-----------------------------------------------------------------------------
(* The inductive invariant.                                                *)

\* The paths under which files are found, not only written.
Kept == {Target(n) : n \in Names} \cup {BootVcl, BootTmp}

\* What write() may have stored of body b, and of any.
Stored(b) == {b} \cup (IF ShortWrites THEN {Partial} ELSE {})
Stores == UNION {Stored(b) : b \in Bodies}


\* A kept file has data, all of it on the disk.
KeptWhole ==
    \A p \in Kept : dir[p] # NoFile => inode[dir[p]].data \in Stores /\ inode[dir[p]].synced

\* A temporary file is reached by its own name only.
TempsAlone ==
    \A n \in Names, p \in Paths : p # Temp(n) /\ dir[Temp(n)] # NoFile => dir[p] # dir[Temp(n)]

\* The request in progress is one that comes to this place.
Placed ==
    /\ pc \in {"unlink", "open", "write", "fsync", "rename"} => job.kind = "upload"
    /\ pc \in {"stat", "unlinkb", "link", "renameb"} => job.kind = "deploy"

\* While vcl_persist writes, the temporary file is there and holds what was
\* written to it.
Writing ==
    /\ pc = "open" => dir[Temp(job.id)] = NoFile
    /\ pc \in {"write", "fsync", "rename"} => dir[Temp(job.id)] # NoFile
    /\ pc \in {"write", "fsync"} => file = dir[Temp(job.id)]
    /\ pc \in {"fsync", "rename"} => inode[dir[Temp(job.id)]].data \in Stored(job.body)
    /\ pc = "rename" => inode[dir[Temp(job.id)]].synced

\* While vcl_persist_active links, the stored VCL stays.
Linking ==
    /\ pc \in {"unlinkb", "link", "renameb"} => dir[Target(job.id)] # NoFile
    /\ pc = "link" => dir[BootTmp] = NoFile
    /\ pc = "renameb" => dir[BootTmp] = dir[Target(job.id)]

DiskInv == KeptWhole /\ TempsAlone /\ Placed /\ Writing /\ Linking
StoreInv == TypeOK /\ DiskInv /\ LeftoversHarmless

-----------------------------------------------------------------------------
(* Types.                                                                  *)

\* Type of the disk.
Dirs == [Paths -> Inodes \cup {NoFile}]
Contents == [data : Bodies \cup {Nothing, Partial}, synced : BOOLEAN]

LEMMA NoDataTyped == NoData \in Contents
  BY DEF NoData, Contents

LEMMA PathsTyped ==
  /\ \A n \in Names : Target(n) \in Paths /\ Temp(n) \in Paths
  /\ BootVcl \in Paths /\ BootTmp \in Paths
  /\ Kept \subseteq Paths
  BY DEF Paths, Kept

LEMMA SetDirTyped ==
  ASSUME inode \in [Inodes -> Contents], NEW d \in Dirs, SetDir(d)
  PROVE  dir' \in Dirs /\ inode' \in [Inodes -> Contents]
  BY NoDataTyped DEF SetDir

\* TypeOK in parts that can be cited one at a time.
ThreadTyped ==
    /\ pc \in {"idle", "wait", "unlink", "open", "write", "fsync", "rename",
               "stat", "unlinkb", "link", "renameb"}
    /\ job \in Jobs /\ file \in Inodes \cup {NoFile}
    /\ res \in [job : Jobs, why : Statuses \cup {"unsaved", "none"}]
VarnishTyped == vcls \in [Names -> Bodies \cup {Nothing}] /\ active \in Names
HandleTyped == cmds \in Seq(Jobs) /\ answers \in Seq(Statuses)
DiskTyped == dir \in Dirs /\ inode \in [Inodes -> Contents]
CountsTyped ==
    /\ crashes \in 0 .. MaxCrashes /\ faults \in 0 .. MaxFaults /\ late \in 0 .. MaxLate

LEMMA TypeParts ==
  /\ TypeOK <=> VarnishTyped /\ HandleTyped /\ DiskTyped /\ ThreadTyped /\ CountsTyped
  /\ (TypeOK <=> VarnishTyped /\ HandleTyped /\ DiskTyped /\ ThreadTyped /\ CountsTyped)'
  BY DEF TypeOK, VarnishTyped, HandleTyped, DiskTyped, ThreadTyped, CountsTyped, Dirs, Contents

LEMMA NoJobTyped == NoJob \in Jobs
  BY BodiesAssumption DEF NoJob, Jobs, Kinds, Names

LEMMA ReplyTyped ==
  ASSUME ThreadTyped, NEW why \in Statuses \cup {"unsaved", "none"}, Reply(why)
  PROVE  ThreadTyped'
  BY NoJobTyped DEF Reply, ThreadTyped

LEMMA RequestTyped ==
  ASSUME ThreadTyped, HandleTyped,
         NEW kind \in Kinds, NEW id \in Names, NEW b \in Bodies, Request(kind, id, b)
  PROVE  ThreadTyped' /\ HandleTyped'
<1>1. job' \in Jobs
  BY DEF Request, Jobs
<1>2. cmds' \in Seq(Jobs)
  BY <1>1, AppendProperties DEF Request, HandleTyped
<1>3. res' \in [job : Jobs, why : Statuses \cup {"unsaved", "none"}]
  BY NoJobTyped DEF Request, NoRes
<1> QED
  BY <1>1, <1>2, <1>3 DEF Request, ThreadTyped, HandleTyped

LEMMA ExecuteTyped ==
  ASSUME VarnishTyped, HandleTyped, Execute
  PROVE  VarnishTyped' /\ HandleTyped'
<1>1. PICK status \in Statuses :
         Does(Head(cmds), status) /\ answers' = Append(answers, status)
  BY DEF Execute
<1>2. Head(cmds) \in Jobs /\ Tail(cmds) \in Seq(Jobs)
  BY HeadTailProperties DEF Execute, HandleTyped
<1>3. answers' \in Seq(Statuses)
  BY <1>1, AppendProperties DEF HandleTyped
<1>4. VarnishTyped'
  BY <1>1, <1>2 DEF Does, VarnishTyped, varnish, Jobs
<1> QED
  BY <1>2, <1>3, <1>4 DEF Execute, HandleTyped

LEMMA BootedTyped ==
  ASSUME Booted
  PROVE  VarnishTyped'
  BY BodiesAssumption DEF Booted, VarnishTyped, Names

LEMMA TypeInit == Init => TypeOK
<1> SUFFICES ASSUME Init PROVE TypeOK
  OBVIOUS
<1>1. VarnishTyped
  BY BodiesAssumption DEF Init, VarnishTyped, Names
<1>2. HandleTyped
  BY DEF Init, HandleTyped
<1>3. DiskTyped
  BY NoDataTyped DEF Init, DiskTyped, Dirs
<1>4. ThreadTyped
  BY NoJobTyped DEF Init, ThreadTyped, NoRes
<1>5. CountsTyped
  BY BoundsAssumption DEF Init, CountsTyped
<1> QED
  BY <1>1, <1>2, <1>3, <1>4, <1>5, TypeParts

\* What the steps leave alone stays typed.
LEMMA TypeKept ==
  /\ VarnishTyped /\ UNCHANGED varnish => VarnishTyped'
  /\ HandleTyped /\ UNCHANGED handle => HandleTyped'
  /\ DiskTyped /\ UNCHANGED disk => DiskTyped'
  /\ ThreadTyped /\ UNCHANGED thread => ThreadTyped'
  /\ CountsTyped /\ UNCHANGED counts => CountsTyped'
  BY DEF VarnishTyped, HandleTyped, DiskTyped, ThreadTyped, CountsTyped,
         varnish, handle, disk, thread, counts

LEMMA HandlersTyped ==
  ASSUME TypeOK, Handlers
  PROVE  TypeOK'
<1> USE TypeParts
<1>1. CASE Put
  BY <1>1, RequestTyped, TypeKept DEF Put, Request, Names, Kinds, disk, varnish, counts
<1>2. CASE Post
  BY <1>2, RequestTyped, TypeKept DEF Post, Request, Names, Kinds
<1>3. CASE Delete
  BY <1>3, RequestTyped, TypeKept, BodiesAssumption DEF Delete, Request, Kinds
<1>4. CASE Deploy
  BY <1>4, RequestTyped, TypeKept, BodiesAssumption DEF Deploy, Request, Kinds
<1>5. CASE Answered
  <2>1. Head(answers) \in Statuses /\ Tail(answers) \in Seq(Statuses)
    BY <1>5, HeadTailProperties DEF Answered, HandleTyped
  <2>2. HandleTyped'
    BY <1>5, <2>1 DEF Answered, HandleTyped
  <2>3. ThreadTyped'
    BY <1>5, <2>1, ReplyTyped DEF Answered, ThreadTyped
  <2> QED
    BY <1>5, <2>2, <2>3, TypeKept DEF Answered
<1>6. CASE GivesUp
  <2>1. ThreadTyped'
    BY <1>6, ReplyTyped DEF GivesUp, Statuses
  <2>2. CountsTyped'
    BY <1>6, BoundsAssumption DEF GivesUp, CountsTyped
  <2> QED
    BY <1>6, <2>1, <2>2, TypeKept DEF GivesUp
<1> QED
  BY <1>1, <1>2, <1>3, <1>4, <1>5, <1>6 DEF Handlers

LEMMA StepTyped ==
  ASSUME ThreadTyped, NEW from, Step(from, pc'), file' \in Inodes \cup {NoFile},
         pc' \in {"open", "write", "fsync", "rename", "unlinkb", "link", "renameb"}
  PROVE  ThreadTyped'
  BY DEF Step, ThreadTyped

\* A path that is removed, or that becomes another name of a file.
LEMMA DirsClosed ==
  ASSUME dir \in Dirs, NEW p \in Paths, NEW q \in Paths
  PROVE  /\ [dir EXCEPT ![p] = NoFile] \in Dirs
         /\ [dir EXCEPT ![p] = dir[q]] \in Dirs
         /\ [dir EXCEPT ![p] = dir[q], ![q] = NoFile] \in Dirs
         /\ \A i \in Inodes : [dir EXCEPT ![p] = i] \in Dirs
  BY DEF Dirs

LEMMA JobPaths ==
  ASSUME ThreadTyped
  PROVE  Target(job.id) \in Paths /\ Temp(job.id) \in Paths /\ BootVcl \in Paths /\ BootTmp \in Paths
  BY PathsTyped DEF ThreadTyped, Jobs

LEMMA PersistTyped ==
  ASSUME TypeOK, Persist
  PROVE  TypeOK'
<1>0. VarnishTyped /\ HandleTyped /\ DiskTyped /\ ThreadTyped /\ CountsTyped
  BY TypeParts
<1>a. DiskTyped' /\ ThreadTyped' /\ UNCHANGED <<varnish, handle, counts>> => TypeOK'
  BY <1>0, TypeParts, TypeKept
<1>1. CASE Unlink
  <2>1. DiskTyped'
    BY <1>0, <1>1, JobPaths, DirsClosed, SetDirTyped DEF Unlink, DiskTyped
  <2> QED
    BY <1>0, <1>1, <1>a, <2>1, StepTyped DEF Unlink, Step, ThreadTyped
<1>2. CASE Open
  <2>1. CASE dir[Temp(job.id)] # NoFile
    BY <1>0, <1>2, <1>a, <2>1, ReplyTyped, TypeKept DEF Open
  <2>2. CASE dir[Temp(job.id)] = NoFile
    <3>1. PICK i \in Inodes : /\ file' = i /\ dir' = [dir EXCEPT ![Temp(job.id)] = i]
                             /\ inode' = [inode EXCEPT ![i] = NoData]
      BY <1>2, <2>2 DEF Open, Unlinked
    <3>2. DiskTyped'
      BY <1>0, <3>1, JobPaths, DirsClosed, NoDataTyped DEF DiskTyped
    <3> QED
      BY <1>0, <1>2, <1>a, <2>2, <3>1, <3>2, StepTyped DEF Open, Step
  <2> QED
    BY <2>1, <2>2
<1>3. CASE Write
  <2>1. PICK d \in Bodies \cup {Partial} : inode' = [inode EXCEPT ![file] = [data |-> d, synced |-> FALSE]]
    BY <1>0, <1>3 DEF Write, ThreadTyped, Jobs
  <2>2. DiskTyped'
    BY <1>0, <1>3, <2>1 DEF Write, DiskTyped, Contents
  <2> QED
    BY <1>0, <1>3, <1>a, <2>2, StepTyped DEF Write, Step, ThreadTyped
<1>4. CASE Fsync
  <2>1. inode' \in [Inodes -> Contents]
    BY <1>0, <1>4 DEF Fsync, DiskTyped, Contents
  <2> QED
    BY <1>0, <1>4, <1>a, <2>1, StepTyped DEF Fsync, Step, DiskTyped
<1>5. CASE Rename
  <2>1. [dir EXCEPT ![Target(job.id)] = dir[Temp(job.id)], ![Temp(job.id)] = NoFile] \in Dirs
    BY <1>0, JobPaths, DirsClosed DEF DiskTyped
  <2>2. DiskTyped'
    BY <1>0, <1>5, <2>1, SetDirTyped DEF Rename, DiskTyped
  <2> QED
    BY <1>0, <1>5, <1>a, <2>2, ReplyTyped DEF Rename, Statuses
<1> QED
  BY <1>1, <1>2, <1>3, <1>4, <1>5 DEF Persist

LEMMA PersistActiveTyped ==
  ASSUME TypeOK, PersistActive
  PROVE  TypeOK'
<1>0. VarnishTyped /\ HandleTyped /\ DiskTyped /\ ThreadTyped /\ CountsTyped
  BY TypeParts
<1>a. DiskTyped' /\ ThreadTyped' /\ UNCHANGED <<varnish, handle, counts>> => TypeOK'
  BY <1>0, TypeParts, TypeKept
<1>1. CASE StatFails
  BY <1>0, <1>1, <1>a, ReplyTyped, TypeKept DEF StatFails
<1>2. CASE Stat
  BY <1>0, <1>2, <1>a, StepTyped, TypeKept DEF Stat, Step, ThreadTyped
<1>3. CASE UnlinkBoot
  <2>1. DiskTyped'
    BY <1>0, <1>3, JobPaths, DirsClosed, SetDirTyped DEF UnlinkBoot, DiskTyped
  <2> QED
    BY <1>0, <1>3, <1>a, <2>1, StepTyped DEF UnlinkBoot, Step, ThreadTyped
<1>4. CASE Link
  <2>1. CASE dir[BootTmp] # NoFile
    BY <1>0, <1>4, <1>a, <2>1, ReplyTyped, TypeKept DEF Link
  <2>2. CASE dir[BootTmp] = NoFile
    <3>1. DiskTyped'
      BY <1>0, <1>4, <2>2, JobPaths, DirsClosed DEF Link, DiskTyped
    <3> QED
      BY <1>0, <1>4, <1>a, <2>2, <3>1, StepTyped DEF Link, Step, ThreadTyped
  <2> QED
    BY <2>1, <2>2
<1>5. CASE RenameBoot
  <2>1. [dir EXCEPT ![BootVcl] = dir[BootTmp], ![BootTmp] = NoFile] \in Dirs
    BY <1>0, JobPaths, DirsClosed DEF DiskTyped
  <2>2. DiskTyped'
    BY <1>0, <1>5, <2>1, SetDirTyped DEF RenameBoot, DiskTyped
  <2> QED
    BY <1>0, <1>5, <1>a, <2>2, ReplyTyped DEF RenameBoot, Statuses
<1> QED
  BY <1>1, <1>2, <1>3, <1>4, <1>5 DEF PersistActive

\* The agent's process is gone.
LEMMA CrashTyped ==
  ASSUME HandleTyped, ThreadTyped, CountsTyped,
         crashes < MaxCrashes, crashes' = crashes + 1, UNCHANGED <<faults, late>>
  PROVE  /\ CountsTyped'
         /\ cmds' = <<>> /\ answers' = <<>> => HandleTyped'
         /\ pc' = "idle" /\ job' = NoJob /\ file' = NoFile /\ UNCHANGED res => ThreadTyped'
<1>1. CountsTyped'
  BY BoundsAssumption DEF CountsTyped
<1>2. cmds' = <<>> /\ answers' = <<>> => HandleTyped'
  BY DEF HandleTyped
<1>3. pc' = "idle" /\ job' = NoJob /\ file' = NoFile /\ UNCHANGED res => ThreadTyped'
  BY NoJobTyped DEF ThreadTyped
<1> QED
  BY <1>1, <1>2, <1>3

LEMMA EnvironmentTyped ==
  ASSUME TypeOK, Environment
  PROVE  TypeOK'
<1>0. VarnishTyped /\ HandleTyped /\ DiskTyped /\ ThreadTyped /\ CountsTyped
  BY TypeParts
<1> USE <1>0, TypeKept, TypeParts
<1>1. CASE Execute
  BY <1>1, ExecuteTyped DEF Execute
<1>2. CASE Fails
  <2>1. CountsTyped'
    BY <1>2, BoundsAssumption DEF Fails, CountsTyped
  <2> QED
    BY <1>2, <2>1, ReplyTyped DEF Fails
<1>3. CASE AgentCrash
  BY <1>3, CrashTyped DEF AgentCrash
<1>4. CASE PowerLoss
  <2>1. DiskTyped'
    BY <1>4, NoDataTyped DEF PowerLoss, DiskTyped
  <2> QED
    BY <1>4, <2>1, CrashTyped, BootedTyped DEF PowerLoss
<1>5. CASE VarnishdRestarts
  BY <1>5, CrashTyped, BootedTyped DEF VarnishdRestarts
<1> QED
  BY <1>1, <1>2, <1>3, <1>4, <1>5 DEF Environment

LEMMA TypeNext ==
  ASSUME TypeOK, [Next]_vars
  PROVE  TypeOK'
<1>1. CASE UNCHANGED vars
  BY <1>1, TypeKept, TypeParts DEF vars
<1> QED
  BY <1>1, HandlersTyped, PersistTyped, PersistActiveTyped, EnvironmentTyped DEF Next

-----------------------------------------------------------------------------
(* The disk.                                                               *)

\* The names of files are different names.
LEMMA PathsDiffer ==
  /\ \A n, m \in Names : Target(n) # Temp(m)
  /\ \A n, m \in Names : Target(n) = Target(m) => n = m
  /\ \A n, m \in Names : Temp(n) = Temp(m) => n = m
  /\ \A n \in Names : Target(n) # BootVcl /\ Target(n) # BootTmp
  /\ \A n \in Names : Temp(n) # BootVcl /\ Temp(n) # BootTmp
  /\ \A n \in Names : Temp(n) \notin Kept /\ Target(n) \in Kept
  /\ BootVcl # BootTmp /\ BootVcl \in Kept /\ BootTmp \in Kept
  BY DEF Target, Temp, BootVcl, BootTmp, Kept

\* A file that still has a name keeps what it holds.
LEMMA SetDirKeeps ==
  ASSUME NEW d \in Dirs, SetDir(d)
  PROVE  dir' = d /\ \A p \in Paths : d[p] # NoFile => inode'[d[p]] = inode[d[p]]
  BY DEF SetDir, Dirs

LEMMA DiskInit == Init => DiskInv /\ LeftoversHarmless
  BY PathsTyped DEF Init, DiskInv, KeptWhole, TempsAlone, Placed, Writing, Linking,
                    LeftoversHarmless, NoRes

\* A request that is over, or has just begun, leaves the disk in order.
LEMMA DiskKept ==
  ASSUME DiskInv, UNCHANGED disk, pc' \in {"idle", "wait"} \/ UNCHANGED <<pc, job, file>>
  PROVE  DiskInv'
  BY DEF DiskInv, KeptWhole, TempsAlone, Placed, Writing, Linking, disk

\* SetDir keeps the files whole and the temporary ones alone if the names it
\* gives to kept files are those of kept files or of whole ones.
LEMMA SetDirInv ==
  ASSUME KeptWhole, TempsAlone, DiskTyped, NEW d \in Dirs, SetDir(d),
         \A p \in Kept : d[p] # NoFile =>
            inode[d[p]].data \in Stores /\ inode[d[p]].synced,
         \A n \in Names : d[Temp(n)] # NoFile =>
            \A p \in Paths : p # Temp(n) => d[p] # d[Temp(n)]
  PROVE  KeptWhole' /\ TempsAlone'
<1>1. KeptWhole'
  BY SetDirKeeps, PathsTyped DEF KeptWhole
<1>2. TempsAlone'
  BY SetDirKeeps DEF TempsAlone
<1> QED
  BY <1>1, <1>2

LEMMA UnlinkDisk ==
  ASSUME TypeOK, DiskInv, Unlink
  PROVE  DiskInv'
<1> DEFINE d == [dir EXCEPT ![Temp(job.id)] = NoFile]
<1>0. DiskTyped /\ ThreadTyped /\ job.id \in Names
  BY TypeParts DEF ThreadTyped, Jobs
<1>1. d \in Dirs /\ SetDir(d)
  BY <1>0, JobPaths, DirsClosed DEF Unlink, DiskTyped
<1>2. \A p \in Paths : d[p] = IF p = Temp(job.id) THEN NoFile ELSE dir[p]
  BY <1>0, JobPaths DEF DiskTyped, Dirs
<1>3. KeptWhole' /\ TempsAlone'
  <2>1. \A p \in Kept : d[p] # NoFile => inode[d[p]].data \in Stores /\ inode[d[p]].synced
    BY <1>2, PathsTyped DEF DiskInv, KeptWhole
  <2>2. \A n \in Names : d[Temp(n)] # NoFile =>
           \A p \in Paths : p # Temp(n) => d[p] # d[Temp(n)]
    BY <1>2, PathsTyped DEF DiskInv, TempsAlone
  <2> QED
    BY <1>0, <1>1, <2>1, <2>2, SetDirInv DEF DiskInv
<1>4. Placed'
  BY DEF Unlink, Step, DiskInv, Placed
<1>5. dir'[Temp(job.id)] = NoFile
  BY <1>0, <1>1, <1>2, SetDirKeeps, PathsTyped
<1>6. Writing' /\ Linking'
  BY <1>5 DEF Unlink, Step, Writing, Linking
<1> QED
  BY <1>3, <1>4, <1>6 DEF DiskInv

LEMMA OpenDisk ==
  ASSUME TypeOK, DiskInv, Open
  PROVE  DiskInv'
<1>0. DiskTyped /\ ThreadTyped /\ job.id \in Names
  BY TypeParts DEF ThreadTyped, Jobs
<1>1. dir[Temp(job.id)] = NoFile /\ Step("open", "write")
  BY DEF Open, DiskInv, Writing
<1>2. PICK i \in Unlinked : /\ file' = i
                           /\ dir' = [dir EXCEPT ![Temp(job.id)] = i]
                           /\ inode' = [inode EXCEPT ![i] = NoData]
  BY <1>1 DEF Open
<1>3. i \in Inodes /\ i # NoFile /\ \A p \in Paths : dir[p] # i
  BY BodiesAssumption DEF Unlinked
<1>4. \A p \in Paths : dir'[p] = IF p = Temp(job.id) THEN i ELSE dir[p]
  BY <1>0, <1>2, JobPaths DEF DiskTyped, Dirs
<1>5. \A j \in Inodes : j # i => inode'[j] = inode[j]
  BY <1>0, <1>2 DEF DiskTyped
<1>6. KeptWhole'
  <2> SUFFICES ASSUME NEW p \in Kept, dir'[p] # NoFile
               PROVE  inode'[dir'[p]].data \in Stores /\ inode'[dir'[p]].synced
    BY DEF KeptWhole
  <2>1. dir'[p] = dir[p] /\ dir[p] # i /\ dir[p] \in Inodes
    BY <1>0, <1>3, <1>4, PathsTyped, PathsDiffer DEF DiskTyped, Dirs
  <2> QED
    BY <1>5, <2>1 DEF DiskInv, KeptWhole
<1>7. TempsAlone'
  BY <1>0, <1>3, <1>4, PathsTyped DEF DiskInv, TempsAlone
<1>8. Placed' /\ Linking'
  BY <1>1 DEF Step, DiskInv, Placed, Linking
<1>9. Writing'
  BY <1>0, <1>1, <1>2, <1>3, <1>4, PathsTyped DEF Step, Writing
<1> QED
  BY <1>6, <1>7, <1>8, <1>9 DEF DiskInv

\* Writing to a temporary file changes no kept one.
LEMMA TempWritten ==
  ASSUME TypeOK, DiskInv, pc \in {"write", "fsync"}, UNCHANGED dir,
         NEW c, inode' = [inode EXCEPT ![file] = c]
  PROVE  /\ KeptWhole' /\ TempsAlone'
         /\ inode'[dir[Temp(job.id)]] = c
         /\ file \in Inodes /\ file = dir[Temp(job.id)] /\ file # NoFile
<1>0. DiskTyped /\ ThreadTyped /\ job.id \in Names
  BY TypeParts DEF ThreadTyped, Jobs
<1>1. file = dir[Temp(job.id)] /\ file # NoFile /\ file \in Inodes
  BY <1>0 DEF DiskInv, Writing, ThreadTyped
<1>2. \A p \in Kept : dir[p] # file
  BY <1>0, <1>1, PathsTyped, PathsDiffer DEF DiskInv, TempsAlone
<1>3. KeptWhole'
  BY <1>0, <1>2, PathsTyped DEF DiskInv, KeptWhole, DiskTyped, Dirs
<1>4. TempsAlone'
  BY DEF DiskInv, TempsAlone
<1> QED
  BY <1>0, <1>1, <1>3, <1>4 DEF DiskTyped

LEMMA WriteDisk ==
  ASSUME TypeOK, DiskInv, Write
  PROVE  DiskInv'
<1>1. PICK b \in Stored(job.body) : inode' = [inode EXCEPT ![file] = [data |-> b, synced |-> FALSE]]
  BY DEF Write, Stored
<1>2. /\ KeptWhole' /\ TempsAlone'
      /\ inode'[dir[Temp(job.id)]] = [data |-> b, synced |-> FALSE]
      /\ dir[Temp(job.id)] # NoFile /\ file = dir[Temp(job.id)]
  BY <1>1, TempWritten DEF Write, Step
<1>3. Placed' /\ Linking' /\ Writing'
  BY <1>1, <1>2 DEF Write, Step, DiskInv, Placed, Linking, Writing
<1> QED
  BY <1>2, <1>3 DEF DiskInv

LEMMA FsyncDisk ==
  ASSUME TypeOK, DiskInv, Fsync
  PROVE  DiskInv'
<1> DEFINE c == [inode[file] EXCEPT !.synced = TRUE]
<1>1. inode' = [inode EXCEPT ![file] = c]
  BY DEF Fsync
<1>2. /\ KeptWhole' /\ TempsAlone' /\ inode'[dir[Temp(job.id)]] = c
      /\ file \in Inodes /\ dir[Temp(job.id)] # NoFile /\ file = dir[Temp(job.id)]
  BY <1>1, TempWritten DEF Fsync, Step
<1>3. c.synced /\ c.data = inode[file].data
  BY <1>2, TypeParts DEF DiskTyped, Contents
<1>4. Placed' /\ Linking' /\ Writing'
  BY <1>2, <1>3 DEF Fsync, Step, DiskInv, Placed, Linking, Writing
<1> QED
  BY <1>2, <1>4 DEF DiskInv

LEMMA RenameDisk ==
  ASSUME TypeOK, DiskInv, Rename
  PROVE  DiskInv'
<1> DEFINE d == [dir EXCEPT ![Target(job.id)] = dir[Temp(job.id)], ![Temp(job.id)] = NoFile]
<1>0. DiskTyped /\ ThreadTyped /\ job.id \in Names /\ job.body \in Bodies
  BY TypeParts DEF ThreadTyped, Jobs
<1>1. d \in Dirs /\ SetDir(d)
  BY <1>0, JobPaths, DirsClosed DEF Rename, DiskTyped
<1>2. \A p \in Paths : d[p] = IF p = Temp(job.id) THEN NoFile
                            ELSE IF p = Target(job.id) THEN dir[Temp(job.id)] ELSE dir[p]
  BY <1>0, JobPaths DEF DiskTyped, Dirs
<1>3. inode[dir[Temp(job.id)]].data \in Stores /\ inode[dir[Temp(job.id)]].synced
  BY <1>0 DEF Rename, DiskInv, Writing, Stores
<1>4. \A p \in Kept : d[p] # NoFile => inode[d[p]].data \in Stores /\ inode[d[p]].synced
  BY <1>2, <1>3, PathsTyped DEF DiskInv, KeptWhole
<1>5. \A n \in Names : d[Temp(n)] # NoFile =>
         \A p \in Paths : p # Temp(n) => d[p] # d[Temp(n)]
  BY <1>0, <1>2, PathsTyped, PathsDiffer DEF DiskInv, TempsAlone
<1>6. KeptWhole' /\ TempsAlone'
  BY <1>0, <1>1, <1>4, <1>5, SetDirInv DEF DiskInv
<1> QED
  BY <1>6 DEF Rename, Reply, DiskInv, Placed, Writing, Linking

LEMMA UnlinkBootDisk ==
  ASSUME TypeOK, DiskInv, UnlinkBoot
  PROVE  DiskInv'
<1> DEFINE d == [dir EXCEPT ![BootTmp] = NoFile]
<1>0. DiskTyped /\ ThreadTyped /\ job.id \in Names
  BY TypeParts DEF ThreadTyped, Jobs
<1>1. d \in Dirs /\ SetDir(d)
  BY <1>0, JobPaths, DirsClosed DEF UnlinkBoot, DiskTyped
<1>2. \A p \in Paths : d[p] = IF p = BootTmp THEN NoFile ELSE dir[p]
  BY <1>0, JobPaths DEF DiskTyped, Dirs
<1>3. \A p \in Kept : d[p] # NoFile => inode[d[p]].data \in Stores /\ inode[d[p]].synced
  BY <1>2, PathsTyped DEF DiskInv, KeptWhole
<1>4. \A n \in Names : d[Temp(n)] # NoFile =>
         \A p \in Paths : p # Temp(n) => d[p] # d[Temp(n)]
  BY <1>2, PathsTyped DEF DiskInv, TempsAlone
<1>5. KeptWhole' /\ TempsAlone'
  BY <1>0, <1>1, <1>3, <1>4, SetDirInv DEF DiskInv
<1>6. dir'[BootTmp] = NoFile /\ dir'[Target(job.id)] # NoFile
  <2>1. dir[Target(job.id)] # NoFile
    BY DEF UnlinkBoot, Step, DiskInv, Linking
  <2>2. dir' = d
    BY <1>1, SetDirKeeps
  <2> QED
    BY <1>0, <1>2, <2>1, <2>2, PathsTyped, PathsDiffer
<1>7. Placed' /\ Writing' /\ Linking'
  BY <1>6 DEF UnlinkBoot, Step, DiskInv, Placed, Writing, Linking
<1> QED
  BY <1>5, <1>7 DEF DiskInv

LEMMA LinkDisk ==
  ASSUME TypeOK, DiskInv, Link
  PROVE  DiskInv'
<1>0. DiskTyped /\ ThreadTyped /\ job.id \in Names
  BY TypeParts DEF ThreadTyped, Jobs
<1>1. /\ Step("link", "renameb")
      /\ dir' = [dir EXCEPT ![BootTmp] = dir[Target(job.id)]] /\ UNCHANGED <<inode, file>>
  BY DEF Link, DiskInv, Linking
<1>2. \A p \in Paths : dir'[p] = dir[IF p = BootTmp THEN Target(job.id) ELSE p]
  BY <1>0, <1>1 DEF DiskTyped, Dirs
<1>3. KeptWhole'
  BY <1>0, <1>1, <1>2, PathsTyped, PathsDiffer DEF DiskInv, KeptWhole
<1>4. TempsAlone'
  BY <1>0, <1>2, PathsTyped, PathsDiffer DEF DiskInv, TempsAlone
<1>5. Placed' /\ Writing'
  BY <1>1 DEF Step, DiskInv, Placed, Writing
<1>6. Linking'
  BY <1>0, <1>1, <1>2, PathsTyped, PathsDiffer DEF Step, DiskInv, Linking
<1> QED
  BY <1>3, <1>4, <1>5, <1>6 DEF DiskInv

LEMMA RenameBootDisk ==
  ASSUME TypeOK, DiskInv, RenameBoot
  PROVE  DiskInv'
<1> DEFINE d == IF dir[BootTmp] = dir[BootVcl] THEN dir
                ELSE [dir EXCEPT ![BootVcl] = dir[BootTmp], ![BootTmp] = NoFile]
<1>0. DiskTyped /\ ThreadTyped
  BY TypeParts
<1>1. d \in Dirs /\ SetDir(d)
  BY <1>0, JobPaths, DirsClosed DEF RenameBoot, DiskTyped
<1>2. \A p \in Paths : d[p] = NoFile \/ d[p] = dir[p] \/ (p = BootVcl /\ d[p] = dir[BootTmp])
  BY <1>0, JobPaths DEF DiskTyped, Dirs
<1>3. \A p \in Kept : d[p] # NoFile => inode[d[p]].data \in Stores /\ inode[d[p]].synced
  BY <1>2, PathsTyped, PathsDiffer DEF DiskInv, KeptWhole
<1>4. \A n \in Names : d[Temp(n)] # NoFile =>
         \A p \in Paths : p # Temp(n) => d[p] # d[Temp(n)]
  BY <1>2, PathsTyped, PathsDiffer DEF DiskInv, TempsAlone
<1>5. KeptWhole' /\ TempsAlone'
  BY <1>0, <1>1, <1>3, <1>4, SetDirInv DEF DiskInv
<1> QED
  BY <1>5 DEF RenameBoot, Reply, DiskInv, Placed, Writing, Linking

\* Only data that was not synced is lost.
LEMMA PowerLossDisk ==
  ASSUME TypeOK, DiskInv, PowerLoss
  PROVE  DiskInv'
<1>1. DiskTyped
  BY TypeParts
<1>2. KeptWhole'
  BY <1>1, PathsTyped DEF PowerLoss, DiskInv, KeptWhole, DiskTyped, Dirs
<1> QED
  BY <1>2 DEF PowerLoss, DiskInv, TempsAlone, Placed, Writing, Linking

LEMMA DiskNext ==
  ASSUME TypeOK, DiskInv, [Next]_vars
  PROVE  DiskInv'
<1>1. CASE UNCHANGED vars
  BY <1>1, DiskKept DEF vars, thread
<1>2. CASE Put \/ Post \/ Delete \/ Deploy
  BY <1>2, DiskKept DEF Put, Post, Delete, Deploy, Request
<1>3. CASE Answered
  <2>1. CASE pc' = "idle"
    BY <1>3, <2>1, DiskKept DEF Answered
  <2>2. CASE pc' # "idle"
    <3>1. /\ UNCHANGED <<dir, inode, job>>
          /\ \/ pc' = "unlink" /\ job.kind = "upload"
             \/ pc' = "stat" /\ job.kind = "deploy"
      BY <1>3, <2>2 DEF Answered, Reply, disk
    <3> QED
      BY <3>1 DEF DiskInv, KeptWhole, TempsAlone, Placed, Writing, Linking
  <2> QED
    BY <2>1, <2>2
<1>4. CASE GivesUp \/ StatFails \/ Fails \/ AgentCrash
  BY <1>4, DiskKept DEF GivesUp, StatFails, Fails, AgentCrash, Reply
<1>5. CASE Stat
  BY <1>5 DEF Stat, Step, disk, DiskInv, KeptWhole, TempsAlone, Placed, Writing, Linking
<1>6. CASE Execute \/ VarnishdRestarts
  BY <1>6, DiskKept DEF Execute, VarnishdRestarts, thread
<1> QED
  BY <1>1, <1>2, <1>3, <1>4, <1>5, <1>6, UnlinkDisk, OpenDisk, WriteDisk, FsyncDisk,
     RenameDisk, UnlinkBootDisk, LinkDisk, RenameBootDisk, PowerLossDisk
     DEF Next, Handlers, Persist, PersistActive, Environment

\* Nothing that was left behind is in the way.
LEMMA LeftoversNext ==
  ASSUME TypeOK, DiskInv, LeftoversHarmless, [Next]_vars
  PROVE  LeftoversHarmless'
<1>1. CASE UNCHANGED <<res, faults>>
  BY <1>1 DEF LeftoversHarmless
<1>2. CASE res'.why # "unsaved" \/ res'.job.kind = "deploy"
  BY <1>2 DEF LeftoversHarmless
<1>3. CASE Fails
  BY <1>3, TypeParts DEF Fails, LeftoversHarmless, CountsTyped
<1>4. CASE Put \/ Post \/ Delete \/ Deploy
  BY <1>4, <1>2 DEF Put, Post, Delete, Deploy, Request, NoRes
<1>5. CASE Answered
  <2>1. Head(answers) \in Statuses
    BY <1>5, HeadTailProperties, TypeParts DEF Answered, HandleTyped
  <2>2. UNCHANGED <<res, faults>> \/ res'.why = Head(answers)
    BY <1>5 DEF Answered, Reply, counts
  <2> QED
    BY <1>1, <1>2, <2>1, <2>2 DEF Statuses
<1>6. CASE GivesUp \/ Rename \/ RenameBoot
  BY <1>2, <1>6 DEF GivesUp, Rename, RenameBoot, Reply
<1>7. CASE StatFails
  BY <1>2, <1>7 DEF StatFails, Reply, DiskInv, Placed
<1>8. CASE Open \/ Link
  BY <1>1, <1>8 DEF Open, Link, Step, DiskInv, Writing, Linking, counts
<1>9. CASE Unlink \/ Write \/ Fsync \/ Stat \/ UnlinkBoot
  BY <1>1, <1>9 DEF Unlink, Write, Fsync, Stat, UnlinkBoot, Step, counts
<1>10. CASE UNCHANGED vars \/ Execute \/ AgentCrash \/ PowerLoss \/ VarnishdRestarts
  BY <1>1, <1>10 DEF vars, Execute, AgentCrash, PowerLoss, VarnishdRestarts, thread, counts
<1> QED
  BY <1>3, <1>4, <1>5, <1>6, <1>7, <1>8, <1>9, <1>10
     DEF Next, Handlers, Persist, PersistActive, Environment

\* The inductive invariant holds in every state: it needs types for the
\* paths, and the temporary files and the places in the code because files
\* become kept ones by a change of name, long after they were written.
THEOREM StoreInvariant == Spec => []StoreInv
<1>1. Init => StoreInv
  BY TypeInit, DiskInit DEF StoreInv
<1>2. StoreInv /\ [Next]_vars => StoreInv'
  BY TypeNext, DiskNext, LeftoversNext DEF StoreInv
<1> QED
  BY <1>1, <1>2, PTL DEF Spec

-----------------------------------------------------------------------------
(* What follows from it.                                                   *)

\* Type correctness of vcl.c's state and the disk it works on.
THEOREM TypeCorrect == Spec => []TypeOK
  BY StoreInvariant, PTL DEF StoreInv

LEMMA WholeContents ==
  ASSUME StoreInv, ShortWrites = FALSE, NEW p \in Kept, dir[p] # NoFile
  PROVE  inode[dir[p]].data \in Bodies /\ inode[dir[p]].synced
  BY DEF StoreInv, DiskInv, KeptWhole, Stores, Stored

\* Unless a write is short, what vcl_persist and vcl_persist_active leave under
\* a final name is a whole program that a power loss does not take.
THEOREM FilesStayWhole ==
  ASSUME ShortWrites = FALSE
  PROVE  Spec => []FilesWhole
<1>1. StoreInv => FilesWhole
  BY WholeContents DEF FilesWhole, Kept
<1> QED
  BY <1>1, StoreInvariant, PTL

\* An upload never fails because of a file left by a crash.
THEOREM LeftoversStayHarmless == Spec => []LeftoversHarmless
  BY StoreInvariant, PTL DEF StoreInv

LEMMA BootVclSteps ==
  ASSUME StoreInv, [Next]_vars
  PROVE  dir'[BootVcl] = dir[BootVcl] \/ (RenameBoot /\ dir'[BootVcl] = dir[BootTmp])
<1>0. TypeOK /\ DiskInv /\ DiskTyped /\ ThreadTyped /\ job.id \in Names
  BY TypeParts DEF StoreInv, ThreadTyped, Jobs
<1>1. CASE UNCHANGED dir
  BY <1>1
<1>2. CASE Unlink
  BY <1>0, <1>2, PathsTyped, PathsDiffer DEF Unlink, SetDir, DiskTyped, Dirs
<1>3. CASE Open
  BY <1>0, <1>3, PathsTyped, PathsDiffer DEF Open, DiskTyped, Dirs, disk
<1>4. CASE Rename
  BY <1>0, <1>4, PathsTyped, PathsDiffer DEF Rename, SetDir, DiskTyped, Dirs
<1>5. CASE UnlinkBoot
  BY <1>0, <1>5, PathsTyped, PathsDiffer DEF UnlinkBoot, SetDir, DiskTyped, Dirs
<1>6. CASE Link
  BY <1>0, <1>6, PathsTyped, PathsDiffer DEF Link, DiskTyped, Dirs, disk
<1>7. CASE RenameBoot
  BY <1>0, <1>7, PathsTyped, PathsDiffer DEF RenameBoot, SetDir, DiskTyped, Dirs
<1> QED
  BY <1>1, <1>2, <1>3, <1>4, <1>5, <1>6, <1>7
     DEF Next, Handlers, Persist, PersistActive, Environment, vars, disk, Put, Post, Delete,
         Deploy, Request, Answered, GivesUp, Write, Fsync, StatFails, Stat, Execute, Fails,
         AgentCrash, PowerLoss, VarnishdRestarts

\* Once there is a boot.vcl no step and no crash takes it away.
THEOREM BootNeverGone == Spec => BootStays
<1>1. StoreInv /\ [Next]_vars => [dir[BootVcl] # NoFile => dir'[BootVcl] # NoFile]_vars
  <2> SUFFICES ASSUME StoreInv, [Next]_vars, dir[BootVcl] # NoFile
               PROVE  dir'[BootVcl] # NoFile
    OBVIOUS
  <2>1. RenameBoot => dir[BootTmp] # NoFile
    BY DEF RenameBoot, StoreInv, DiskInv, Linking
  <2> QED
    BY <2>1, BootVclSteps
<1> QED
  BY <1>1, StoreInvariant, PTL DEF Spec, BootStays

\* A deploy never fails because of a boot.vcl.tmp left by a crash, or by a
\* rename that did nothing.
THEOREM DeployLeftoversStayHarmless == Spec => DeployLeftoversHarmless
<1>1. StoreInv /\ [Next]_vars =>
        [res' # res /\ res'.why = "unsaved" /\ res'.job.kind = "deploy"
         /\ dir[Target(res'.job.id)] # NoFile => faults' > faults]_vars
  <2> SUFFICES ASSUME StoreInv, Next, res' # res, res'.why = "unsaved",
                      dir[Target(res'.job.id)] # NoFile
               PROVE  faults' > faults
    OBVIOUS
  <2>1. CASE Fails
    BY <2>1, TypeParts DEF Fails, StoreInv, CountsTyped
  <2>2. ~Answered
    BY HeadTailProperties, TypeParts DEF Answered, Reply, StoreInv, HandleTyped, Statuses
  <2>3. ~(StatFails \/ Open \/ Link)
    BY DEF StatFails, Open, Link, Step, Reply, StoreInv, DiskInv, Writing, Linking
  <2> QED
    BY <2>1, <2>2, <2>3 DEF Next, Handlers, Persist, PersistActive, Environment, Put, Post,
       Delete, Deploy, Request, NoRes, GivesUp, Reply, Unlink, Write, Fsync, Rename, Stat,
       UnlinkBoot, RenameBoot, Step, Execute, AgentCrash, PowerLoss, VarnishdRestarts,
       thread
<1> QED
  BY <1>1, StoreInvariant, PTL DEF Spec, DeployLeftoversHarmless

-----------------------------------------------------------------------------
(* VclStore implements VclFiles.                                           *)

\* The names of VclFiles' files.
Final == {Target(n) : n \in Names} \cup {BootVcl}

\* Only the renames change what a file under a final name holds.
LEMMA ContentKept ==
  ASSUME StoreInv, [Next]_vars, ~Rename, ~RenameBoot, NEW p \in Final
  PROVE  Content(p)' = Content(p)
<1>0. /\ TypeOK /\ DiskInv /\ DiskTyped /\ ThreadTyped /\ job.id \in Names
      /\ p \in Kept /\ p \in Paths /\ p # BootTmp /\ p # Temp(job.id)
  BY TypeParts, PathsTyped, PathsDiffer DEF StoreInv, ThreadTyped, Jobs, Final, Kept
<1>1. CASE UNCHANGED disk
  BY <1>1 DEF Content, disk
<1>2. CASE Unlink \/ UnlinkBoot
  <2>1. PICK q \in {Temp(job.id), BootTmp} : SetDir([dir EXCEPT ![q] = NoFile])
    BY <1>2 DEF Unlink, UnlinkBoot
  <2>2. [dir EXCEPT ![q] = NoFile] \in Dirs /\ [dir EXCEPT ![q] = NoFile][p] = dir[p]
    BY <1>0, <2>1, JobPaths, DirsClosed DEF DiskTyped, Dirs
  <2> QED
    BY <1>0, <2>1, <2>2, SetDirKeeps DEF Content
<1>3. CASE Open
  <2>1. CASE dir[Temp(job.id)] # NoFile
    BY <1>1, <1>3, <2>1 DEF Open
  <2>2. CASE dir[Temp(job.id)] = NoFile
    BY <1>0, <1>3, <2>2 DEF Open, Unlinked, Content, DiskTyped, Dirs
  <2> QED
    BY <2>1, <2>2
<1>4. CASE Write \/ Fsync
  <2>1. file \in Inodes /\ file = dir[Temp(job.id)] /\ file # NoFile
    BY <1>0, <1>4 DEF Write, Fsync, Step, DiskInv, Writing, ThreadTyped
  <2>2. dir[p] # file
    BY <1>0, <2>1 DEF DiskInv, TempsAlone
  <2> QED
    BY <1>0, <1>4, <2>2 DEF Write, Fsync, Content, DiskTyped, Dirs
<1>5. CASE Link
  BY <1>0, <1>5 DEF Link, Content, DiskTyped, Dirs, disk
<1>6. CASE PowerLoss
  BY <1>0, <1>6 DEF PowerLoss, Content, DiskInv, KeptWhole, DiskTyped, Dirs
<1> QED
  BY <1>1, <1>2, <1>3, <1>4, <1>5, <1>6
     DEF Next, Handlers, Persist, PersistActive, Environment, vars, Put, Post, Delete,
         Deploy, Request, Answered, GivesUp, StatFails, Stat, Execute, Fails,
         AgentCrash, VarnishdRestarts

\* rename() of the temporary file stores the program.
LEMMA ContentRenamed ==
  ASSUME StoreInv, ShortWrites = FALSE, Rename, NEW p \in Final
  PROVE  Content(p)' = IF p = Target(job.id) THEN job.body ELSE Content(p)
<1> DEFINE d == [dir EXCEPT ![Target(job.id)] = dir[Temp(job.id)], ![Temp(job.id)] = NoFile]
<1>0. /\ TypeOK /\ DiskInv /\ DiskTyped /\ ThreadTyped /\ job.id \in Names /\ job.body \in Bodies
      /\ p \in Paths /\ p # Temp(job.id)
  BY TypeParts, PathsTyped, PathsDiffer DEF StoreInv, ThreadTyped, Jobs, Final
<1>1. d \in Dirs /\ SetDir(d)
  BY <1>0, JobPaths, DirsClosed DEF Rename, DiskTyped
<1>2. d[p] = IF p = Target(job.id) THEN dir[Temp(job.id)] ELSE dir[p]
  BY <1>0, JobPaths DEF DiskTyped, Dirs
<1>3. inode[dir[Temp(job.id)]].data = job.body /\ dir[Temp(job.id)] # NoFile
  BY <1>0 DEF Rename, DiskInv, Writing, Stored
<1>4. dir'[p] = d[p] /\ (d[p] # NoFile => inode'[d[p]] = inode[d[p]])
  BY <1>0, <1>1, SetDirKeeps
<1> HIDE DEF d
<1> QED
  BY <1>2, <1>3, <1>4 DEF Content

\* rename() of boot.vcl.tmp makes boot.vcl the stored program.
LEMMA ContentActivated ==
  ASSUME StoreInv, RenameBoot, NEW p \in Final
  PROVE  /\ Content(p)' = IF p = BootVcl THEN Content(Target(job.id)) ELSE Content(p)
         /\ dir[Target(job.id)] # NoFile
<1> DEFINE d == IF dir[BootTmp] = dir[BootVcl] THEN dir
                ELSE [dir EXCEPT ![BootVcl] = dir[BootTmp], ![BootTmp] = NoFile]
<1>0. DiskInv /\ DiskTyped /\ ThreadTyped /\ p \in Paths /\ p # BootTmp
  BY TypeParts, PathsTyped, PathsDiffer DEF StoreInv, Final
<1>1. d \in Dirs /\ SetDir(d)
  BY <1>0, JobPaths, DirsClosed DEF RenameBoot, DiskTyped
<1>2. d[p] = IF p = BootVcl THEN dir[BootTmp] ELSE dir[p]
  BY <1>0, JobPaths DEF DiskTyped, Dirs
<1>3. dir[BootTmp] = dir[Target(job.id)] /\ dir[Target(job.id)] # NoFile
  BY <1>0 DEF RenameBoot, DiskInv, Linking
<1>4. dir'[p] = d[p] /\ (d[p] # NoFile => inode'[d[p]] = inode[d[p]])
  BY <1>0, <1>1, SetDirKeeps
<1> HIDE DEF d
<1> QED
  BY <1>2, <1>3, <1>4 DEF Content

LEMMA RefineInit == Init => Files!FInit
<1> SUFFICES ASSUME Init PROVE Files!FInit
  OBVIOUS
<1>1. \A p \in Final : Content(p) = NoFile
  BY PathsTyped DEF Init, Content, Final
<1> QED
  BY <1>1 DEF Files!FInit, Final

LEMMA RefineNext ==
  ASSUME StoreInv, ShortWrites = FALSE, [Next]_vars
  PROVE  [Files!FNext]_<<[n \in Names |-> Content(Target(n))], Content(BootVcl)>>
<1>0. /\ BootVcl \in Final /\ \A n \in Names : Target(n) \in Final /\ Target(n) # BootVcl
      /\ job.id \in Names /\ job.body \in Bodies
      /\ \A n, m \in Names : Target(n) = Target(m) => n = m
  <2>1. job.id \in Names /\ job.body \in Bodies
    BY TypeParts DEF StoreInv, ThreadTyped, Jobs
  <2>2. BootVcl \in Final /\ \A n \in Names : Target(n) \in Final
    BY DEF Final
  <2>3. \A n \in Names : Target(n) # BootVcl
    BY PathsDiffer
  <2>4. \A n, m \in Names : Target(n) = Target(m) => n = m
    BY PathsDiffer
  <2> QED
    BY <2>1, <2>2, <2>3, <2>4
<1>1. CASE Rename
  <2>1. \A p \in Final : Content(p)' = IF p = Target(job.id) THEN job.body ELSE Content(p)
    BY <1>1, ContentRenamed
  <2>2. Content(BootVcl)' = Content(BootVcl)
    BY <1>0, <2>1
  <2>3. [n \in Names |-> Content(Target(n))]'
          = [[n \in Names |-> Content(Target(n))] EXCEPT ![job.id] = job.body]
    BY <1>0, <2>1
  <2>4. Files!Store(job.id, job.body)
    BY <2>2, <2>3 DEF Files!Store
  <2> QED
    BY <1>0, <2>4 DEF Files!FNext
<1>2. CASE RenameBoot
  <2>1. /\ \A p \in Final : Content(p)' = IF p = BootVcl THEN Content(Target(job.id)) ELSE Content(p)
        /\ dir[Target(job.id)] # NoFile
    BY <1>0, <1>2, ContentActivated
  <2>2. Content(Target(job.id)) \in Bodies
    BY <1>0, <2>1, WholeContents, PathsDiffer DEF Content
  <2>3. Content(Target(job.id)) # NoFile
    BY <2>2, BodiesAssumption
  <2>4. [n \in Names |-> Content(Target(n))]' = [n \in Names |-> Content(Target(n))]
    BY <1>0, <2>1
  <2>5. Files!Activate(job.id)
    BY <1>0, <2>1, <2>3, <2>4 DEF Files!Activate
  <2> QED
    BY <1>0, <2>5 DEF Files!FNext
<1>3. CASE ~Rename /\ ~RenameBoot
  <2>1. \A p \in Final : Content(p)' = Content(p)
    BY <1>3, ContentKept
  <2> QED
    BY <1>0, <2>1
<1> QED
  BY <1>1, <1>2, <1>3

\* Seen through the directory, vcl_persist and vcl_persist_active each replace
\* a file at one stroke, and no crash or failure shows half of it.
THEOREM StoreImplementsFiles ==
  ASSUME ShortWrites = FALSE
  PROVE  Spec => ImplementsFiles
<1>1. StoreInv /\ [Next]_vars =>
         [Files!FNext]_<<[n \in Names |-> Content(Target(n))], Content(BootVcl)>>
  BY RefineNext
<1> QED
  BY <1>1, RefineInit, StoreInvariant, PTL DEF Spec, ImplementsFiles, Files!FSpec

-----------------------------------------------------------------------------
(* What clients are told, until an answer is late or something crashes.    *)

\* varnishd did what the request in progress asked for.
Done ==
    IF job.kind = "upload" THEN vcls[job.id] = job.body
    ELSE job.kind = "deploy" => active = job.id

\* One command or one answer is in the handle while the thread waits, none
\* otherwise, and what follows an "ok" finds varnishd as the command left it.
InStep ==
    /\ pc = "wait" =>
          \/ cmds = <<job>> /\ answers = <<>>
          \/ cmds = <<>> /\ \E s \in Statuses : answers = <<s>> /\ (s = "ok" => Done)
    /\ pc # "wait" => cmds = <<>> /\ answers = <<>>
    /\ pc \notin {"idle", "wait"} => Done

\* n is loaded and about to be stored.
Uploading(n) ==
    /\ n = job.id /\ job.kind = "upload"
    /\ pc \in {"unlink", "open", "write", "fsync", "rename"} \/ (pc = "wait" /\ answers = <<"ok">>)

\* What is loaded and stored under one name is one program, and the active
\* VCL is loaded.
LoadedStored ==
    /\ vcls[active] # Nothing
    /\ \A n \in Names : vcls[n] # Nothing /\ Content(Target(n)) # NoFile /\ ~Uploading(n) =>
          Content(Target(n)) = vcls[n]

\* So far no answer was late and nothing crashed; no system call failed either.
Timely == late = 0 /\ crashes = 0
Faultless == Timely /\ faults = 0

\* What has not happened after a step has not in it, and not before.
LEMMA NothingFails ==
  ASSUME TypeOK, Timely'
  PROVE  ~GivesUp /\ ~AgentCrash /\ ~PowerLoss /\ ~VarnishdRestarts
  BY TypeParts DEF CountsTyped, GivesUp, AgentCrash, PowerLoss, VarnishdRestarts, Timely

LEMMA CountsGrow ==
  ASSUME TypeOK, [Next]_vars
  PROVE  /\ Timely' => Timely
         /\ Faultless' => Faultless /\ ~Fails
<1>1. late \in Nat /\ crashes \in Nat /\ faults \in Nat
  BY TypeParts, BoundsAssumption DEF CountsTyped
<1>2. CASE GivesUp \/ Fails \/ AgentCrash \/ PowerLoss \/ VarnishdRestarts
  BY <1>1, <1>2 DEF GivesUp, Fails, AgentCrash, PowerLoss, VarnishdRestarts, Timely, Faultless
<1>3. CASE ~(GivesUp \/ Fails \/ AgentCrash \/ PowerLoss \/ VarnishdRestarts)
  <2>1. UNCHANGED counts
    BY <1>3 DEF Next, Handlers, Persist, PersistActive, Environment, vars, Put, Post, Delete,
       Deploy, Request, Answered, Step, Unlink, Open, Write, Fsync, Rename, StatFails, Stat,
       UnlinkBoot, Link, RenameBoot, Execute
  <2> QED
    BY <1>3, <2>1 DEF counts, Timely, Faultless
<1> QED
  BY <1>2, <1>3

LEMMA RequestInStep ==
  ASSUME InStep, NEW kind, NEW id, NEW b, Request(kind, id, b)
  PROVE  InStep'
<1>1. cmds = <<>> /\ answers = <<>>
  BY DEF InStep, Request
<1>2. cmds' = <<job'>> /\ answers' = <<>> /\ pc' = "wait"
  BY <1>1 DEF Request
<1> QED
  BY <1>2 DEF InStep

LEMMA AnsweredInStep ==
  ASSUME InStep, Answered
  PROVE  InStep'
<1>1. PICK s \in Statuses : cmds = <<>> /\ answers = <<s>> /\ (s = "ok" => Done)
  BY DEF InStep, Answered
<1>2. cmds' = <<>> /\ answers' = <<>> /\ Head(answers) = s
  BY <1>1 DEF Answered
<1>3. pc' = "idle" \/ (s = "ok" /\ pc' \in {"unlink", "stat"} /\ UNCHANGED <<varnish, job>>)
  BY <1>2 DEF Answered, Reply
<1> QED
  BY <1>1, <1>2, <1>3 DEF InStep, Done, varnish

LEMMA ExecuteInStep ==
  ASSUME InStep, Execute
  PROVE  /\ pc = "wait" /\ cmds = <<job>> /\ answers = <<>>
         /\ \E s \in Statuses : Does(job, s) /\ cmds' = <<>> /\ answers' = <<s>>
<1>1. pc = "wait" /\ cmds = <<job>> /\ answers = <<>>
  BY DEF InStep, Execute
<1>2. Head(cmds) = job /\ cmds' = <<>>
  BY <1>1 DEF Execute
<1>3. PICK s \in Statuses : Does(Head(cmds), s) /\ answers' = Append(answers, s)
  BY DEF Execute
<1>4. Does(job, s)
  BY <1>2, <1>3
<1>5. answers' = <<s>>
  BY <1>1, <1>3
<1> QED
  BY <1>1, <1>2, <1>4, <1>5

LEMMA InStepNext ==
  ASSUME TypeOK, InStep, [Next]_vars, Timely'
  PROVE  InStep'
<1>1. CASE UNCHANGED vars
  BY <1>1 DEF vars, InStep, Done, varnish, handle, thread
<1>2. CASE Put \/ Post \/ Delete \/ Deploy
  BY <1>2, RequestInStep DEF Put, Post, Delete, Deploy
<1>3. CASE Answered
  BY <1>3, AnsweredInStep
<1>4. CASE Execute
  <2>1. PICK s \in Statuses : Does(job, s) /\ cmds' = <<>> /\ answers' = <<s>>
    BY <1>4, ExecuteInStep
  <2>2. pc' = "wait" /\ job' = job
    BY <1>4, ExecuteInStep DEF Execute, thread
  <2>3. s = "ok" => Done'
    <3> SUFFICES ASSUME s = "ok" PROVE Done'
      OBVIOUS
    <3>1. job.id \in Names /\ vcls \in [Names -> Bodies \cup {Nothing}]
      BY TypeParts DEF ThreadTyped, VarnishTyped, Jobs
    <3> QED
      BY <2>1, <2>2, <3>1 DEF Does, Done, varnish
  <2> QED
    BY <2>1, <2>2, <2>3 DEF InStep
<1>5. CASE UNCHANGED <<varnish, handle>> /\ pc \notin {"idle", "wait"}
           /\ (pc' = "idle" \/ (UNCHANGED job /\ pc' # "wait"))
  BY <1>5 DEF InStep, Done, varnish, handle
<1>6. CASE Persist
  BY <1>5, <1>6 DEF Persist, Unlink, Open, Write, Fsync, Rename, Step, Reply
<1>7. CASE PersistActive
  BY <1>5, <1>7 DEF PersistActive, StatFails, Stat, UnlinkBoot, Link, RenameBoot, Step, Reply
<1>8. CASE Fails
  BY <1>5, <1>8 DEF Fails, Reply
<1> QED
  BY <1>1, <1>2, <1>3, <1>4, <1>6, <1>7, <1>8, NothingFails DEF Next, Handlers, Environment

THEOREM AnswersInStep == Spec => [](Timely => InStep)
<1>1. Init => (Timely => InStep)
  BY DEF Init, InStep
<1>2. StoreInv /\ (Timely => InStep) /\ [Next]_vars => (Timely => InStep)'
  BY InStepNext, CountsGrow DEF StoreInv
<1> QED
  BY <1>1, <1>2, StoreInvariant, PTL DEF Spec

\* An upload answered 201 is loaded by varnishd and stored as it was sent,
\* whichever system calls failed before, until an answer is late or something
\* crashes (vcl_store, vcl_persist).
THEOREM CreatedStaysStored ==
  ASSUME ShortWrites = FALSE
  PROVE  Spec => CreatedIsStored
<1>1. StoreInv /\ (Timely => InStep) /\ [Next]_vars =>
        [late = 0 /\ crashes = 0 /\ res' # res /\ res'.job.kind = "upload" /\ res'.why = "ok" =>
           \A n \in Names : n = res'.job.id =>
               vcls[n] = res'.job.body /\ Content(Target(n))' = res'.job.body]_vars
  <2> SUFFICES ASSUME StoreInv, InStep, Next, NEW n \in Names,
                      res' # res, res'.job.kind = "upload", res'.why = "ok", n = res'.job.id
               PROVE  vcls[n] = res'.job.body /\ Content(Target(n))' = res'.job.body
    BY DEF Timely
  <2>0. TypeOK /\ DiskInv
    BY DEF StoreInv
  <2>1. CASE Rename
    <3>1. res' = [job |-> job, why |-> "ok"]
      BY <2>1 DEF Rename, Reply
    <3>2. n = job.id /\ job.kind = "upload" /\ res'.job.body = job.body
      BY <3>1
    <3>3. vcls[n] = job.body
      BY <2>1, <3>2 DEF Rename, InStep, Done
    <3>4. Content(Target(n))' = job.body
      BY <2>1, <3>2, ContentRenamed DEF Final
    <3> QED
      BY <3>2, <3>3, <3>4
  <2>2. ~Answered
    BY DEF Answered, Reply
  <2>3. ~RenameBoot
    BY <2>0 DEF RenameBoot, Reply, DiskInv, Placed
  <2>4. ~GivesUp /\ ~AgentCrash /\ ~PowerLoss /\ ~VarnishdRestarts
    BY DEF GivesUp, Reply, AgentCrash, PowerLoss, VarnishdRestarts, thread
  <2> QED
    BY <2>0, <2>1, <2>2, <2>3, <2>4
       DEF Next, Handlers, Persist, PersistActive, Environment, Put, Post, Delete, Deploy,
           Request, NoRes, Unlink, Open, Write, Fsync, StatFails, Stat, UnlinkBoot, Link,
           Step, Reply, Execute, Fails, thread
<1> QED
  BY <1>1, StoreInvariant, AnswersInStep, PTL DEF Spec, CreatedIsStored

LEMMA ExecuteStored ==
  ASSUME TypeOK, InStep, LoadedStored, Execute
  PROVE  LoadedStored'
<1>0. job.id \in Names /\ job.body \in Bodies /\ active \in Names /\ vcls \in [Names -> Bodies \cup {Nothing}]
  BY TypeParts DEF ThreadTyped, VarnishTyped, Jobs
<1>1. pc = "wait" /\ answers = <<>>
  BY ExecuteInStep
<1>2. PICK s \in Statuses : Does(job, s) /\ answers' = <<s>>
  BY ExecuteInStep
<1>3. \A n \in Names : Content(Target(n))' = Content(Target(n))
  BY DEF Execute, Content, disk
<1>4. pc' = "wait" /\ job' = job
  BY <1>1 DEF Execute, thread
<1>5. \A n \in Names : ~Uploading(n)
  BY <1>1 DEF Uploading
<1>6. vcls'[active'] # Nothing
  BY <1>0, <1>2, BodiesAssumption DEF Does, varnish, LoadedStored
<1>7. \A n \in Names : vcls'[n] = vcls[n] \/ vcls'[n] = Nothing \/ Uploading(n)'
  <2> SUFFICES ASSUME NEW n \in Names, vcls'[n] # vcls[n], vcls'[n] # Nothing
               PROVE  Uploading(n)'
    OBVIOUS
  <2>1. n = job.id /\ job.kind = "upload" /\ s = "ok"
    BY <1>0, <1>2 DEF Does, varnish
  <2> QED
    BY <1>2, <1>4, <2>1 DEF Uploading
<1> QED
  BY <1>3, <1>5, <1>6, <1>7 DEF LoadedStored

LEMMA RenameStored ==
  ASSUME StoreInv, ShortWrites = FALSE, InStep, LoadedStored, Rename
  PROVE  LoadedStored'
<1>1. \A n \in Names : Content(Target(n))' =
         IF n = job.id THEN job.body ELSE Content(Target(n))
  <2> TAKE n \in Names
  <2>1. job.id \in Names
    BY TypeParts DEF StoreInv, ThreadTyped, Jobs
  <2>2. Target(n) = Target(job.id) <=> n = job.id
    BY <2>1, PathsDiffer
  <2>3. Target(n) \in Final
    BY DEF Final
  <2> QED
    BY <2>2, <2>3, ContentRenamed
<1>2. vcls[job.id] = job.body
  BY DEF Rename, InStep, Done, StoreInv, DiskInv, Placed
<1>3. UNCHANGED <<vcls, active>>
  BY DEF Rename, varnish
<1>4. \A n \in Names : n # job.id => ~Uploading(n)
  BY DEF Uploading
<1> QED
  BY <1>1, <1>2, <1>3, <1>4 DEF LoadedStored

\* A step that leaves varnishd and the files as they are.
LEMMA StoredKept ==
  ASSUME LoadedStored, UNCHANGED varnish,
         \A n \in Names : Content(Target(n))' = Content(Target(n)),
         \A n \in Names : Uploading(n) => Uploading(n)'
  PROVE  LoadedStored'
  BY DEF LoadedStored, varnish

LEMMA UploadingKept ==
  ASSUME StoreInv, InStep, [Next]_vars, Faultless', ~Rename,
         NEW n \in Names, Uploading(n)
  PROVE  Uploading(n)'
<1>0. TypeOK /\ DiskInv
  BY DEF StoreInv
<1>1. ~Fails /\ Timely'
  BY <1>0, CountsGrow DEF Faultless
<1>2. CASE Answered
  <2>1. answers = <<"ok">> /\ job.kind = "upload" /\ pc = "wait"
    BY <1>2 DEF Answered, Uploading
  <2>2. Head(answers) = "ok"
    BY <2>1
  <2>3. pc' = "unlink" /\ UNCHANGED job
    BY <1>2, <2>1, <2>2 DEF Answered
  <2> QED
    BY <2>3 DEF Uploading
<1>3. ~Execute
  <2>1. pc # "wait" \/ Len(answers) = 1
    BY DEF Uploading
  <2>2. pc # "wait" => ~Execute
    BY ExecuteInStep
  <2>3. Len(answers) = 1 => ~Execute
    BY ExecuteInStep
  <2> QED
    BY <2>1, <2>2, <2>3
<1>4. CASE Unlink \/ Open \/ Write \/ Fsync
  BY <1>0, <1>4 DEF Unlink, Open, Write, Fsync, Step, Uploading, DiskInv, Writing
<1>5. CASE UNCHANGED <<pc, job, answers>>
  BY <1>5 DEF Uploading
<1>6. ~PersistActive /\ ~Put /\ ~Post /\ ~Delete /\ ~Deploy
  BY DEF PersistActive, StatFails, Stat, UnlinkBoot, Link, RenameBoot, Step, Put, Post, Delete,
         Deploy, Request, Uploading
<1> QED
  BY <1>0, <1>1, <1>2, <1>3, <1>4, <1>5, <1>6, NothingFails
     DEF Next, Handlers, Persist, Environment, vars, handle, thread

LEMMA StoredNext ==
  ASSUME StoreInv, InStep, LoadedStored, [Next]_vars,
         Faultless', ShortWrites = FALSE
  PROVE  LoadedStored'
<1>0. TypeOK
  BY DEF StoreInv
<1>1. CASE Execute
  BY <1>0, <1>1, ExecuteStored
<1>2. CASE Rename
  BY <1>2, RenameStored
<1>3. CASE ~Execute /\ ~Rename
  <2>1. UNCHANGED varnish
    BY <1>0, <1>3, NothingFails
       DEF Faultless, Next, Handlers, Persist, PersistActive, Environment, vars, Put, Post, Delete,
           Deploy, Request, Answered, Unlink, Open, Write, Fsync, StatFails, Stat,
           UnlinkBoot, Link, RenameBoot, Step, Fails
  <2>2. \A n \in Names : Target(n) \in Final /\ Target(n) # BootVcl
    BY PathsDiffer DEF Final
  <2>3. \A n \in Names : Content(Target(n))' = Content(Target(n))
    BY <1>3, <2>2, ContentKept, ContentActivated
  <2> QED
    BY <1>3, <2>1, <2>3, StoredKept, UploadingKept
<1> QED
  BY <1>1, <1>2, <1>3

\* As long as nothing fails, a deploy answered 200 leaves in boot.vcl the program
\* that varnishd uses, through discards and names used again (vcl_deploy).
THEOREM DeployedStaysBoot ==
  ASSUME ShortWrites = FALSE
  PROVE  Spec => DeployedIsBoot
<1>1. Init => (Faultless => LoadedStored)
  BY BodiesAssumption, PathsTyped DEF Init, LoadedStored, Content, Names
<1>2. StoreInv /\ (Timely => InStep) /\ (Faultless => LoadedStored) /\ [Next]_vars =>
        (Faultless => LoadedStored)'
  BY StoredNext, CountsGrow DEF StoreInv, Faultless
<1>3. StoreInv /\ (Timely => InStep) /\ (Faultless => LoadedStored) /\ [Next]_vars =>
        [late = 0 /\ crashes = 0 /\ faults = 0 /\ res' # res /\ res'.job.kind = "deploy" /\ res'.why = "ok" =>
            active = res'.job.id /\ Content(BootVcl)' = vcls[active]]_vars
  <2> SUFFICES ASSUME StoreInv, InStep, LoadedStored, Next,
                      res' # res, res'.job.kind = "deploy", res'.why = "ok"
               PROVE  active = res'.job.id /\ Content(BootVcl)' = vcls[active]
    BY DEF Timely, Faultless
  <2>0. TypeOK /\ DiskInv /\ job.id \in Names
    BY TypeParts DEF StoreInv, ThreadTyped, Jobs
  <2>1. CASE RenameBoot
    <3>1. job.kind = "deploy" /\ active = job.id
      BY <2>0, <2>1 DEF RenameBoot, InStep, Done, DiskInv, Placed
    <3>2. res'.job.id = job.id
      BY <2>1 DEF RenameBoot, Reply
    <3>3. BootVcl \in Final /\ Target(job.id) \in Kept
      BY <2>0, PathsDiffer DEF Final
    <3>4. Content(BootVcl)' = Content(Target(job.id)) /\ dir[Target(job.id)] # NoFile
      BY <2>1, <3>3, ContentActivated
    <3>5. Content(Target(job.id)) \in Bodies
      BY <3>3, <3>4, WholeContents DEF Content
    <3>6. Content(Target(job.id)) # NoFile
      BY <3>5, BodiesAssumption
    <3>7. ~Uploading(job.id)
      BY <3>1 DEF Uploading
    <3> QED
      BY <2>0, <3>1, <3>2, <3>4, <3>6, <3>7 DEF LoadedStored
  <2>2. ~Answered
    BY DEF Answered, Reply
  <2>3. ~Rename
    BY <2>0 DEF Rename, Reply, DiskInv, Placed
  <2>4. ~GivesUp /\ ~AgentCrash /\ ~PowerLoss /\ ~VarnishdRestarts
    BY DEF GivesUp, Reply, AgentCrash, PowerLoss, VarnishdRestarts, thread
  <2> QED
    BY <2>0, <2>1, <2>2, <2>3, <2>4
       DEF Next, Handlers, Persist, PersistActive, Environment, Put, Post, Delete, Deploy,
           Request, NoRes, Unlink, Open, Write, Fsync, StatFails, Stat, UnlinkBoot, Link,
           Step, Reply, Execute, Fails, thread
<1> QED
  BY <1>1, <1>2, <1>3, StoreInvariant, AnswersInStep, PTL DEF Spec, DeployedIsBoot

=============================================================================
