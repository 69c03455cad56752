------------------------------ MODULE VclStore ------------------------------
(***************************************************************************)
(* Uploading, discarding and deploying VCL (modules/vcl.c): the HTTP       *)
(* thread sends a command to varnishd through the vadmin handle and, when  *)
(* it is answered 200, moves files into place in the persistence           *)
(* directory, one system call after the other.  The agent or the machine   *)
(* may crash between any two of them, a system call may fail, an answer    *)
(* may come later than the five seconds the caller waits.                  *)
(*                                                                         *)
(* Directory entries name inodes, so that a hard link and the file it was  *)
(* made from are one file: boot.vcl is a link to <name>.auto.vcl.          *)
(***************************************************************************)
EXTENDS Naturals, Sequences

CONSTANTS
    Idents,       \* names clients give to VCLs they upload
    Boot,         \* the name varnishd gives to the VCL it starts with
    Seconds,      \* the seconds the clock may show when a POST arrives
    Bodies,       \* VCL programs
    Default,      \* the one varnishd starts with when there is no boot.vcl
    Inodes,       \* inode numbers
    NoFile, Nothing, Partial,
    MaxCrashes,   \* bound on crashes of the agent or the machine
    MaxFaults,    \* bound on system calls that fail
    MaxLate,      \* bound on answers that are late
    ShortWrites   \* a write may store a part of the data (disk full)

\* A POST names the VCL after the second it arrives in; several may arrive in
\* one, and a client may choose such a name as well.
Names == Idents \cup {Boot} \cup Seconds

ASSUME InodesAssumption == Inodes \subseteq Nat
ASSUME BodiesAssumption ==
    /\ Default \in Bodies
    /\ {NoFile, Nothing, Partial} \cap Bodies = {}
    /\ NoFile \notin Inodes /\ NoFile # Nothing /\ NoFile # Partial /\ Nothing # Partial
ASSUME BoundsAssumption ==
    /\ MaxCrashes \in Nat /\ MaxFaults \in Nat /\ MaxLate \in Nat
    /\ ShortWrites \in BOOLEAN

Target(n) == <<"auto", n>>     \* <n>.auto.vcl
Temp(n) == <<"temp", n>>       \* .tmp.<n>.auto.vcl
BootVcl == <<"boot", Boot>>    \* boot.vcl
BootTmp == <<"boottmp", Boot>> \* boot.vcl.tmp
Paths == {Target(n) : n \in Names} \cup {Temp(n) : n \in Names} \cup {BootVcl, BootTmp}

VARIABLES
    \* varnishd
    vcls,     \* vcls[n]: the program loaded as n, Nothing if there is none
    active,   \* name of the active one
    \* the vadmin handle of the vcl plugin
    cmds,     \* commands sent and not yet executed
    answers,  \* answers not yet read
    \* the disk
    dir,      \* dir[p]: the inode path p names, or NoFile
    inode,    \* inode[i]: [data, synced]
    \* the HTTP thread
    pc, job,  \* where it is in which request: [kind, id, body]
    file,     \* the inode it has open
    res,      \* the last reply: [job, why]
    crashes, faults, late

varnish == <<vcls, active>>
handle  == <<cmds, answers>>
disk    == <<dir, inode>>
thread  == <<pc, job, file, res>>
counts  == <<crashes, faults, late>>
vars    == <<varnish, handle, disk, thread, counts>>

Kinds == {"upload", "delete", "deploy"}
Jobs == [kind : Kinds, id : Names, body : Bodies]
Statuses == {"ok", "taken", "refused", "comms"}  \* 200, 106 twice, 400

TypeOK ==
    /\ vcls \in [Names -> Bodies \cup {Nothing}] /\ active \in Names
    /\ cmds \in Seq(Jobs) /\ answers \in Seq(Statuses)
    /\ dir \in [Paths -> Inodes \cup {NoFile}]
    /\ inode \in [Inodes -> [data : Bodies \cup {Nothing, Partial}, synced : BOOLEAN]]
    /\ pc \in {"idle", "wait", "unlink", "open", "write", "fsync", "rename",
               "stat", "unlinkb", "link", "renameb"}
    /\ job \in Jobs /\ file \in Inodes \cup {NoFile}
    /\ res \in [job : Jobs, why : Statuses \cup {"unsaved", "none"}]
    /\ crashes \in 0 .. MaxCrashes /\ faults \in 0 .. MaxFaults /\ late \in 0 .. MaxLate

NoJob == [kind |-> "upload", id |-> Boot, body |-> Default]
NoRes == [job |-> NoJob, why |-> "none"]
NoData == [data |-> Nothing, synced |-> TRUE]

Init ==
    /\ vcls = [n \in Names |-> IF n = Boot THEN Default ELSE Nothing] /\ active = Boot
    /\ cmds = <<>> /\ answers = <<>>
    /\ dir = [p \in Paths |-> NoFile]
    /\ inode = [i \in Inodes |-> NoData]
    /\ pc = "idle" /\ job = NoJob /\ file = NoFile /\ res = NoRes
    /\ crashes = 0 /\ faults = 0 /\ late = 0

\* What path p holds.
Content(p) == IF dir[p] = NoFile THEN NoFile ELSE inode[dir[p]].data

Unlinked == {i \in Inodes : \A p \in Paths : dir[p] # i}

\* The directory becomes d; a file goes with its last name.
SetDir(d) ==
    /\ dir' = d
    /\ inode' = [i \in Inodes |-> IF \E p \in Paths : d[p] = i THEN inode[i] ELSE NoData]

\* The request is answered.
Reply(why) ==
    /\ pc' = "idle" /\ job' = NoJob /\ file' = NoFile
    /\ res' = [job |-> job, why |-> why]

\* The step of pc = from done right: the thread goes on to pc = to.
Step(from, to) == pc = from /\ pc' = to /\ UNCHANGED <<varnish, handle, job, res, counts>>

-----------------------------------------------------------------------------
(* varnishd                                                                *)

\* varnishd executes a command; a program may fail to compile.
Does(c, status) ==
    LET loaded == vcls[c.id] # Nothing IN
    \/ /\ c.kind = "upload"
       /\ \/ loaded /\ status = "taken" /\ UNCHANGED varnish
          \/ ~loaded /\ status = "refused" /\ UNCHANGED varnish
          \/ /\ ~loaded /\ status = "ok"
             /\ vcls' = [vcls EXCEPT ![c.id] = c.body] /\ UNCHANGED active
    \/ /\ c.kind = "delete"
       /\ IF loaded /\ active # c.id
          THEN status = "ok" /\ vcls' = [vcls EXCEPT ![c.id] = Nothing] /\ UNCHANGED active
          ELSE status = "refused" /\ UNCHANGED varnish
    \/ /\ c.kind = "deploy"
       /\ IF loaded
          THEN status = "ok" /\ active' = c.id /\ UNCHANGED vcls
          ELSE status = "refused" /\ UNCHANGED varnish

Execute ==
    /\ cmds # <<>>
    /\ \E status \in Statuses :
          /\ Does(Head(cmds), status)
          /\ answers' = Append(answers, status)
    /\ cmds' = Tail(cmds)
    /\ UNCHANGED <<disk, thread, counts>>

\* What varnishd has when it starts with -f boot.vcl.
Booted ==
    /\ vcls' = [n \in Names |-> IF n # Boot THEN Nothing
                                ELSE IF Content(BootVcl) \in Bodies THEN Content(BootVcl)
                                ELSE Default]
    /\ active' = Boot

-----------------------------------------------------------------------------
(* Faulty variants of the definitions below, one plausible slip each.  They *)
(* are not part of the specification: a run with one of them in place of    *)
(* the original shows that a property tells the two apart.                  *)

\* A temporary file left behind is not removed.
UnlinkNot == Step("unlink", "open") /\ UNCHANGED <<disk, file>>
UnlinkBootNot == Step("unlinkb", "link") /\ UNCHANGED <<disk, file>>

\* open(target) without a temporary file, O_TRUNC instead of O_EXCL.
OpenInPlace ==
    /\ Step("open", "write")
    /\ LET p == Target(job.id) IN
       \E i \in IF dir[p] = NoFile THEN Unlinked ELSE {dir[p]} :
          /\ file' = i
          /\ dir' = [dir EXCEPT ![p] = i, ![Temp(job.id)] = i]
          /\ inode' = [inode EXCEPT ![i] = NoData]

\* No fsync().
FsyncNot == Step("fsync", "rename") /\ UNCHANGED <<dir, inode>> /\ file' = NoFile

\* boot.vcl is removed before the link is made in its place.
LinkFirstUnlinks ==
    /\ Step("link", "renameb") /\ dir[BootTmp] = NoFile
    /\ dir' = [dir EXCEPT ![BootTmp] = dir[Target(job.id)], ![BootVcl] = NoFile]
    /\ UNCHANGED <<inode, file>>

\* A VCL that was not stored is not told to the client.
StatFailsQuietly ==
    /\ pc = "stat" /\ dir[Target(job.id)] = NoFile
    /\ Reply("ok")
    /\ UNCHANGED <<varnish, handle, disk, counts>>

\* The answer is not looked at.
AnsweredUnread ==
    /\ pc = "wait" /\ answers # <<>>
    /\ answers' = Tail(answers)
    /\ IF job.kind = "delete" THEN Reply(Head(answers))
       ELSE pc' = (IF job.kind = "deploy" THEN "stat" ELSE "unlink") /\ UNCHANGED <<job, file, res>>
    /\ UNCHANGED <<varnish, cmds, disk, counts>>

-----------------------------------------------------------------------------
(* The handlers, up to varnishd's answer.                                  *)

\* vcl_push (PUT), vcl_delete and vcl_deploy with a valid name and a body.
Request(kind, id, body) ==
    /\ pc = "idle" /\ job' = [kind |-> kind, id |-> id, body |-> body]
    /\ cmds' = Append(cmds, job')
    /\ pc' = "wait" /\ res' = NoRes
    /\ UNCHANGED <<varnish, answers, disk, file, counts>>

Put == \E id \in Idents, b \in Bodies : Request("upload", id, b)
Post == \E now \in Seconds, b \in Bodies : Request("upload", now, b)
Delete == \E id \in Names : Request("delete", id, Default)
Deploy == \E id \in Names : Request("deploy", id, Default)

\* ipc_run returns the next answer of the handle.
Answered ==
    /\ pc = "wait" /\ answers # <<>>
    /\ answers' = Tail(answers)
    /\ CASE Head(answers) = "ok" /\ job.kind = "upload" ->
                pc' = "unlink" /\ UNCHANGED <<job, file, res>>
         [] Head(answers) = "ok" /\ job.kind = "deploy" ->
                pc' = "stat" /\ UNCHANGED <<job, file, res>>
         [] OTHER -> Reply(Head(answers))
    /\ UNCHANGED <<varnish, cmds, disk, counts>>

\* ipc_run gives up after five seconds.
GivesUp ==
    /\ pc = "wait" /\ answers = <<>> /\ late < MaxLate
    /\ late' = late + 1
    /\ Reply("comms")
    /\ UNCHANGED <<varnish, handle, disk, crashes, faults>>

-----------------------------------------------------------------------------
(* vcl_persist, after vcl.inline was answered 200.                         *)

Unlink ==
    /\ Step("unlink", "open")
    /\ SetDir([dir EXCEPT ![Temp(job.id)] = NoFile])
    /\ UNCHANGED file

\* open(O_CREAT | O_EXCL): a new inode, one that no path names, unless the
\* file is there.
Open ==
    /\ pc = "open"
    /\ IF dir[Temp(job.id)] # NoFile
       THEN Reply("unsaved") /\ UNCHANGED <<varnish, handle, disk, counts>>
       ELSE /\ Step("open", "write")
            /\ \E i \in Unlinked :
                  /\ \A j \in Unlinked : i <= j
                  /\ file' = i
                  /\ dir' = [dir EXCEPT ![Temp(job.id)] = i]
                  /\ inode' = [inode EXCEPT ![i] = NoData]

\* assert(write() > 0)
Write ==
    /\ Step("write", "fsync")
    /\ \E d \in {job.body} \cup (IF ShortWrites THEN {Partial} ELSE {}) :
          inode' = [inode EXCEPT ![file] = [data |-> d, synced |-> FALSE]]
    /\ UNCHANGED <<dir, file>>

\* AZ(fsync()), AZ(close())
Fsync ==
    /\ Step("fsync", "rename")
    /\ inode' = [inode EXCEPT ![file].synced = TRUE]
    /\ file' = NoFile
    /\ UNCHANGED dir

Rename ==
    /\ pc = "rename"
    /\ SetDir([dir EXCEPT ![Target(job.id)] = dir[Temp(job.id)], ![Temp(job.id)] = NoFile])
    /\ Reply("ok")
    /\ UNCHANGED <<varnish, handle, counts>>

-----------------------------------------------------------------------------
(* vcl_persist_active, after vcl.use was answered 200.                     *)

StatFails ==
    /\ pc = "stat" /\ dir[Target(job.id)] = NoFile
    /\ Reply("unsaved")
    /\ UNCHANGED <<varnish, handle, disk, counts>>

Stat == Step("stat", "unlinkb") /\ dir[Target(job.id)] # NoFile /\ UNCHANGED <<disk, file>>

UnlinkBoot ==
    /\ Step("unlinkb", "link")
    /\ SetDir([dir EXCEPT ![BootTmp] = NoFile])
    /\ UNCHANGED file

Link ==
    /\ pc = "link"
    /\ IF dir[BootTmp] # NoFile
       THEN Reply("unsaved") /\ UNCHANGED <<varnish, handle, disk, counts>>
       ELSE /\ Step("link", "renameb")
            /\ dir' = [dir EXCEPT ![BootTmp] = dir[Target(job.id)]]
            /\ UNCHANGED <<inode, file>>

\* rename() of two links to one file does nothing and says 0.
RenameBoot ==
    /\ pc = "renameb"
    /\ SetDir(IF dir[BootTmp] = dir[BootVcl] THEN dir
              ELSE [dir EXCEPT ![BootVcl] = dir[BootTmp], ![BootTmp] = NoFile])
    /\ Reply("ok")
    /\ UNCHANGED <<varnish, handle, counts>>

-----------------------------------------------------------------------------
(* What goes wrong.                                                        *)

\* A system call whose failure the code handles fails.
Fails ==
    /\ pc \in {"unlink", "open", "rename", "stat", "unlinkb", "link", "renameb"}
    /\ faults < MaxFaults /\ faults' = faults + 1
    /\ Reply("unsaved")
    /\ UNCHANGED <<varnish, handle, disk, crashes, late>>

\* The agent dies, also from the asserts around write, fsync and close.
AgentCrash ==
    /\ crashes < MaxCrashes /\ crashes' = crashes + 1
    /\ cmds' = <<>> /\ answers' = <<>>
    /\ pc' = "idle" /\ job' = NoJob /\ file' = NoFile
    /\ UNCHANGED <<varnish, disk, res, faults, late>>

\* The machine stops: data that was not synced is gone, and varnishd boots.
PowerLoss ==
    /\ crashes < MaxCrashes /\ crashes' = crashes + 1
    /\ cmds' = <<>> /\ answers' = <<>>
    /\ pc' = "idle" /\ job' = NoJob /\ file' = NoFile
    /\ inode' = [i \in Inodes |-> IF inode[i].synced THEN inode[i]
                                  ELSE NoData]
    /\ Booted
    /\ UNCHANGED <<dir, res, faults, late>>

\* varnishd restarts.
VarnishdRestarts ==
    /\ crashes < MaxCrashes /\ crashes' = crashes + 1
    /\ Booted
    /\ UNCHANGED <<handle, disk, thread, faults, late>>

Handlers == Put \/ Post \/ Delete \/ Deploy \/ Answered \/ GivesUp
Persist == Unlink \/ Open \/ Write \/ Fsync \/ Rename
PersistActive == StatFails \/ Stat \/ UnlinkBoot \/ Link \/ RenameBoot
Environment ==
    Execute \/ Fails \/ AgentCrash \/ PowerLoss \/ VarnishdRestarts

Next == Handlers \/ Persist \/ PersistActive \/ Environment

Spec == Init /\ [][Next]_vars

-----------------------------------------------------------------------------
(* Properties.                                                             *)

\* The FIXME in vcl_persist_active fears a crash that leaves no boot.vcl in
\* place: once there is one, there is one, after every step and every crash.
BootStays == [][dir[BootVcl] # NoFile => dir'[BootVcl] # NoFile]_vars

\* boot.vcl and the stored VCLs are whole programs whose data is on the disk,
\* although each is written through another name and boot.vcl shares its
\* inode with a stored one that may be uploaded again.
FilesWhole ==
    \A p \in {BootVcl} \cup {Target(n) : n \in Names} :
        dir[p] # NoFile => inode[dir[p]].data \in Bodies /\ inode[dir[p]].synced

\* What a crash or an earlier request left behind never makes a later one
\* fail: an upload goes unsaved only because a system call failed.
LeftoversHarmless ==
    res.why = "unsaved" /\ res.job.kind = "upload" => faults > 0

\* Same for a deploy whose VCL was stored.
DeployLeftoversHarmless ==
    [][res' # res /\ res'.why = "unsaved" /\ res'.job.kind = "deploy"
       /\ dir[Target(res'.job.id)] # NoFile => faults' > faults]_vars

\* Each file changes at one stroke, to what was uploaded.
Files == INSTANCE VclFiles WITH auto <- [n \in Names |-> Content(Target(n))],
                                boot <- Content(BootVcl)
ImplementsFiles == Files!FSpec

\* mk_help: a successful deploy updates boot.vcl, so that varnishd can be
\* started with the most recent VCL: while nothing has failed.
DeployedIsBoot ==
    [][late = 0 /\ crashes = 0 /\ faults = 0 /\ res' # res /\ res'.job.kind = "deploy" /\ res'.why = "ok" =>
       active = res'.job.id /\ Content(BootVcl)' = vcls[active]]_vars

\* An upload answered 201 is loaded, and stored as it was sent, whichever system
\* calls have failed before, until an answer is late or something crashes.
CreatedIsStored ==
    [][late = 0 /\ crashes = 0 /\ res' # res /\ res'.job.kind = "upload" /\ res'.why = "ok" =>
         \A n \in Names : n = res'.job.id =>
             vcls[n] = res'.job.body /\ Content(Target(n))' = res'.job.body]_vars
=============================================================================
