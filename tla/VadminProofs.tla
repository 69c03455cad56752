---------------------------- MODULE VadminProofs ----------------------------
(***************************************************************************)
(* Proofs about Vadmin, for any descriptor table, any options, and any     *)
(* number of restarts of varnishd and refused authentications.             *)
(***************************************************************************)
EXTENDS Vadmin, FiniteSetTheorems, TLAPS

-----------------------------------------------------------------------------
(* The inductive invariant.                                                *)

Connecting == {"open", "banner", "secret", "auth1", "auth2", "auth3", "authread", "ping", "pong"}
Authenticating == {"auth1", "auth2", "auth3", "authread"}
Running == {"run1", "run2", "result"}

\* sock is the connection.
Owned == sock \in Fds /\ owner[sock] = "cli"

\* vadmin connects when it does not believe itself connected, and runs a
\* command when it does; it started to before the bound was reached.
Stages ==
    /\ pc \in Connecting => state = 0 /\ refused < MaxRefused
    /\ pc \in Running => state = 1

\* Where the descriptor is the connection.  It is not always so while
\* vadmin authenticates, and afterwards only because an answer was read.
OwnedWhere ==
    /\ pc \in {"banner", "secret", "auth1", "ping", "pong"} => Owned
    /\ state = 1 => Owned
    /\ pc = "ping" => peer # "rst"

\* The number kept from an earlier connection is that of no other one.
StaleWhere == pc \in {"idle", "open"} /\ state = 0 /\ sock \in Fds => owner[sock] # "cli"

\* The secret file's descriptor is never lost to anybody else.
SecretOwned ==
    /\ sfd # 0 => owner[sfd] = "secret"
    /\ pc \in Authenticating => sock \in Fds /\ sfd # 0 /\ sock # sfd

Leaked == {f \in Fds \ {sock} : owner[f] = "cli"}

AliveInv == Stages /\ OwnedWhere /\ StaleWhere /\ SecretOwned
VadminInv == TypeOK /\ died # "assert" /\ (Alive => AliveInv) /\ LeaksAreRefusals

-----------------------------------------------------------------------------
(* Types.                                                                  *)

AgentTyped ==
    /\ state \in {0, 1}
    /\ sock \in Fds \cup {0} /\ sfd \in Fds \cup {0}
    /\ targ \in 0 .. MaxRestarts /\ sarg \in BOOLEAN
    /\ pc \in {"idle"} \cup Connecting \cup Running
    /\ cmd \in {"boot", "cmd", "quit", "blank"}
    /\ ret \in {Unset, CliOK, Comms, Closing}
Owners == [Fds -> {"free", "cli", "secret", "other"}]
KernelTyped ==
    /\ owner \in Owners
    /\ peer \in {"live", "fin", "rst"}
    /\ bad \in SUBSET {"closed", "foreign"}
    /\ died \in {"no", "sigpipe", "assert"}
WorldTyped ==
    /\ vd \in [up : BOOLEAN, starts : 0 .. MaxRestarts, auth : BOOLEAN,
               right : BOOLEAN, fresh : BOOLEAN]
    /\ shm \in BOOLEAN
HistoryTyped == fails \in 0 .. MaxFails /\ refused \in 0 .. MaxRefused

LEMMA TypeParts ==
  /\ TypeOK <=> AgentTyped /\ KernelTyped /\ WorldTyped /\ HistoryTyped
  /\ (TypeOK <=> AgentTyped /\ KernelTyped /\ WorldTyped /\ HistoryTyped)'
  BY DEF TypeOK, AgentTyped, KernelTyped, WorldTyped, HistoryTyped, Connecting, Running, Owners

LEMMA TypeKept ==
  /\ AgentTyped /\ UNCHANGED agent => AgentTyped'
  /\ KernelTyped /\ UNCHANGED kernel => KernelTyped'
  /\ WorldTyped /\ UNCHANGED world => WorldTyped'
  /\ HistoryTyped /\ UNCHANGED history => HistoryTyped'
  BY DEF AgentTyped, KernelTyped, WorldTyped, HistoryTyped, agent, kernel, world, history

\* Zero is not a descriptor.
LEMMA FdsPositive == 0 \notin Fds /\ IsFiniteSet(Fds)
  BY FdsAssumption

LEMMA ClosedTyped ==
  ASSUME owner \in Owners, NEW f
  PROVE  Closed(f) \in Owners
  BY DEF Closed, Owners

\* What a write may do, in general and to a descriptor that is the connection.
LEMMA WriteTyped ==
  ASSUME KernelTyped, Alive, NEW w \in WriteOutcomes, CliWrite(w)
  PROVE  /\ KernelTyped' /\ died' # "assert" /\ w.ok \in BOOLEAN
         /\ owner' = owner \/ owner' = Closed(sock)
<1>1. Closed(sock) \in Owners
  BY ClosedTyped DEF KernelTyped
<1>2. Misuse(sock, "cli") \in SUBSET {"closed", "foreign"}
  BY DEF Misuse
<1>3. /\ w.ok \in BOOLEAN /\ w.owner \in {owner, Closed(sock)}
      /\ w.peer \in {"live", "fin", "rst"} /\ w.bad \in SUBSET {"closed", "foreign"}
      /\ w.died \in {"no", "sigpipe"}
  <2>1. CASE Misuse(sock, "cli") # {}
    <3>1. PICK o \in {owner, Closed(sock)} :
             w = [ok |-> o # Closed(sock), owner |-> o, peer |-> peer,
                  bad |-> Misuse(sock, "cli"), died |-> "no"]
      BY <2>1, Zenon DEF WriteOutcomes
    <3>2. w.ok = (o # Closed(sock))
      BY <3>1
    <3> QED
      BY <1>2, <3>1, <3>2 DEF KernelTyped
  <2>2. CASE Misuse(sock, "cli") = {} /\ peer = "live"
    <3>1. w = [ok |-> TRUE, owner |-> owner, peer |-> "live", bad |-> {}, died |-> "no"]
      BY <2>2, Zenon DEF WriteOutcomes
    <3> QED
      BY <3>1
  <2>3. CASE Misuse(sock, "cli") = {} /\ peer = "fin"
    <3>1. peer # "live"
      BY <2>3
    <3>2. PICK p \in {"fin", "rst"} :
             w = [ok |-> TRUE, owner |-> owner, peer |-> p, bad |-> {}, died |-> "no"]
      BY <2>3, <3>1, Zenon DEF WriteOutcomes
    <3> QED
      BY <3>2
  <2>4. CASE Misuse(sock, "cli") = {} /\ peer # "live" /\ peer # "fin"
    <3>1. w = [ok |-> FALSE, owner |-> Closed(sock), peer |-> "rst", bad |-> {},
               died |-> IF HasS THEN "sigpipe" ELSE "no"]
      BY <2>4, Zenon DEF WriteOutcomes
    <3> QED
      BY <3>1
  <2> QED
    BY <2>1, <2>2, <2>3, <2>4
<1> QED
  BY <1>1, <1>3 DEF CliWrite, KernelTyped

LEMMA WriteOwned ==
  ASSUME KernelTyped, Owned, NEW w \in WriteOutcomes, CliWrite(w)
  PROVE  /\ bad' = bad
         /\ IF w.ok THEN owner' = owner ELSE owner' = Closed(sock)
         /\ peer # "rst" => w.ok
<1>1. Misuse(sock, "cli") = {}
  BY DEF Misuse, Owned
<1>2. /\ w.bad = {}
      /\ IF w.ok THEN w.owner = owner ELSE w.owner = Closed(sock)
      /\ peer # "rst" => w.ok
  <2>1. CASE peer = "live"
    BY <1>1, <2>1 DEF WriteOutcomes
  <2>2. CASE peer = "fin"
    BY <1>1, <2>2 DEF WriteOutcomes
  <2>3. CASE peer = "rst"
    BY <1>1, <2>3 DEF WriteOutcomes
  <2> QED
    BY <2>1, <2>2, <2>3 DEF KernelTyped
<1> QED
  BY <1>2 DEF CliWrite

\* The two ends of a command that could not be served, and of one that was.
LEMMA ReplyTyped ==
  ASSUME AgentTyped, HistoryTyped, NEW st \in {Unset, CliOK, Comms, Closing}, Reply(st)
  PROVE  pc' = "idle" /\ ret' \in {Unset, CliOK, Comms, Closing} /\ fails' \in 0 .. MaxFails
  BY BoundsAssumption DEF Reply, HistoryTyped, AgentTyped

LEMMA NotConnectedTyped ==
  ASSUME AgentTyped, HistoryTyped, NotConnected
  PROVE  pc' = "idle" /\ ret' \in {Unset, CliOK, Comms, Closing} /\ fails' \in 0 .. MaxFails
  BY ReplyTyped DEF NotConnected, HistoryTyped, AgentTyped

LEMMA AssertCloseTyped ==
  ASSUME KernelTyped, NEW f, NEW what, AssertClose(f, what), UNCHANGED peer
  PROVE  /\ KernelTyped' /\ owner' = Closed(f) /\ bad' = bad \cup Misuse(f, what)
         /\ f \in Fds /\ owner[f] = what /\ what # "free" => UNCHANGED <<died, bad>>
<1>1. Misuse(f, what) \in SUBSET {"closed", "foreign"}
  BY DEF Misuse
<1>2. owner' \in Owners
  BY ClosedTyped DEF AssertClose, KernelTyped
<1>3. died' \in {"no", "sigpipe", "assert"} /\ bad' \in SUBSET {"closed", "foreign"}
  BY <1>1 DEF AssertClose, KernelTyped
<1>4. f \in Fds /\ owner[f] = what /\ what # "free" => Misuse(f, what) = {}
  BY DEF Misuse
<1> QED
  BY <1>2, <1>3, <1>4 DEF AssertClose, KernelTyped

LEMMA InitTyped == Init => TypeOK
<1> SUFFICES ASSUME Init PROVE TypeOK
  OBVIOUS
<1>1. AgentTyped
  BY FlagsAssumption, BoundsAssumption DEF Init, AgentTyped, Connecting
<1>2. KernelTyped
  BY DEF Init, KernelTyped, Owners
<1>3. HistoryTyped
  BY BoundsAssumption DEF Init, HistoryTyped
<1>4. WorldTyped
  <2>1. 0 \in 0 .. MaxRestarts
    BY BoundsAssumption
  <2>2. vd \in [up : BOOLEAN, starts : 0 .. MaxRestarts, auth : BOOLEAN,
                right : BOOLEAN, fresh : BOOLEAN]
    BY <2>1 DEF Init
  <2> QED
    BY <2>2 DEF Init, WorldTyped
<1> QED
  BY <1>1, <1>2, <1>3, <1>4, TypeParts

\* A descriptor that becomes another thing's.
LEMMA OwnersClosed ==
  ASSUME owner \in Owners, NEW f, NEW what \in {"free", "cli", "secret", "other"}
  PROVE  [owner EXCEPT ![f] = what] \in Owners
  BY DEF Owners

LEMMA CliSockTyped ==
  ASSUME TypeOK, Stages, CliSock
  PROVE  TypeOK'
<1>0. AgentTyped /\ KernelTyped /\ WorldTyped /\ HistoryTyped
  BY TypeParts
<1>a. NArgSock => targ' \in 0 .. MaxRestarts /\ sarg' \in BOOLEAN
  BY <1>0 DEF NArgSock, AgentTyped, WorldTyped
<1>b. NotConnected /\ UNCHANGED refused => HistoryTyped'
  BY <1>0, NotConnectedTyped DEF HistoryTyped
<1>1. CASE OpenFails
  <2>1. AgentTyped'
    BY <1>0, <1>1, <1>a, NotConnectedTyped DEF OpenFails, AgentTyped
  <2> QED
    BY <1>0, <1>1, <1>b, <2>1, TypeKept, TypeParts DEF OpenFails
<1>2. CASE Open
  <2>1. AgentTyped'
    BY <1>0, <1>2, <1>a DEF Open, AgentTyped, Connecting
  <2>2. KernelTyped'
    BY <1>0, <1>2, OwnersClosed DEF Open, KernelTyped
  <2> QED
    BY <1>0, <1>2, <2>1, <2>2, TypeKept, TypeParts DEF Open
<1>3. CASE Banner
  <2>1. AgentTyped' /\ HistoryTyped'
    BY <1>0, <1>3, NotConnectedTyped DEF Banner, AgentTyped, HistoryTyped, Connecting
  <2>2. KernelTyped'
    BY <1>0, <1>3, AssertCloseTyped DEF Banner, KernelTyped
  <2> QED
    BY <1>0, <1>3, <2>1, <2>2, TypeKept, TypeParts DEF Banner
<1>4. CASE Secret
  <2>1. AgentTyped' /\ HistoryTyped'
    BY <1>0, <1>4, NotConnectedTyped DEF Secret, AgentTyped, HistoryTyped, Connecting
  <2>2. KernelTyped'
    BY <1>0, <1>4, AssertCloseTyped, OwnersClosed DEF Secret, KernelTyped
  <2>3. WorldTyped'
    BY <1>0, <1>4 DEF Secret, WorldTyped
  <2> QED
    BY <2>1, <2>2, <2>3, TypeParts
<1>5. CASE AuthWrites
  <2>1. PICK to \in {"auth2", "auth3", "authread"} :
           /\ pc' = to /\ \E w \in WriteOutcomes : Alive /\ CliWrite(w)
           /\ UNCHANGED <<state, sock, sfd, targ, sarg, cmd, ret, world, history>>
    BY <1>5 DEF AuthWrites, Auth
  <2>2. AgentTyped'
    BY <1>0, <2>1 DEF AgentTyped, Connecting
  <2> QED
    BY <1>0, <2>1, <2>2, WriteTyped, TypeKept, TypeParts
<1>6. CASE AuthRead
  <2>1. AgentTyped'
    BY <1>0, <1>6, NotConnectedTyped DEF AuthRead, AgentTyped, Connecting
  <2>2. refused' \in 0 .. MaxRefused
    BY <1>0, <1>6, BoundsAssumption DEF AuthRead, HistoryTyped, Stages, Connecting
  <2>3. fails' \in 0 .. MaxFails
    BY <1>0, <1>6, NotConnectedTyped DEF AuthRead, HistoryTyped
  <2>4. Misuse(sock, "cli") \in SUBSET {"closed", "foreign"}
        /\ Misuse(sfd, "secret") \in SUBSET {"closed", "foreign"}
    BY DEF Misuse
  <2>5. KernelTyped'
    BY <1>0, <1>6, <2>4, ClosedTyped DEF AuthRead, KernelTyped
  <2> QED
    BY <1>0, <1>6, <2>1, <2>2, <2>3, <2>5, TypeKept, TypeParts DEF AuthRead, HistoryTyped
<1>7. CASE Ping
  <2>1. AgentTyped'
    BY <1>0, <1>7 DEF Ping, AgentTyped, Connecting
  <2> QED
    BY <1>0, <1>7, <2>1, WriteTyped, TypeKept, TypeParts DEF Ping
<1>8. CASE Pong
  <2>1. AgentTyped' /\ HistoryTyped'
    BY <1>0, <1>8, NotConnectedTyped DEF Pong, AgentTyped, HistoryTyped, Running
  <2>2. KernelTyped'
    BY <1>0, <1>8, AssertCloseTyped DEF Pong, KernelTyped
  <2> QED
    BY <1>0, <1>8, <2>1, <2>2, TypeKept, TypeParts DEF Pong
<1> QED
  BY <1>1, <1>2, <1>3, <1>4, <1>5, <1>6, <1>7, <1>8 DEF CliSock

LEMMA VadminRunTyped ==
  ASSUME TypeOK, VadminRun \/ ReadCmd
  PROVE  TypeOK'
<1>0. AgentTyped /\ KernelTyped /\ WorldTyped /\ HistoryTyped
  BY TypeParts
<1>1. CASE ReadCmd
  <2>1. AgentTyped'
    BY <1>0, <1>1 DEF ReadCmd, AgentTyped, Connecting, Running
  <2> QED
    BY <1>0, <1>1, <2>1, TypeKept, TypeParts DEF ReadCmd
<1>2. CASE RunBlank
  <2>1. AgentTyped' /\ HistoryTyped'
    BY <1>0, <1>2, ReplyTyped DEF RunBlank, AgentTyped, HistoryTyped
  <2> QED
    BY <1>0, <1>2, <2>1, TypeKept, TypeParts DEF RunBlank
<1>3. CASE RunWrites
  <2>1. PICK to \in {"run2", "result"} : Run("run1", to) \/ Run("run2", to)
    BY <1>3 DEF RunWrites
  <2>2. AgentTyped' /\ HistoryTyped'
    BY <1>0, <2>1, ReplyTyped DEF Run, AgentTyped, HistoryTyped, Running
  <2> QED
    BY <1>0, <2>1, <2>2, WriteTyped, TypeKept, TypeParts DEF Run
<1>4. CASE Result
  <2>1. AgentTyped' /\ HistoryTyped'
    BY <1>0, <1>4, ReplyTyped DEF Result, AgentTyped, HistoryTyped
  <2>2. Misuse(sock, "cli") \in SUBSET {"closed", "foreign"}
    BY DEF Misuse
  <2>3. KernelTyped'
    BY <1>0, <1>4, <2>2 DEF Result, KernelTyped
  <2> QED
    BY <1>0, <1>4, <2>1, <2>3, TypeKept, TypeParts DEF Result
<1> QED
  BY <1>1, <1>2, <1>3, <1>4 DEF VadminRun

LEMMA EnvironmentTyped ==
  ASSUME TypeOK, Environment
  PROVE  TypeOK'
<1>0. AgentTyped /\ KernelTyped /\ WorldTyped /\ HistoryTyped
  BY TypeParts
<1>1. CASE VarnishdStops
  <2>1. KernelTyped'
    BY <1>0, <1>1 DEF VarnishdStops, KernelTyped
  <2>2. WorldTyped'
    BY <1>0, <1>1 DEF VarnishdStops, WorldTyped
  <2> QED
    BY <1>0, <1>1, <2>1, <2>2, TypeKept, TypeParts DEF VarnishdStops
<1>2. CASE VarnishdStarts
  <2>1. WorldTyped'
    BY <1>0, <1>2, FlagsAssumption, BoundsAssumption DEF VarnishdStarts, WorldTyped
  <2>2. HistoryTyped'
    BY <1>0, <1>2, BoundsAssumption DEF VarnishdStarts, HistoryTyped
  <2> QED
    BY <1>0, <1>2, <2>1, <2>2, TypeKept, TypeParts DEF VarnishdStarts
<1>3. CASE ShmRemoved
  <2>1. WorldTyped'
    BY <1>0, <1>3 DEF ShmRemoved, WorldTyped
  <2> QED
    BY <1>0, <1>3, <2>1, TypeKept, TypeParts DEF ShmRemoved
<1>4. CASE OtherOpens \/ OtherCloses
  <2>1. KernelTyped'
    BY <1>0, <1>4, OwnersClosed DEF OtherOpens, OtherCloses, KernelTyped
  <2> QED
    BY <1>0, <1>4, <2>1, TypeKept, TypeParts DEF OtherOpens, OtherCloses
<1> QED
  BY <1>1, <1>2, <1>3, <1>4 DEF Environment

-----------------------------------------------------------------------------
(* The connection's and the secret file's descriptors.                     *)

\* What close(f) leaves.
LEMMA ClosedOwner ==
  ASSUME owner \in Owners, NEW f
  PROVE  \A g \in Fds : Closed(f)[g] = IF g = f THEN "free" ELSE owner[g]
  BY DEF Closed, Owners

\* read_cmd has no connection: the descriptor was closed, forgotten or never
\* opened, and state says so.
LEMMA GivenUp ==
  ASSUME Alive, AliveInv, pc' = "idle", state' = 0,
         sock' \in Fds => owner'[sock'] # "cli",
         sfd' # 0 => owner'[sfd'] = "secret"
  PROVE  AliveInv'
  BY DEF AliveInv, Stages, OwnedWhere, StaleWhere, SecretOwned, Connecting, Running,
         Authenticating

LEMMA NotConnectedIdle == NotConnected => pc' = "idle"
  BY DEF NotConnected, Reply

LEMMA OpenAlive ==
  ASSUME TypeOK, Alive, AliveInv, OpenFails \/ Open
  PROVE  AliveInv' /\ died' = died
<1>0. KernelTyped /\ AgentTyped /\ state = 0
  BY TypeParts DEF OpenFails, Open, AliveInv, Stages, Connecting
<1>1. CASE OpenFails
  <2>1. pc' = "idle" /\ state' = 0 /\ UNCHANGED <<owner, died, sfd>> /\ sock' \in {sock, 0}
    BY <1>0, <1>1, NotConnectedIdle DEF OpenFails, kernel
  <2>2. sock' \in Fds => owner'[sock'] # "cli"
    BY <1>0, <1>1, <2>1, FdsPositive DEF OpenFails, AliveInv, StaleWhere
  <2>3. sfd' # 0 => owner'[sfd'] = "secret"
    BY <2>1 DEF AliveInv, SecretOwned
  <2> QED
    BY <2>1, <2>2, <2>3, GivenUp
<1>2. CASE Open
  <2>1. PICK f \in Fds : /\ LowestFree(f) /\ sock' = f /\ owner' = [owner EXCEPT ![f] = "cli"]
    BY <1>2 DEF Open
  <2>2. owner'[f] = "cli" /\ owner[f] = "free"
    BY <1>0, <2>1 DEF KernelTyped, Owners, LowestFree, Free
  <2>3. sfd # 0 => sfd # f /\ owner'[sfd] = "secret"
    BY <1>0, <2>1, <2>2 DEF KernelTyped, AgentTyped, Owners, AliveInv, SecretOwned
  <2>4. pc' = "banner" /\ state' = 0 /\ UNCHANGED <<refused, sfd, died>> /\ pc = "open"
    BY <1>0, <1>2 DEF Open, history
  <2>5. Stages'
    BY <2>4 DEF AliveInv, Stages, Connecting, Running
  <2>6. OwnedWhere' /\ StaleWhere'
    BY <2>1, <2>2, <2>4 DEF OwnedWhere, StaleWhere, Owned
  <2>7. SecretOwned'
    BY <2>3, <2>4 DEF SecretOwned, Authenticating
  <2> QED
    BY <2>4, <2>5, <2>6, <2>7 DEF AliveInv
<1> QED
  BY <1>1, <1>2

\* The connection is closed because of a banner or a pong that did not come.
LEMMA ClosedAlive ==
  ASSUME TypeOK, Alive, AliveInv, Owned, state = 0, UNCHANGED <<state, sfd, peer>>,
         AssertClose(sock, "cli"), sock' = 0, NotConnected
  PROVE  AliveInv' /\ died' = died /\ bad' = bad
<1>0. KernelTyped /\ AgentTyped
  BY TypeParts
<1>1. owner' = Closed(sock) /\ died' = died /\ bad' = bad
  BY <1>0, AssertCloseTyped DEF Owned
<1>2. sfd # 0 => owner'[sfd] = "secret"
  BY <1>0, <1>1, ClosedOwner DEF KernelTyped, AgentTyped, AliveInv, SecretOwned, Owned
<1> QED
  BY <1>1, <1>2, GivenUp, NotConnectedIdle, FdsPositive

LEMMA BannerAlive ==
  ASSUME TypeOK, Alive, AliveInv, Banner
  PROVE  AliveInv' /\ died' = died
<1>0. Owned /\ state = 0 /\ pc = "banner"
  BY DEF Banner, AliveInv, OwnedWhere, Stages, Connecting
<1>1. CASE Answered /\ pc' \in {"secret", "ping"} /\ UNCHANGED <<sock, owner, died, peer, state, sfd, refused>>
  BY <1>0, <1>1 DEF Answered, AliveInv, Stages, OwnedWhere, StaleWhere, SecretOwned, Owned,
     Connecting, Running, Authenticating
<1>2. CASE AssertClose(sock, "cli") /\ sock' = 0 /\ NotConnected
  BY <1>0, <1>2, ClosedAlive DEF Banner
<1> QED
  BY <1>1, <1>2 DEF Banner

LEMMA SecretAlive ==
  ASSUME TypeOK, Alive, AliveInv, Secret
  PROVE  AliveInv' /\ died' = died
<1>0. Owned /\ state = 0 /\ pc = "secret" /\ KernelTyped /\ AgentTyped
  BY TypeParts DEF Secret, AliveInv, OwnedWhere, Stages, Connecting
<1>1. CASE sfd # 0 /\ pc' = "auth1" /\ UNCHANGED <<sock, sfd, owner, died, state, refused>>
  BY <1>0, <1>1 DEF AliveInv, Stages, OwnedWhere, StaleWhere, SecretOwned, Owned,
     Connecting, Running, Authenticating
<1>2. ASSUME NEW f \in Fds, LowestFree(f), sfd' = f, owner' = [owner EXCEPT ![f] = "secret"],
             pc' = "auth1", UNCHANGED <<sock, died, state, refused>>
      PROVE  AliveInv'
  <2>1. f # sock /\ owner'[f] = "secret" /\ owner'[sock] = "cli" /\ f # 0
    BY <1>0, <1>2, FdsPositive DEF LowestFree, Free, Owned, KernelTyped, Owners
  <2> QED
    BY <1>0, <1>2, <2>1 DEF AliveInv, Stages, OwnedWhere, StaleWhere, SecretOwned, Owned,
       Connecting, Running, Authenticating
<1>3. CASE AssertClose(sock, "cli") /\ sock' = 0 /\ NotConnected /\ UNCHANGED sfd
  BY <1>0, <1>3, ClosedAlive DEF Secret
<1> QED
  BY <1>1, <1>2, <1>3 DEF Secret

\* The writes may close sock, and with it another thread's file, but never
\* the secret file, whose number is not sock's.
LEMMA AuthWritesAlive ==
  ASSUME TypeOK, Alive, AliveInv, AuthWrites
  PROVE  AliveInv' /\ died' # "assert"
<1>0. KernelTyped /\ AgentTyped /\ pc \in Authenticating /\ state = 0
  BY TypeParts DEF AuthWrites, Auth, Authenticating, AliveInv, Stages, Connecting
<1>1. /\ pc' \in {"auth2", "auth3", "authread"} /\ \E w \in WriteOutcomes : CliWrite(w)
      /\ UNCHANGED <<state, sock, sfd, refused>>
  BY DEF AuthWrites, Auth, history
<1>2. (owner' = owner \/ owner' = Closed(sock)) /\ died' # "assert"
  BY <1>0, <1>1, WriteTyped
<1>3. sock \in Fds /\ sfd # 0 /\ sock # sfd /\ owner[sfd] = "secret"
  BY <1>0 DEF AliveInv, SecretOwned
<1>4. owner'[sfd] = "secret"
  BY <1>0, <1>2, <1>3, ClosedOwner DEF KernelTyped, AgentTyped
<1>5. SecretOwned'
  BY <1>1, <1>3, <1>4 DEF SecretOwned
<1>6. Stages' /\ OwnedWhere' /\ StaleWhere'
  BY <1>0, <1>1 DEF AliveInv, Stages, OwnedWhere, StaleWhere, Connecting, Running, Authenticating
<1> QED
  BY <1>2, <1>5, <1>6 DEF AliveInv

LEMMA AuthReadAlive ==
  ASSUME TypeOK, Alive, AliveInv, AuthRead
  PROVE  AliveInv' /\ died' # "assert"
<1>0. /\ KernelTyped /\ AgentTyped /\ state = 0 /\ pc \in Authenticating /\ died = "no"
      /\ sock \in Fds /\ sfd # 0 /\ owner[sfd] = "secret"
  BY TypeParts DEF AuthRead, Authenticating, AliveInv, Stages, SecretOwned, Connecting, Alive
<1>1. CASE Answered /\ pc' = "ping" /\ UNCHANGED <<sock, sfd, owner, died, refused, state, peer>>
  <2>1. Owned /\ peer # "rst"
    BY <1>1 DEF Answered, Misuse, Owned
  <2> QED
    BY <1>0, <1>1, <2>1 DEF AliveInv, Stages, OwnedWhere, StaleWhere, SecretOwned, Owned,
       Connecting, Running, Authenticating
<1>2. CASE /\ owner' = Closed(sfd) /\ sock' = 0 /\ sfd' = 0 /\ NotConnected /\ state' = 0
           /\ died' = IF Misuse(sfd, "secret") = {"closed"} THEN "assert" ELSE died
  <2>1. sfd \in Fds
    BY <1>0 DEF AgentTyped
  <2>2. Misuse(sfd, "secret") = {}
    BY <1>0, <2>1 DEF Misuse
  <2> QED
    BY <1>0, <1>2, <2>2, GivenUp, NotConnectedIdle, FdsPositive
<1> QED
  BY <1>0, <1>1, <1>2 DEF AuthRead

LEMMA PingPongAlive ==
  ASSUME TypeOK, Alive, AliveInv, Ping \/ Pong
  PROVE  AliveInv' /\ died' # "assert"
<1>0. KernelTyped /\ AgentTyped /\ state = 0 /\ Owned /\ died = "no"
  BY TypeParts DEF Ping, Pong, AliveInv, Stages, OwnedWhere, Connecting, Alive
<1>1. CASE Ping
  <2>1. /\ pc = "ping" /\ pc' = "pong" /\ \E w \in WriteOutcomes : CliWrite(w)
        /\ UNCHANGED <<state, sock, sfd, refused>>
    BY <1>1 DEF Ping, history
  <2>2. peer # "rst"
    BY <2>1 DEF AliveInv, OwnedWhere
  <2>3. owner' = owner /\ died' # "assert"
    BY <1>0, <2>1, <2>2, WriteOwned, WriteTyped
  <2> QED
    BY <1>0, <2>1, <2>3 DEF AliveInv, Stages, OwnedWhere, StaleWhere, SecretOwned, Owned,
       Connecting, Running, Authenticating
<1>2. CASE Pong /\ state' = 1 /\ pc' \in {"idle", "run1"} /\ UNCHANGED <<sock, owner, died, sfd>>
  BY <1>0, <1>2 DEF AliveInv, Stages, OwnedWhere, StaleWhere, SecretOwned, Owned,
     Connecting, Running, Authenticating
<1>3. CASE /\ AssertClose(sock, "cli") /\ sock' = 0 /\ NotConnected
           /\ UNCHANGED <<state, sfd, peer>>
  BY <1>0, <1>3, ClosedAlive
<1> QED
  BY <1>1, <1>2, <1>3 DEF Pong

LEMMA VadminRunAlive ==
  ASSUME TypeOK, Alive, AliveInv, VadminRun \/ ReadCmd
  PROVE  AliveInv' /\ died' # "assert"
<1>0. KernelTyped /\ AgentTyped /\ died = "no"
  BY TypeParts DEF Alive
<1>1. CASE ReadCmd
  BY <1>0, <1>1 DEF ReadCmd, AgentTyped, kernel, world, history, AliveInv, Stages, OwnedWhere,
     StaleWhere, SecretOwned, Owned, Connecting, Running, Authenticating
<1>2. CASE VadminRun /\ pc' \in {"idle", "run2", "result"} /\ UNCHANGED <<state, sock, sfd, owner, died>>
  BY <1>0, <1>2 DEF VadminRun, RunBlank, RunWrites, Run, Result, AliveInv, Stages, OwnedWhere,
     StaleWhere, SecretOwned, Owned, Connecting, Running, Authenticating
<1>3. CASE RunBlank
  BY <1>2, <1>3 DEF RunBlank, Reply, kernel, VadminRun
<1>4. CASE Result
  BY <1>2, <1>4 DEF Result, Reply, VadminRun
<1>5. CASE RunWrites
  <2>1. /\ pc \in Running /\ UNCHANGED <<sock, sfd>>
        /\ \E w \in WriteOutcomes : /\ CliWrite(w)
                                   /\ \/ w.ok /\ pc' \in {"run2", "result"} /\ UNCHANGED state
                                      \/ ~w.ok /\ state' = 0 /\ pc' = "idle"
    BY <1>5 DEF RunWrites, Run, Running, Reply
  <2>2. PICK w \in WriteOutcomes : /\ CliWrite(w)
                                   /\ \/ w.ok /\ pc' \in {"run2", "result"} /\ UNCHANGED state
                                      \/ ~w.ok /\ state' = 0 /\ pc' = "idle"
    BY <2>1
  <2>3. Owned
    BY <2>1 DEF AliveInv, Stages, OwnedWhere
  <2>4. died' # "assert" /\ IF w.ok THEN owner' = owner ELSE owner' = Closed(sock)
    BY <1>0, <2>2, <2>3, WriteOwned, WriteTyped
  <2>5. CASE w.ok
    <3>1. pc' \in {"run2", "result"} /\ UNCHANGED <<state, sock, sfd, owner>>
      BY <2>1, <2>2, <2>4, <2>5
    <3> QED
      BY <2>1, <2>3, <2>4, <3>1 DEF AliveInv, Stages, OwnedWhere, StaleWhere, SecretOwned, Owned,
         Connecting, Running, Authenticating
  <2>6. CASE ~w.ok
    <3>1. pc' = "idle" /\ state' = 0 /\ owner' = Closed(sock)
      BY <2>2, <2>4, <2>6
    <3>2. owner'[sock] # "cli" /\ (sfd # 0 => owner'[sfd] = "secret")
      BY <1>0, <2>3, <3>1, ClosedOwner
         DEF KernelTyped, AgentTyped, AliveInv, SecretOwned, Owned
    <3> QED
      BY <2>1, <2>4, <3>1, <3>2, GivenUp
  <2> QED
    BY <2>5, <2>6
<1> QED
  BY <1>1, <1>3, <1>4, <1>5 DEF VadminRun

\* Descriptors are numbers of their own: another thread cannot touch those
\* that are in use.
LEMMA EnvironmentAlive ==
  ASSUME TypeOK, Alive, AliveInv, Environment
  PROVE  AliveInv' /\ died' = died
<1>0. KernelTyped /\ AgentTyped
  BY TypeParts
<1>1. UNCHANGED <<state, sock, sfd, pc, refused, died>>
  BY DEF Environment, VarnishdStops, VarnishdStarts, ShmRemoved, OtherOpens, OtherCloses,
         agent, kernel, history
<1>2. pc = "ping" /\ peer # "rst" => peer' # "rst"
  BY DEF Environment, VarnishdStops, VarnishdStarts, ShmRemoved, OtherOpens, OtherCloses, kernel
<1>3. \A g \in Fds : owner'[g] = owner[g] \/ (owner[g] \in {"free", "other"} /\ owner'[g] \in {"free", "other"})
  BY <1>0 DEF Environment, VarnishdStops, VarnishdStarts, ShmRemoved, OtherOpens, OtherCloses,
     kernel, LowestFree, Free, KernelTyped, Owners
<1> QED
  BY <1>0, <1>1, <1>2, <1>3 DEF AgentTyped, AliveInv, Stages, OwnedWhere, StaleWhere, SecretOwned,
     Owned

-----------------------------------------------------------------------------
(* Leaks.                                                                  *)

LEMMA LeakedFinite == IsFiniteSet(Leaked)
  BY FdsPositive, FS_Subset DEF Leaked

\* Only a refused authentication leaves a connection behind.
LEMMA LeakSteps ==
  ASSUME TypeOK, Alive => AliveInv, [Next]_vars
  PROVE  \/ Leaked' \subseteq Leaked /\ refused' = refused
         \/ Leaked' \subseteq Leaked \cup {sock} /\ refused' = refused + 1
<1>0. KernelTyped /\ AgentTyped
  BY TypeParts
<1>1. CASE UNCHANGED <<owner, sock, refused>>
  BY <1>1 DEF Leaked
<1>2. CASE OpenFails
  <2>1. UNCHANGED <<owner, refused>> /\ sock' \in {sock, 0}
    BY <1>2 DEF OpenFails, kernel
  <2>2. sock \in Fds => owner[sock] # "cli"
    BY <1>2 DEF OpenFails, AliveInv, StaleWhere, Stages, Connecting
  <2> QED
    BY <2>1, <2>2 DEF Leaked
<1>3. CASE Open
  <2>1. PICK f \in Fds : sock' = f /\ owner' = [owner EXCEPT ![f] = "cli"]
    BY <1>3 DEF Open
  <2>2. sock \in Fds => owner[sock] # "cli"
    BY <1>3 DEF Open, AliveInv, StaleWhere, Stages, Connecting
  <2>3. \A g \in Fds : g # f => owner'[g] = owner[g]
    BY <1>0, <2>1 DEF KernelTyped, Owners
  <2> QED
    BY <1>3, <2>1, <2>2, <2>3 DEF Leaked, Open, history
<1>4. ASSUME owner' = Closed(sock), UNCHANGED refused
      PROVE  Leaked' \subseteq Leaked
  BY <1>0, <1>4, ClosedOwner DEF Leaked, KernelTyped
<1>5. CASE Banner \/ Pong
  BY <1>1, <1>4, <1>5 DEF Banner, Pong, AssertClose
<1>6. CASE Secret
  <2>1. CASE \E f \in Fds : owner' = [owner EXCEPT ![f] = "secret"] /\ UNCHANGED sock
    BY <1>0, <1>6, <2>1 DEF Secret, Leaked, KernelTyped, Owners
  <2> QED
    BY <1>1, <1>4, <1>6, <2>1 DEF Secret, AssertClose
<1>7. CASE AuthWrites \/ Ping \/ RunWrites
  <2>1. UNCHANGED <<refused, sock>> /\ Alive /\ \E w \in WriteOutcomes : CliWrite(w)
    BY <1>7 DEF AuthWrites, Auth, Ping, RunWrites, Run, history
  <2>2. owner' = owner \/ owner' = Closed(sock)
    BY <1>0, <2>1, WriteTyped
  <2> QED
    BY <1>1, <1>4, <2>1, <2>2
<1>8. CASE AuthRead
  <2>1. CASE refused' = refused + 1 /\ owner' = Closed(sfd)
    BY <1>0, <2>1, ClosedOwner DEF Leaked, KernelTyped
  <2> QED
    BY <1>1, <1>8, <2>1 DEF AuthRead
<1>9. CASE ReadCmd \/ RunBlank \/ Result
  BY <1>1, <1>9 DEF ReadCmd, RunBlank, Result, kernel, history
<1>10. CASE VarnishdStops \/ VarnishdStarts \/ ShmRemoved
  BY <1>1, <1>10 DEF VarnishdStops, VarnishdStarts, ShmRemoved, agent, kernel, history
<1>11. CASE OtherOpens \/ OtherCloses
  BY <1>0, <1>11 DEF OtherOpens, OtherCloses, agent, history, Leaked, KernelTyped, Owners
<1>12. CASE UNCHANGED vars
  BY <1>1, <1>12 DEF vars, agent, kernel, history
<1> QED
  BY <1>2, <1>3, <1>5, <1>6, <1>7, <1>8, <1>9, <1>10, <1>11, <1>12
     DEF Next, Agent, Environment, CliSock, VadminRun

LEMMA LeaksNext ==
  ASSUME VadminInv, [Next]_vars
  PROVE  LeaksAreRefusals'
<1>0. TypeOK /\ (Alive => AliveInv) /\ Cardinality(Leaked) <= refused /\ refused \in Nat
  BY TypeParts, BoundsAssumption DEF VadminInv, LeaksAreRefusals, Leaked, HistoryTyped
<1>1. IsFiniteSet(Leaked) /\ Cardinality(Leaked) \in Nat
  BY LeakedFinite, FS_CardinalityType
<1>2. CASE Leaked' \subseteq Leaked /\ refused' = refused
  <2>1. IsFiniteSet(Leaked') /\ Cardinality(Leaked') <= Cardinality(Leaked)
    BY <1>1, <1>2, FS_Subset
  <2>2. Cardinality(Leaked') \in Nat
    BY <2>1, FS_CardinalityType
  <2> QED
    BY <1>0, <1>1, <1>2, <2>1, <2>2 DEF LeaksAreRefusals, Leaked
<1>3. CASE Leaked' \subseteq Leaked \cup {sock} /\ refused' = refused + 1
  <2>1. /\ IsFiniteSet(Leaked \cup {sock}) /\ Cardinality(Leaked \cup {sock}) \in Nat
        /\ Cardinality(Leaked \cup {sock}) <= Cardinality(Leaked) + 1
    BY <1>1, FS_AddElement, FS_CardinalityType
  <2>2. IsFiniteSet(Leaked') /\ Cardinality(Leaked') <= Cardinality(Leaked \cup {sock})
    BY <1>3, <2>1, FS_Subset
  <2>3. Cardinality(Leaked') \in Nat
    BY <2>2, FS_CardinalityType
  <2> QED
    BY <1>0, <1>1, <1>3, <2>1, <2>2, <2>3 DEF LeaksAreRefusals, Leaked
<1> QED
  BY <1>0, <1>2, <1>3, LeakSteps

-----------------------------------------------------------------------------
(* What follows.                                                           *)

LEMMA VadminInit == Init => VadminInv
<1> SUFFICES ASSUME Init PROVE VadminInv
  OBVIOUS
<1>1. TypeOK
  BY InitTyped
<1>2. AliveInv
  BY FdsPositive, BoundsAssumption DEF Init, AliveInv, Stages, OwnedWhere, StaleWhere, SecretOwned,
     Connecting, Running, Authenticating
<1>3. Leaked = {}
  BY DEF Init, Leaked
<1>4. LeaksAreRefusals
  BY <1>3, FS_EmptySet DEF Init, LeaksAreRefusals, Leaked
<1> QED
  BY <1>1, <1>2, <1>4 DEF Init, VadminInv

LEMMA VadminNext ==
  ASSUME VadminInv, [Next]_vars
  PROVE  VadminInv'
<1>0. TypeOK /\ (Alive => AliveInv) /\ died # "assert"
  BY DEF VadminInv
<1>1. LeaksAreRefusals'
  BY LeaksNext
<1>2. CASE UNCHANGED vars
  <2>1. TypeOK' /\ died' = died
    BY <1>0, <1>2, TypeKept, TypeParts DEF vars, kernel
  <2>2. Alive' => AliveInv'
    BY <1>0, <1>2 DEF vars, agent, kernel, history, Alive, AliveInv, Stages, OwnedWhere,
       StaleWhere, SecretOwned, Owned
  <2> QED
    BY <1>0, <1>1, <2>1, <2>2 DEF VadminInv
<1>3. CASE Agent
  <2>1. Alive
    BY <1>3 DEF Agent, ReadCmd, CliSock, OpenFails, Open, Banner, Secret, AuthWrites, Auth,
       AuthRead, Ping, Pong, VadminRun, RunBlank, RunWrites, Run, Result
  <2>2. TypeOK'
    BY <1>0, <1>3, <2>1, CliSockTyped, VadminRunTyped DEF Agent, AliveInv
  <2>3. AliveInv' /\ died' # "assert"
    BY <1>0, <1>3, <2>1, OpenAlive, BannerAlive, SecretAlive, AuthWritesAlive, AuthReadAlive,
       PingPongAlive, VadminRunAlive DEF Agent, CliSock
  <2> QED
    BY <1>1, <2>2, <2>3 DEF VadminInv
<1>4. CASE Environment
  <2>1. died' = died
    BY <1>4 DEF Environment, VarnishdStops, VarnishdStarts, ShmRemoved, OtherOpens,
       OtherCloses, kernel
  <2> QED
    BY <1>0, <1>1, <1>4, <2>1, EnvironmentTyped, EnvironmentAlive DEF VadminInv, Alive
<1> QED
  BY <1>2, <1>3, <1>4 DEF Next

\* The inductive invariant: whose descriptor sock is while vadmin is not
\* connected decides whether it is its own when it is.
THEOREM VadminInvariant == Spec => []VadminInv
  BY VadminInit, VadminNext, PTL DEF Spec

\* Type correctness of vadmin's state.
THEOREM TypeCorrect == Spec => []TypeOK
  BY VadminInvariant, PTL DEF VadminInv

\* A vadmin that believes itself connected writes commands to its own
\* connection, never to a number that was closed or reused.
THEOREM ConnectedStaysOwned == Spec => []ConnectedMeansOwned
<1>1. VadminInv => ConnectedMeansOwned
  BY DEF VadminInv, AliveInv, OwnedWhere, Owned, ConnectedMeansOwned
<1> QED
  BY <1>1, VadminInvariant, PTL

\* The asserts around close() in cli_sock hold wherever varnishd dies.
THEOREM AssertsHold == Spec => []NoAbort
<1>1. VadminInv => NoAbort
  BY DEF VadminInv, NoAbort
<1> QED
  BY <1>1, VadminInvariant, PTL

\* A connection that is open without vadmin knowing it is one whose
\* authentication was refused, and there is no other.
THEOREM LeaksStayRefusals == Spec => []LeaksAreRefusals
  BY VadminInvariant, PTL DEF VadminInv

\* Only the authentication goes on with a descriptor after closing it.
THEOREM MisuseStaysInAuth == Spec => MisuseOnlyInAuth
<1>1. VadminInv /\ [Next]_vars => [bad' # bad => pc \in {"auth2", "auth3", "authread"}]_vars
  <2> SUFFICES ASSUME VadminInv, Next, pc \notin {"auth2", "auth3", "authread"}
               PROVE  bad' = bad
    OBVIOUS
  <2>0. TypeOK /\ KernelTyped /\ (Alive => AliveInv)
    BY TypeParts DEF VadminInv
  <2>1. CASE Environment \/ ReadCmd \/ OpenFails \/ Open \/ RunBlank
    BY <2>1 DEF Environment, VarnishdStops, VarnishdStarts, ShmRemoved, OtherOpens, OtherCloses,
       ReadCmd, OpenFails, Open, RunBlank, kernel
  <2>2. CASE Banner \/ Pong \/ Secret
    <3>1. Owned
      BY <2>0, <2>2 DEF Banner, Pong, Secret, AliveInv, OwnedWhere
    <3>2. Misuse(sock, "cli") = {}
      BY <3>1 DEF Owned, Misuse
    <3> QED
      BY <2>2, <3>2 DEF Banner, Pong, Secret, AssertClose
  <2>3. CASE AuthWrites \/ Ping \/ RunWrites
    <3>1. \E w \in WriteOutcomes : CliWrite(w)
      BY <2>3 DEF AuthWrites, Auth, Ping, RunWrites, Run
    <3>2. Alive /\ pc \in {"auth1", "ping"} \cup Running
      BY <2>3 DEF AuthWrites, Auth, Ping, RunWrites, Run, Running
    <3>3. Owned
      BY <2>0, <3>2 DEF AliveInv, OwnedWhere, Stages
    <3> QED
      BY <2>0, <3>1, <3>3, WriteOwned
  <2>4. CASE Result
    <3>1. Owned
      BY <2>0, <2>4 DEF Result, AliveInv, OwnedWhere, Stages, Running
    <3> QED
      BY <2>4, <3>1 DEF Result, Owned, Misuse
  <2>5. ~AuthRead
    BY DEF AuthRead
  <2> QED
    BY <2>1, <2>2, <2>3, <2>4, <2>5 DEF Next, Agent, CliSock, VadminRun
<1> QED
  BY <1>1, VadminInvariant, PTL DEF Spec, MisuseOnlyInAuth

-----------------------------------------------------------------------------
(* Recovery: how many commands in a row may still fail.                     *)

\* An open secret file that is not the one varnishd wrote costs a command.
Stale == IF vd.auth /\ sfd # 0 /\ ~vd.fresh THEN 1 ELSE 0

\* Commands answered 400 from here on, this one included, if varnishd stays:
\* two to find that an earlier connection was closed, one if it was reset or
\* goes away under cli_sock, and one with a stale secret.
FailsLeft ==
    IF pc \in {"idle", "run1", "run2"} /\ state = 1
    THEN IF peer = "live" THEN 0 ELSE IF peer = "rst" THEN 1 + Stale ELSE 2 + Stale
    ELSE IF pc = "result" THEN IF peer = "live" THEN 0 ELSE 2 + Stale
    ELSE IF pc \in {"idle", "open"} \/ peer = "live" THEN Stale
    ELSE IF pc \in Authenticating THEN 1 ELSE 1 + Stale

\* A connection that lives is one to the varnishd that runs, from its banner on.
LiveWhere ==
    /\ peer = "live" => vd.up
    /\ peer = "live" /\ pc \in Connecting \ {"open"} => Owned /\ (shm => sarg)
    /\ peer = "live" /\ pc \in {"secret"} \cup Authenticating => vd.auth

\* The secret file is open once at most, and so is the other threads' file.
FilesWhere ==
    /\ \A f \in Fds : owner[f] = "secret" => f = sfd
    /\ \A f, g \in Fds : owner[f] = "other" /\ owner[g] = "other" => f = g

RecoveryInv ==
    /\ LiveWhere /\ FilesWhere /\ vd.right
    /\ fails <= 3
    /\ vd.up /\ shm => fails + FailsLeft <= 3

\* What is asked of the options: the secret is the one of the varnishd that
\* runs, the agent may read it, varnishd answers, and the refusals counted do
\* not use up the descriptors.
Recoverable ==
    /\ ~Hangs /\ ~Unprivileged /\ SecretRight \subseteq {TRUE}
    /\ Cardinality(Fds) > MaxRefused + 1

LEMMA FailsLeftTyped == ASSUME TypeOK PROVE Stale \in {0, 1} /\ FailsLeft \in 0 .. 3 /\ fails \in Nat
  BY BoundsAssumption DEF Stale, FailsLeft, TypeOK

\* A failing command is counted once, if varnishd is there.
LEMMA Counted ==
  ASSUME TypeOK, NotConnected \/ Reply(Comms)
  PROVE  /\ pc' = "idle" /\ fails' \in {fails, fails + 1}
         /\ ~(vd.up /\ shm) => fails' = fails
  BY BoundsAssumption DEF NotConnected, Reply, TypeOK

\* Another thing's descriptors come from those that are free.
LEMMA FilesStep ==
  ASSUME TypeOK, Alive => AliveInv, FilesWhere, [Next]_vars
  PROVE  FilesWhere'
<1>0. KernelTyped /\ AgentTyped
  BY TypeParts
<1>1. ASSUME \A g \in Fds : owner'[g] = owner[g] \/ owner'[g] \in {"free", "cli"}, sfd' = sfd
      PROVE  FilesWhere'
  BY <1>1 DEF FilesWhere
<1>2. ASSUME NEW f, owner' = Closed(f), sfd' = sfd PROVE FilesWhere'
  BY <1>0, <1>1, <1>2, ClosedOwner DEF KernelTyped
<1>3. CASE UNCHANGED <<owner, sfd>>
  BY <1>1, <1>3
<1>4. CASE Open
  BY <1>0, <1>1, <1>4 DEF Open, KernelTyped, Owners
<1>5. CASE Banner \/ Pong
  BY <1>2, <1>3, <1>5 DEF Banner, Pong, AssertClose
<1>6. CASE Secret
  <2>1. ASSUME NEW f \in Fds, LowestFree(f), owner' = [owner EXCEPT ![f] = "secret"], sfd' = f, sfd = 0 PROVE FilesWhere'
    <3>1. /\ owner[f] = "free" /\ owner'[f] = "secret" /\ \A g \in Fds : g # f => owner'[g] = owner[g]
      BY <1>0, <2>1 DEF LowestFree, Free, KernelTyped, Owners
    <3>2. \A g \in Fds : owner[g] # "secret"
      BY <2>1, FdsPositive DEF FilesWhere
    <3>. QED  BY <2>1, <3>1, <3>2 DEF FilesWhere
  <2>. QED  BY <1>2, <1>3, <1>6, <2>1 DEF Secret, AssertClose
<1>7. CASE AuthWrites \/ Ping \/ RunWrites
  <2>1. UNCHANGED sfd /\ Alive /\ \E w \in WriteOutcomes : CliWrite(w)
    BY <1>7 DEF AuthWrites, Auth, Ping, RunWrites, Run
  <2>. QED  BY <1>0, <1>2, <1>3, <2>1, WriteTyped
<1>8. CASE AuthRead
  <2>1. CASE owner' = Closed(sfd) /\ sfd' = 0
    BY <1>0, <2>1, ClosedOwner DEF FilesWhere, KernelTyped
  <2>. QED  BY <1>3, <1>8, <2>1 DEF AuthRead
<1>9. CASE ReadCmd \/ OpenFails \/ RunBlank \/ Result \/ VarnishdStops \/ VarnishdStarts \/ ShmRemoved \/ UNCHANGED vars
  BY <1>3, <1>9 DEF ReadCmd, OpenFails, RunBlank, Result, VarnishdStops, VarnishdStarts, ShmRemoved, vars, agent, kernel
<1>10. CASE OtherOpens
  <2>1. PICK f \in Fds : owner[f] = "free" /\ owner' = [owner EXCEPT ![f] = "other"]
    BY <1>10 DEF OtherOpens, LowestFree, Free
  <2>2. owner'[f] = "other" /\ (\A g \in Fds : g # f => owner'[g] = owner[g]) /\ \A g \in Fds : owner[g] # "other"
    BY <1>0, <1>10, <2>1 DEF OtherOpens, KernelTyped, Owners
  <2>3. sfd' = sfd
    BY <1>10 DEF OtherOpens, agent
  <2>. QED  BY <2>2, <2>3 DEF FilesWhere
<1>11. CASE OtherCloses
  BY <1>0, <1>1, <1>11 DEF OtherCloses, agent, KernelTyped, Owners
<1>. QED  BY <1>4, <1>5, <1>6, <1>7, <1>8, <1>9, <1>10, <1>11 DEF Next, Agent, Environment, CliSock, VadminRun

\* There is a descriptor to connect with, and one for the secret file.
LEMMA Room ==
  ASSUME Recoverable, VadminInv, Alive, FilesWhere,
         pc = "open" \/ (pc = "secret" /\ sfd = 0)
  PROVE  Free # {}
<1>0. KernelTyped /\ AgentTyped /\ AliveInv /\ refused \in Nat /\ MaxRefused \in Nat /\ refused < MaxRefused
      /\ Cardinality(Leaked) <= refused
  BY TypeParts, BoundsAssumption DEF VadminInv, AliveInv, Stages, Connecting, HistoryTyped, LeaksAreRefusals, Leaked
<1>. DEFINE x == IF pc = "open" THEN sfd ELSE sock
<1>. SUFFICES ASSUME Free = {} PROVE FALSE
  OBVIOUS
<1>1. \A f \in Fds : owner[f] \in {"cli", "secret", "other"}
  BY <1>0 DEF Free, KernelTyped, Owners
<1>2. PICK o : \A f \in Fds : owner[f] = "other" => f = o
  BY DEF FilesWhere
<1>3. Fds \subseteq (Leaked \cup {x}) \cup {o}
  <2>1. CASE pc = "open"
    <3>1. \A f \in Fds : owner[f] = "cli" => f \in Leaked
      BY <1>0, <2>1 DEF Leaked, AliveInv, StaleWhere, Stages, Connecting
    <3>. QED  BY <1>1, <1>2, <2>1, <3>1 DEF FilesWhere
  <2>2. CASE pc # "open"
    <3>1. \A f \in Fds : owner[f] # "secret"
      BY <2>2, FdsPositive DEF FilesWhere
    <3>. QED  BY <1>1, <1>2, <2>2, <3>1 DEF Leaked
  <2>. QED  BY <2>1, <2>2
<1>. HIDE DEF x
<1>. DEFINE S == Leaked \cup {x}
<1>4. IsFiniteSet(S) /\ Cardinality(S) <= Cardinality(Leaked) + 1 /\ Cardinality(Leaked) \in Nat
  BY LeakedFinite, FS_AddElement, FS_CardinalityType
<1>. HIDE DEF S
<1>5. IsFiniteSet(S \cup {o}) /\ Cardinality(S \cup {o}) <= Cardinality(S) + 1 /\ Cardinality(S) \in Nat
  <2>1. Cardinality(S) \in Nat
    BY <1>4, FS_CardinalityType
  <2>. QED  BY <1>4, <2>1, FS_AddElement
<1>6. Cardinality(Fds) <= Cardinality(S \cup {o}) /\ Cardinality(Fds) \in Nat /\ Cardinality(S \cup {o}) \in Nat
  BY <1>3, <1>5, FdsPositive, FS_Subset, FS_CardinalityType DEF S
<1>. QED  BY <1>0, <1>4, <1>5, <1>6 DEF Recoverable

\* Who lives has been reached by cli_sock: nobody is, once varnishd stops.
LEMMA LiveStep ==
  ASSUME TypeOK, Alive => AliveInv, LiveWhere, [Next]_vars
  PROVE  LiveWhere'
<1>0. KernelTyped /\ AgentTyped /\ WorldTyped
  BY TypeParts
\* A step that leaves the connection alone, and what is known of varnishd.
<1>1. ASSUME peer' = peer \/ peer' # "live", UNCHANGED world, sarg \in BOOLEAN, sarg' = sarg \/ sarg' = TRUE,
             pc' \notin Connecting \ {"open"}
      PROVE  LiveWhere'
  BY <1>1 DEF LiveWhere, world, Connecting, Authenticating
<1>2. CASE UNCHANGED vars
  BY <1>2 DEF vars, agent, kernel, world, LiveWhere, Owned
<1>3. CASE ReadCmd \/ OpenFails \/ RunBlank \/ RunWrites \/ Result
  <2>1. pc' \in {"idle", "open", "run1", "run2", "result"}
    BY <1>3, NotConnectedIdle DEF ReadCmd, OpenFails, RunBlank, RunWrites, Run, Result, Reply
  <2>2. UNCHANGED world /\ (sarg' = sarg \/ sarg' = TRUE)
    BY <1>0, <1>3 DEF ReadCmd, OpenFails, NArgSock, RunBlank, RunWrites, Run, Result, world, AgentTyped
  <2>3. peer' = peer \/ peer' # "live"
    <3>1. CASE RunWrites
      <4>1. PICK w \in WriteOutcomes : CliWrite(w)
        BY <3>1 DEF RunWrites, Run
      <4>2. w.peer = peer \/ w.peer # "live"
        BY <4>1 DEF WriteOutcomes
      <4>. QED  BY <4>1, <4>2 DEF CliWrite
    <3>. QED  BY <1>3, <3>1 DEF ReadCmd, OpenFails, RunBlank, Result, kernel
  <2>. QED  BY <1>0, <1>1, <2>1, <2>2, <2>3 DEF Connecting, AgentTyped
<1>4. CASE Open
  <2>1. PICK f \in Fds : sock' = f /\ owner' = [owner EXCEPT ![f] = "cli"]
    BY <1>4 DEF Open
  <2>2. Owned' /\ pc' = "banner" /\ vd' = vd /\ vd.up /\ shm' = shm /\ sarg' = (sarg \/ shm)
    BY <1>0, <1>4, <2>1 DEF Open, NArgSock, Owned, KernelTyped, Owners, world
  <2>. QED  BY <1>0, <2>2 DEF LiveWhere, Authenticating, WorldTyped, AgentTyped
<1>5. CASE Banner \/ Pong
  <2>1. CASE Banner /\ pc' # "idle"
    <3>1. /\ UNCHANGED <<peer, vd, shm, sarg, sock, owner>> /\ pc = "banner"
          /\ pc' = IF vd.auth THEN "secret" ELSE "ping"
      BY <2>1, NotConnectedIdle DEF Banner, world
    <3>. QED  BY <3>1 DEF LiveWhere, Owned, Connecting, Authenticating
  <2>2. CASE pc' \in {"idle", "run1"}
    BY <1>0, <1>1, <1>5, <2>2 DEF Banner, Pong, Connecting, AgentTyped
  <2>. QED  BY <1>5, <2>1, <2>2, NotConnectedIdle DEF Banner, Pong
<1>6. CASE Secret
  <2>0. pc = "secret" /\ Alive /\ Owned /\ UNCHANGED <<peer, shm, sarg>> /\ vd'.up = vd.up /\ vd'.auth = vd.auth
    BY <1>0, <1>6 DEF Secret, AliveInv, OwnedWhere, WorldTyped
  <2>1. CASE pc' = "auth1" /\ Owned'
    BY <2>0, <2>1 DEF LiveWhere, Connecting, Authenticating
  <2>2. CASE pc' = "idle"
    BY <2>0, <2>2 DEF LiveWhere, Connecting, Authenticating
  <2>3. pc' = "auth1" => Owned'
    BY <1>0, <1>6, <2>0, NotConnectedIdle DEF Secret, Owned, LowestFree, Free, KernelTyped, Owners
  <2>. QED  BY <1>6, <2>1, <2>2, <2>3, NotConnectedIdle DEF Secret
<1>7. CASE AuthWrites \/ Ping
  <2>1. /\ UNCHANGED <<sarg, vd, shm, sock>> /\ Alive
        /\ (pc \in Authenticating /\ pc' \in Authenticating) \/ (pc = "ping" /\ pc' = "pong")
    <3>1. CASE AuthWrites
      BY <3>1 DEF AuthWrites, Auth, Authenticating, world
    <3>2. CASE Ping
      BY <3>2 DEF Ping, world
    <3>. QED  BY <1>7, <3>1, <3>2
  <2>2. PICK w \in WriteOutcomes : CliWrite(w)
    BY <1>7 DEF AuthWrites, Auth, Ping
  <2>3. w.peer = peer \/ w.peer # "live"
    BY <2>2 DEF WriteOutcomes
  <2>4. peer' = peer \/ peer' # "live"
    BY <2>2, <2>3 DEF CliWrite
  <2>5. peer = "live" /\ Owned => Owned'
    BY <1>0, <2>1, <2>2, WriteOwned DEF Owned
  <2>. QED  BY <2>1, <2>4, <2>5 DEF LiveWhere, Connecting, Authenticating
<1>8. CASE AuthRead
  <2>1. CASE pc' = "ping"
    <3>1. UNCHANGED <<peer, vd, shm, sarg, sock, owner>> /\ pc = "authread"
      BY <1>8, <2>1, NotConnectedIdle DEF AuthRead, world
    <3>. QED  BY <2>1, <3>1 DEF LiveWhere, Owned, Connecting, Authenticating
  <2>2. CASE pc' = "idle"
    BY <1>0, <1>1, <1>8, <2>2 DEF AuthRead, Connecting, AgentTyped
  <2>. QED  BY <1>8, <2>1, <2>2, NotConnectedIdle DEF AuthRead
<1>9. CASE VarnishdStops
  <2>1. peer' # "live"
    BY <1>9 DEF VarnishdStops
  <2>. QED  BY <2>1 DEF LiveWhere
<1>10. CASE VarnishdStarts
  <2>1. peer # "live" /\ peer' = peer
    BY <1>10 DEF VarnishdStarts, LiveWhere, kernel
  <2>. QED  BY <2>1 DEF LiveWhere
<1>11. CASE ShmRemoved
  BY <1>11 DEF ShmRemoved, agent, kernel, LiveWhere, Owned
<1>12. CASE OtherOpens \/ OtherCloses
  <2>1. UNCHANGED <<peer, vd, shm, sarg, sock, pc>>
    BY <1>12 DEF OtherOpens, OtherCloses, agent, world
  <2>2. Owned => Owned'
    BY <1>0, <1>12 DEF OtherOpens, OtherCloses, agent, Owned, LowestFree, Free, KernelTyped, Owners
  <2>. QED  BY <2>1, <2>2 DEF LiveWhere
<1>. QED  BY <1>2, <1>3, <1>4, <1>5, <1>6, <1>7, <1>8, <1>9, <1>10, <1>11, <1>12
          DEF Next, Agent, Environment, CliSock, VadminRun

\* What a step does to the count and to what may still fail.
LEMMA FailsKept ==
  ASSUME TypeOK, fails <= 3, vd.up /\ shm => fails + FailsLeft <= 3, FailsLeft' \in 0 .. 3,
         \/ fails' = 0
         \/ fails' = fails /\ ~(vd'.up /\ shm')
         \/ /\ UNCHANGED world
            /\ \/ fails' = fails /\ FailsLeft' <= FailsLeft
               \/ fails' \in {fails, fails + 1} /\ FailsLeft' < FailsLeft /\ vd.up /\ shm
  PROVE  fails' <= 3 /\ (vd'.up /\ shm' => fails' + FailsLeft' <= 3)
  BY FailsLeftTyped DEF world

\* Connecting: every failure takes one from what may still fail.
LEMMA CliSockFails ==
  ASSUME Recoverable, VadminInv, VadminInv', Alive, LiveWhere, FilesWhere, vd.right, CliSock,
         fails <= 3, vd.up /\ shm => fails + FailsLeft <= 3
  PROVE  fails' <= 3 /\ (vd'.up /\ shm' => fails' + FailsLeft' <= 3)
<1>0. /\ TypeOK /\ AgentTyped /\ KernelTyped /\ WorldTyped /\ AliveInv
      /\ Stale \in {0, 1} /\ Stale' \in {0, 1} /\ FailsLeft \in 0 .. 3 /\ FailsLeft' \in 0 .. 3
      /\ fails \in Nat /\ state = 0 /\ Hangs = FALSE /\ Unprivileged = FALSE
  <2>1. TypeOK /\ TypeOK' /\ AliveInv
    BY DEF VadminInv
  <2>2. Stale' \in {0, 1} /\ FailsLeft' \in 0 .. 3
    BY <2>1, BoundsAssumption DEF Stale, FailsLeft, TypeOK
  <2>3. state = 0
    BY <2>1 DEF CliSock, OpenFails, Open, Banner, Secret, AuthWrites, Auth, AuthRead, Ping, Pong, AliveInv, Stages, Connecting
  <2>. QED  BY <2>1, <2>2, <2>3, FailsLeftTyped, TypeParts, FlagsAssumption DEF Recoverable
\* read_cmd gives up, connected no more, after a failure that was expected.
<1>1. ASSUME NotConnected, UNCHANGED <<world, state>>, vd.up /\ shm => Stale' < FailsLeft
      PROVE  fails' <= 3 /\ (vd'.up /\ shm' => fails' + FailsLeft' <= 3)
  <2>1. pc' = "idle" /\ fails' \in {fails, fails + 1} /\ (~(vd.up /\ shm) => fails' = fails)
    BY <1>0, <1>1, Counted
  <2>2. FailsLeft' = Stale'
    BY <1>0, <1>1, <2>1 DEF FailsLeft, Authenticating
  <2>. QED  BY <1>0, <1>1, <2>1, <2>2, FailsKept DEF world
\* It goes on.
<1>2. ASSUME UNCHANGED <<world, fails>>, FailsLeft' <= FailsLeft
      PROVE  fails' <= 3 /\ (vd'.up /\ shm' => fails' + FailsLeft' <= 3)
  BY <1>0, <1>2, FailsKept
<1>3. CASE OpenFails
  <2>1. ~(vd.up /\ shm)
    BY <1>3, Room DEF OpenFails, NArgSock
  <2>. QED  BY <1>1, <1>3, <2>1 DEF OpenFails
<1>4. CASE Open
  <2>1. pc = "open" /\ pc' = "banner" /\ peer' = "live" /\ UNCHANGED <<world, fails, sfd, state>>
    BY <1>4 DEF Open, history
  <2>2. Stale' = Stale /\ FailsLeft = Stale /\ FailsLeft' = Stale'
    BY <1>0, <2>1 DEF Stale, FailsLeft, world
  <2>. QED  BY <1>0, <1>2, <2>1, <2>2
<1>5. CASE Banner
  <2>0. UNCHANGED <<world, sfd, peer, state>> /\ pc = "banner" /\ Owned /\ Stale' = Stale
    BY <1>0, <1>5 DEF Banner, AliveInv, OwnedWhere, Stale, world
  <2>1. CASE pc' \in {"secret", "ping"} /\ fails' = fails
    <3>1. FailsLeft' = FailsLeft
      BY <1>0, <2>0, <2>1 DEF FailsLeft, Authenticating
    <3>. QED  BY <1>0, <1>2, <2>0, <2>1, <3>1
  <2>2. CASE NoAnswer /\ NotConnected
    <3>1. peer # "live"
      BY <1>0, <2>0, <2>2 DEF NoAnswer, Misuse, Owned
    <3>2. FailsLeft = 1 + Stale
      BY <1>0, <2>0, <3>1 DEF FailsLeft, Authenticating
    <3>. QED  BY <1>0, <1>1, <2>0, <2>2, <3>2
  <2>. QED  BY <1>5, <2>1, <2>2 DEF Banner
<1>6. CASE Secret
  <2>0. pc = "secret" /\ UNCHANGED <<peer, state, shm>> /\ Owned
    BY <1>0, <1>6 DEF Secret, AliveInv, OwnedWhere
  <2>1. CASE sfd # 0 /\ pc' = "auth1" /\ UNCHANGED <<sfd, vd, fails>>
    <3>1. Stale' = Stale /\ FailsLeft' <= FailsLeft
      BY <1>0, <2>0, <2>1 DEF Stale, FailsLeft, Authenticating
    <3>. QED  BY <1>2, <2>0, <2>1, <3>1 DEF world
  <2>2. CASE sfd = 0 /\ vd' = [vd EXCEPT !.fresh = TRUE] /\ pc' = "auth1" /\ fails' = fails
    <3>1. vd'.fresh = TRUE /\ vd'.up = vd.up
      BY <1>0, <2>2 DEF WorldTyped
    <3>2. Stale' = 0 /\ Stale = 0
      BY <2>2, <3>1 DEF Stale
    <3>3. FailsLeft' <= FailsLeft
      BY <1>0, <2>0, <2>2, <3>2 DEF FailsLeft, Authenticating
    <3>. QED  BY <1>0, <2>0, <2>2, <3>1, <3>3
  <2>3. CASE /\ ~sarg \/ (sfd = 0 /\ (Free = {} \/ (cmd # "boot" /\ Unprivileged)))
             /\ NotConnected /\ UNCHANGED <<sfd, vd>>
    <3>1. ~sarg
      BY <1>0, <2>0, <2>3, Room
    <3>2. shm => peer # "live"
      BY <2>0, <3>1 DEF LiveWhere, Connecting
    <3>3. Stale' = Stale
      BY <2>3 DEF Stale
    <3>4. shm => FailsLeft = 1 + Stale
      BY <1>0, <2>0, <3>2 DEF FailsLeft, Authenticating
    <3>. QED  BY <1>0, <1>1, <2>0, <2>3, <3>3, <3>4 DEF world
  <2>. QED  BY <1>6, <2>1, <2>2, <2>3 DEF Secret
<1>7. CASE AuthWrites \/ Ping
  <2>1. /\ UNCHANGED <<world, sfd, state, fails>>
        /\ (pc \in Authenticating /\ pc' \in Authenticating) \/ (pc = "ping" /\ pc' = "pong")
    <3>1. CASE AuthWrites
      BY <3>1 DEF AuthWrites, Auth, Authenticating, history
    <3>2. CASE Ping
      BY <3>2 DEF Ping, history
    <3>. QED  BY <1>7, <3>1, <3>2
  <2>2. PICK w \in WriteOutcomes : CliWrite(w)
    BY <1>7 DEF AuthWrites, Auth, Ping
  <2>3. w.peer = "live" <=> peer = "live"
    BY <1>0, <2>2 DEF WriteOutcomes, KernelTyped
  <2>4. peer' = "live" <=> peer = "live"
    BY <2>2, <2>3 DEF CliWrite
  <2>5. Stale' = Stale
    BY <2>1 DEF Stale, world
  <2>6. FailsLeft' = FailsLeft
    BY <1>0, <2>1, <2>4, <2>5 DEF FailsLeft, Authenticating
  <2>. QED  BY <1>0, <1>2, <2>1, <2>6
<1>8. CASE AuthRead
  <2>0. pc = "authread" /\ UNCHANGED <<peer, state, world>> /\ sfd # 0
    BY <1>0, <1>8 DEF AuthRead, AliveInv, SecretOwned, Authenticating
  <2>1. CASE Answered /\ pc' = "ping" /\ UNCHANGED <<sfd, fails>>
    <3>1. peer = "live" /\ Stale' = Stale
      BY <2>0, <2>1 DEF Answered, Stale, world
    <3>2. FailsLeft' = FailsLeft
      BY <1>0, <2>0, <2>1, <3>1 DEF FailsLeft, Authenticating
    <3>. QED  BY <1>0, <1>2, <2>0, <2>1, <3>2
  <2>2. CASE (NoAnswer \/ ~vd.right \/ ~vd.fresh) /\ sfd' = 0 /\ NotConnected
    <3>1. Stale' = 0
      BY <2>2 DEF Stale
    <3>2. peer = "live" => Stale = 1
      <4>. SUFFICES ASSUME peer = "live" PROVE Stale = 1
        OBVIOUS
      <4>1. Owned /\ vd.auth
        BY <2>0 DEF LiveWhere, Connecting, Authenticating
      <4>2. ~NoAnswer
        BY <1>0, <4>1 DEF NoAnswer, Misuse, Owned
      <4>. QED  BY <2>0, <2>2, <4>1, <4>2 DEF Stale
    <3>3. FailsLeft = 1
      BY <1>0, <2>0, <3>2 DEF FailsLeft, Authenticating
    <3>. QED  BY <1>0, <1>1, <2>0, <2>2, <3>1, <3>3
  <2>. QED  BY <1>8, <2>1, <2>2 DEF AuthRead
<1>9. CASE Pong
  <2>0. pc = "pong" /\ UNCHANGED <<peer, world, sfd>> /\ Owned /\ Stale' = Stale
    BY <1>0, <1>9 DEF Pong, AliveInv, OwnedWhere, Stale, world
  <2>1. CASE Answered /\ state' = 1 /\ pc' \in {"idle", "run1"} /\ fails' = fails
    <3>1. FailsLeft' = 0
      BY <2>0, <2>1 DEF FailsLeft, Answered
    <3>. QED  BY <1>0, <1>2, <2>0, <2>1, <3>1
  <2>2. CASE NoAnswer /\ NotConnected /\ UNCHANGED state
    <3>1. peer # "live"
      BY <1>0, <2>0, <2>2 DEF NoAnswer, Misuse, Owned
    <3>2. FailsLeft = 1 + Stale
      BY <1>0, <2>0, <3>1 DEF FailsLeft, Authenticating
    <3>. QED  BY <1>0, <1>1, <2>0, <2>2, <3>2
  <2>. QED  BY <1>9, <2>1, <2>2 DEF Pong
<1>. QED  BY <1>3, <1>4, <1>5, <1>6, <1>7, <1>8, <1>9 DEF CliSock

\* Running a command, and starting to.
LEMMA VadminRunFails ==
  ASSUME VadminInv, VadminInv', Alive, vd.right, VadminRun \/ ReadCmd,
         fails <= 3, vd.up /\ shm => fails + FailsLeft <= 3
  PROVE  fails' <= 3 /\ (vd'.up /\ shm' => fails' + FailsLeft' <= 3)
<1>0. /\ TypeOK /\ AgentTyped /\ KernelTyped /\ AliveInv
      /\ Stale \in {0, 1} /\ FailsLeft \in 0 .. 3 /\ FailsLeft' \in 0 .. 3 /\ fails \in Nat
  <2>1. TypeOK /\ TypeOK' /\ AliveInv
    BY DEF VadminInv
  <2>2. FailsLeft' \in 0 .. 3
    BY <2>1, BoundsAssumption DEF Stale, FailsLeft, TypeOK
  <2>. QED  BY <2>1, <2>2, FailsLeftTyped, TypeParts
<1>1. UNCHANGED <<world, sfd>> /\ Stale' = Stale
  BY DEF VadminRun, ReadCmd, RunBlank, RunWrites, Run, Result, Stale, world
<1>2. CASE ReadCmd
  <2>1. /\ pc = "idle" /\ pc' = (IF state = 0 THEN "open" ELSE "run1")
        /\ UNCHANGED <<state, peer, fails>>
    BY <1>2 DEF ReadCmd, kernel, history
  <2>2. FailsLeft' = FailsLeft
    BY <1>0, <1>1, <2>1 DEF FailsLeft, AgentTyped
  <2>. QED  BY <1>0, <1>1, <2>1, <2>2, FailsKept
<1>3. CASE fails' = 0
  BY <1>0, <1>3, FailsKept
<1>4. CASE RunBlank
  BY <1>3, <1>4 DEF RunBlank, Reply, Unset, Comms
<1>5. CASE RunWrites
  <2>1. PICK w \in WriteOutcomes :
          /\ CliWrite(w) /\ pc \in {"run1", "run2"}
          /\ \/ w.ok /\ pc' \in {"run2", "result"} /\ UNCHANGED <<state, fails>>
             \/ ~w.ok /\ state' = 0 /\ Reply(Comms)
    BY <1>5 DEF RunWrites, Run
  <2>2. Owned /\ state = 1
    BY <1>0, <2>1 DEF AliveInv, Stages, OwnedWhere, Running
  <2>3. Misuse(sock, "cli") = {}
    BY <2>2 DEF Misuse, Owned
  <2>4. /\ w.ok /\ peer = "live" => peer' = "live"
        /\ w.ok /\ peer # "live" => peer = "fin" /\ peer' \in {"fin", "rst"}
        /\ ~w.ok => peer = "rst"
    BY <1>0, <2>1, <2>3 DEF WriteOutcomes, CliWrite, KernelTyped
  <2>5. CASE w.ok /\ pc' \in {"run2", "result"} /\ UNCHANGED <<state, fails>>
    <3>1. FailsLeft' <= FailsLeft
      BY <1>0, <1>1, <2>1, <2>2, <2>4, <2>5 DEF FailsLeft
    <3>. QED  BY <1>0, <1>1, <2>5, <3>1, FailsKept
  <2>6. CASE ~w.ok /\ state' = 0 /\ Reply(Comms)
    <3>1. pc' = "idle" /\ fails' \in {fails, fails + 1} /\ (~(vd.up /\ shm) => fails' = fails)
      BY <1>0, <2>6, Counted
    <3>2. FailsLeft' = Stale /\ FailsLeft = 1 + Stale
      BY <1>0, <1>1, <2>1, <2>2, <2>4, <2>6, <3>1 DEF FailsLeft
    <3>3. FailsLeft' < FailsLeft
      BY <1>0, <3>2
    <3>4. CASE vd.up /\ shm
      BY <1>0, <1>1, <3>1, <3>3, <3>4, FailsKept
    <3>5. CASE ~(vd.up /\ shm)
      BY <1>0, <1>1, <3>1, <3>5, FailsKept DEF world
    <3>. QED  BY <3>4, <3>5
  <2>. QED  BY <2>1, <2>5, <2>6
<1>6. CASE Result
  <2>1. pc = "result" /\ state' = state /\ Owned /\ state = 1
    BY <1>0, <1>6 DEF Result, AliveInv, Stages, OwnedWhere, Running
  <2>2. CASE fails' = 0
    BY <1>3, <2>2
  <2>3. CASE peer # "live" /\ Reply(Comms) /\ peer' = IF peer = "fin" THEN "rst" ELSE peer
    <3>1. pc' = "idle" /\ fails' \in {fails, fails + 1} /\ (~(vd.up /\ shm) => fails' = fails)
      BY <1>0, <2>3, Counted
    <3>2. peer' = "rst"
      BY <1>0, <2>3 DEF KernelTyped
    <3>3. FailsLeft' = 1 + Stale /\ FailsLeft = 2 + Stale
      BY <1>0, <1>1, <2>1, <2>3, <3>1, <3>2 DEF FailsLeft
    <3>4. FailsLeft' < FailsLeft
      BY <1>0, <3>3
    <3>5. CASE vd.up /\ shm
      BY <1>0, <1>1, <3>1, <3>4, <3>5, FailsKept
    <3>6. CASE ~(vd.up /\ shm)
      BY <1>0, <1>1, <3>1, <3>6, FailsKept DEF world
    <3>. QED  BY <3>5, <3>6
  <2>4. Misuse(sock, "cli") = {}
    BY <2>1 DEF Misuse, Owned
  <2>. QED  BY <1>6, <2>2, <2>3, <2>4 DEF Result, Reply, Comms, CliOK, Closing
<1>. QED  BY <1>2, <1>4, <1>5, <1>6 DEF VadminRun

\* What varnishd and the other threads do.
LEMMA EnvironmentFails ==
  ASSUME TypeOK, TypeOK', Environment \/ UNCHANGED vars,
         fails <= 3, vd.up /\ shm => fails + FailsLeft <= 3
  PROVE  fails' <= 3 /\ (vd'.up /\ shm' => fails' + FailsLeft' <= 3)
<1>0. FailsLeft' \in 0 .. 3 /\ WorldTyped
  BY BoundsAssumption, TypeParts DEF Stale, FailsLeft, TypeOK
<1>1. CASE OtherOpens \/ OtherCloses \/ UNCHANGED vars
  <2>1. UNCHANGED <<world, fails, pc, state, peer, sfd>>
    BY <1>1 DEF OtherOpens, OtherCloses, vars, agent, kernel, history
  <2>2. FailsLeft' = FailsLeft
    BY <2>1 DEF FailsLeft, Stale, world
  <2>. QED  BY <1>0, <2>1, <2>2, FailsKept, FailsLeftTyped
<1>2. CASE VarnishdStops
  <2>1. fails' = fails /\ vd'.up = FALSE
    BY <1>0, <1>2 DEF VarnishdStops, WorldTyped, history
  <2>. QED  BY <1>0, <2>1, FailsKept
<1>3. CASE VarnishdStarts
  BY <1>0, <1>3, FailsKept DEF VarnishdStarts
<1>4. CASE ShmRemoved
  <2>1. fails' = fails /\ shm' = FALSE
    BY <1>4 DEF ShmRemoved, history
  <2>. QED  BY <1>0, <2>1, FailsKept
<1>. QED  BY <1>1, <1>2, <1>3, <1>4 DEF Environment

LEMMA RightStep ==
  ASSUME Recoverable, TypeOK, vd.right, [Next]_vars
  PROVE  vd'.right
<1>0. WorldTyped
  BY TypeParts
<1>1. CASE VarnishdStarts
  <2>1. PICK auth \in BOOLEAN, right \in SecretRight, fresh \in {vd.fresh, FALSE} :
           vd' = [up |-> TRUE, starts |-> vd.starts + 1, auth |-> auth, right |-> right, fresh |-> fresh \/ sfd = 0]
    BY <1>1 DEF VarnishdStarts
  <2>2. vd'.right = right /\ right = TRUE
    BY <2>1 DEF Recoverable
  <2>. QED  BY <2>2
<1>2. CASE VarnishdStops
  BY <1>0, <1>2 DEF VarnishdStops, WorldTyped
<1>3. CASE Secret
  BY <1>0, <1>3 DEF Secret, WorldTyped
<1>4. CASE OpenFails \/ Open \/ Banner \/ AuthWrites \/ AuthRead \/ Ping \/ Pong \/ VadminRun \/ ReadCmd
  BY <1>4 DEF OpenFails, Open, Banner, AuthWrites, Auth, AuthRead, Ping, Pong, VadminRun, RunBlank,
     RunWrites, Run, Result, ReadCmd, world
<1>5. CASE ShmRemoved \/ OtherOpens \/ OtherCloses \/ UNCHANGED vars
  BY <1>5 DEF ShmRemoved, OtherOpens, OtherCloses, vars, world
<1>. QED  BY <1>1, <1>2, <1>3, <1>4, <1>5 DEF Next, Agent, Environment, CliSock

\* With the right secret, leave to read it and descriptors to spare, a varnishd
\* that is up and reachable costs three failing commands at most.
THEOREM VarnishdRecovers == ASSUME Recoverable PROVE Spec => []RecoversInThree
<1>1. Init => RecoveryInv
  BY FdsPositive DEF Init, RecoveryInv, LiveWhere, FilesWhere
<1>2. VadminInv /\ RecoveryInv /\ VadminInv' /\ [Next]_vars => RecoveryInv'
  <2>. SUFFICES ASSUME VadminInv, RecoveryInv, VadminInv', [Next]_vars PROVE RecoveryInv'
    OBVIOUS
  <2>0. TypeOK /\ TypeOK' /\ (Alive => AliveInv)
    BY DEF VadminInv
  <2>1. LiveWhere' /\ FilesWhere' /\ vd'.right
    BY <2>0, LiveStep, FilesStep, RightStep DEF RecoveryInv
  <2>2. Agent => Alive
    BY DEF Agent, ReadCmd, CliSock, OpenFails, Open, Banner, Secret, AuthWrites, Auth,
       AuthRead, Ping, Pong, VadminRun, RunBlank, RunWrites, Run, Result
  <2>3. fails' <= 3 /\ (vd'.up /\ shm' => fails' + FailsLeft' <= 3)
    BY <2>0, <2>2, CliSockFails, VadminRunFails, EnvironmentFails DEF RecoveryInv, Next, Agent
  <2>. QED  BY <2>1, <2>3 DEF RecoveryInv
<1>3. RecoveryInv => RecoversInThree
  BY DEF RecoveryInv, RecoversInThree
<1>. QED  BY <1>1, <1>2, <1>3, VadminInvariant, PTL DEF Spec
=============================================================================
