------------------------------- MODULE Vadmin -------------------------------
(***************************************************************************)
(* The agent's connection to varnishd's command line (modules/vadmin.c,    *)
(* foreign/vss.c): one thread serves commands one at a time, connecting    *)
(* and authenticating first when it has to.  Between any two system calls  *)
(* varnishd may die, restart on another port or with another secret file,  *)
(* and other threads of the agent may open and close descriptors.          *)
(*                                                                         *)
(* A descriptor number is a member of Fds; owner says what it refers to,   *)
(* which is what the kernel knows and vadmin does not.                     *)
(***************************************************************************)
EXTENDS Naturals, FiniteSets

CONSTANTS
    Fds,           \* descriptor numbers, positive
    HasS,          \* -S was given on the command line
    HasT,          \* -T was given: the address is fixed
    Unprivileged,  \* the agent left root and may not open the secret file
    SecretRight,   \* subset of BOOLEAN: can the secret file be the right one?
    Hangs,         \* varnishd may leave a command unanswered for -t seconds
    MaxRestarts,   \* bound on the number of times varnishd starts
    MaxRefused,    \* bound: no more commands after so many refusals
    MaxFails       \* bound: fails is counted up to this number

ASSUME FdsAssumption == Fds \subseteq Nat \ {0} /\ IsFiniteSet(Fds)
ASSUME FlagsAssumption ==
    /\ HasS \in BOOLEAN /\ HasT \in BOOLEAN /\ Unprivileged \in BOOLEAN
    /\ Hangs \in BOOLEAN /\ SecretRight \subseteq BOOLEAN
ASSUME BoundsAssumption == MaxRestarts \in Nat /\ MaxRefused \in Nat \ {0} /\ MaxFails \in Nat

VARIABLES
    \* vadmin_config_t and the thread's place in read_cmd
    state,    \* 1: connected, as far as vadmin knows
    sock,     \* descriptor number of the connection, 0 for -1
    sfd,      \* s_arg_fd: descriptor number of the secret file, 0 for -1
    targ,     \* T_arg: the start of varnishd whose address it is, 0 for NULL
    sarg,     \* S_arg is known
    pc, cmd,  \* where read_cmd is, and with which command
    ret,      \* status of the last answer given
    \* the kernel
    owner,    \* owner[f]: "free", "cli", "secret", "other"
    peer,     \* far end of the connection last opened
    bad,      \* what was done to a descriptor that is not vadmin's
    died,     \* why the agent's process ended
    \* varnishd
    vd,       \* [up, starts, auth, right, fresh]
    shm,      \* the shared memory log is there to be read
    \* history
    fails,    \* commands answered 400 since varnishd started or answered
    refused   \* authentications that did not succeed

agent   == <<state, sock, sfd, targ, sarg, pc, cmd, ret>>
kernel  == <<owner, peer, bad, died>>
world   == <<vd, shm>>
history == <<fails, refused>>
vars    == <<agent, kernel, world, history>>

CliOK == 200
Comms == 400
Closing == 500
Unset == 0      \* nothing was assigned to ret->status

TypeOK ==
    /\ state \in {0, 1}
    /\ sock \in Fds \cup {0} /\ sfd \in Fds \cup {0}
    /\ targ \in 0 .. MaxRestarts /\ sarg \in BOOLEAN
    /\ pc \in {"idle", "open", "banner", "secret", "auth1", "auth2", "auth3",
               "authread", "ping", "pong", "run1", "run2", "result"}
    /\ cmd \in {"boot", "cmd", "quit", "blank"}
    /\ ret \in {Unset, CliOK, Comms, Closing}
    /\ owner \in [Fds -> {"free", "cli", "secret", "other"}]
    /\ peer \in {"live", "fin", "rst"}
    /\ bad \in SUBSET {"closed", "foreign"}
    /\ died \in {"no", "sigpipe", "assert"}
    /\ vd \in [up : BOOLEAN, starts : 0 .. MaxRestarts, auth : BOOLEAN,
               right : BOOLEAN, fresh : BOOLEAN]
    /\ shm \in BOOLEAN
    /\ fails \in 0 .. MaxFails /\ refused \in 0 .. MaxRefused

\* vadmin_init: with -S it returns before it ignores SIGPIPE and connects;
\* main has then opened the secret file.  Otherwise it connects, as root.
\* (n_arg is never NULL: core_opt sets it to "".)
Init ==
    /\ state = 0 /\ sock = 0 /\ targ = 0 /\ sarg = HasS
    /\ \E f \in Fds : /\ \A g \in Fds : f <= g
                      /\ sfd = IF HasS THEN f ELSE 0
                      /\ owner = [g \in Fds |-> IF HasS /\ g = f THEN "secret" ELSE "free"]
    /\ pc = (IF HasS THEN "idle" ELSE "open") /\ cmd = "boot"
    /\ ret = CliOK
    /\ peer = "fin" /\ bad = {} /\ died = "no"
    /\ vd = [up |-> FALSE, starts |-> 0, auth |-> FALSE, right |-> TRUE, fresh |-> TRUE]
    /\ shm = FALSE
    /\ fails = 0 /\ refused = 0

Alive == died = "no"

-----------------------------------------------------------------------------
(* Descriptors and the connection, as the kernel sees them.                *)

Free == {f \in Fds : owner[f] = "free"}

\* f is the number the kernel gives to the next descriptor.
LowestFree(f) == f \in Free /\ \A g \in Free : f <= g

\* close(f)
Closed(f) == IF f \in Fds THEN [owner EXCEPT ![f] = "free"] ELSE owner

\* What closing or using descriptor f does wrong, if it is not what.
Misuse(f, what) ==
    IF f \notin Fds \/ owner[f] = "free" THEN {"closed"}
    ELSE IF owner[f] # what THEN {"foreign"} ELSE {}

\* cli_write(sock): outcomes of write() and, if it fails, of close().  The
\* first write to a connection that the peer has closed succeeds and makes
\* the peer send a reset, which a later write finds; SIGPIPE, unless it is
\* ignored, ends the process there.  What a write to another thread's
\* descriptor does depends on what that is.
WriteOutcomes ==
    IF Misuse(sock, "cli") # {}
    THEN {[ok |-> o # Closed(sock), owner |-> o, peer |-> peer, bad |-> Misuse(sock, "cli"),
           died |-> "no"] : o \in {owner, Closed(sock)}}
    ELSE IF peer = "live"
         THEN {[ok |-> TRUE, owner |-> owner, peer |-> "live", bad |-> {}, died |-> "no"]}
    ELSE IF peer = "fin"
         THEN {[ok |-> TRUE, owner |-> owner, peer |-> p, bad |-> {}, died |-> "no"] :
                   p \in {"fin", "rst"}}
    ELSE {[ok |-> FALSE, owner |-> Closed(sock), peer |-> "rst", bad |-> {},
           died |-> IF HasS THEN "sigpipe" ELSE "no"]}

CliWrite(w) ==
    /\ owner' = w.owner /\ peer' = w.peer /\ bad' = bad \cup w.bad /\ died' = w.died

\* VCLI_ReadResult(sock) brings no answer: the far end is gone, the
\* descriptor is not the connection, or varnishd hangs.
NoAnswer == Misuse(sock, "cli") # {} \/ peer # "live" \/ Hangs

\* VCLI_ReadResult(sock) can bring an answer.
Answered == Misuse(sock, "cli") = {} /\ peer = "live"

\* assert(close(f) == 0)
AssertClose(f, what) ==
    /\ owner' = Closed(f)
    /\ bad' = bad \cup Misuse(f, what)
    /\ died' = IF Misuse(f, what) = {"closed"} THEN "assert" ELSE died

-----------------------------------------------------------------------------
(* Replies of read_cmd.                                                    *)

\* The command is over, with this status.
Reply(s) ==
    /\ pc' = "idle"
    /\ ret' = s
    /\ fails' = IF s # Comms THEN 0
                ELSE IF vd.up /\ shm /\ fails < MaxFails THEN fails + 1 ELSE fails

\* Faulty variant: the status cli_sock last read (107) is passed on.
NotConnectedRaw ==
    IF cmd = "boot" THEN pc' = "idle" /\ UNCHANGED <<ret, fails>> ELSE Reply(107)

\* cli_sock returned -1: read_cmd answers 400; vadmin_init just returns.
NotConnected ==
    IF cmd = "boot" THEN pc' = "idle" /\ UNCHANGED <<ret, fails>> ELSE Reply(Comms)

\* read_cmd is called, with ret->status uninitialised.
ReadCmd ==
    /\ Alive /\ pc = "idle" /\ refused < MaxRefused
    /\ cmd' \in {"cmd", "quit", "blank"}
    /\ pc' = IF state = 0 THEN "open" ELSE "run1"
    /\ UNCHANGED <<state, sock, sfd, targ, sarg, ret, kernel, world, history>>

-----------------------------------------------------------------------------
(* Faulty variants of the definitions below, one plausible slip each.  They *)
(* are not part of the specification: a run with one of them in place of    *)
(* the original shows that a property tells the two apart.                  *)

\* The address is read once.
NArgSockOnce ==
    /\ targ' = IF shm /\ targ = 0 THEN vd.starts ELSE targ
    /\ sarg' = (sarg \/ shm)

\* The refused connection is closed, with the assert used elsewhere.
AuthReadCloses ==
    /\ Alive /\ pc = "authread"
    /\ \/ /\ Answered /\ vd.right /\ vd.fresh
          /\ pc' = "ping"
          /\ UNCHANGED <<sock, sfd, owner, bad, died, ret, fails, refused>>
       \/ /\ NoAnswer \/ ~vd.right \/ ~vd.fresh
          /\ AssertClose(sock, "cli")
          /\ sock' = 0
          /\ refused' = refused + 1
          /\ NotConnected
          /\ UNCHANGED sfd
    /\ UNCHANGED <<state, targ, sarg, cmd, peer, world>>

\* The secret file stays open after a refusal, as it was read.
AuthReadKeeps ==
    /\ Alive /\ pc = "authread"
    /\ \/ /\ Answered /\ vd.right /\ vd.fresh
          /\ pc' = "ping"
          /\ UNCHANGED <<sock, refused, ret, fails>>
       \/ /\ NoAnswer \/ ~vd.right \/ ~vd.fresh
          /\ sock' = 0
          /\ refused' = refused + 1
          /\ NotConnected
    /\ UNCHANGED <<state, sfd, targ, sarg, cmd, kernel, world>>

\* No PONG: the connection is forgotten without being closed.
PongForgets ==
    /\ Alive /\ pc = "pong"
    /\ \/ /\ Answered
          /\ state' = 1
          /\ pc' = IF cmd = "boot" THEN "idle" ELSE "run1"
          /\ UNCHANGED <<sock, ret, fails>>
       \/ /\ NoAnswer
          /\ sock' = 0
          /\ NotConnected
          /\ UNCHANGED state
    /\ UNCHANGED <<sfd, targ, sarg, cmd, kernel, world, refused>>

\* A failed write leaves state as it was.
RunStays(from, to) ==
    /\ Alive /\ pc = from /\ cmd # "blank"
    /\ \E w \in WriteOutcomes :
          /\ CliWrite(w)
          /\ \/ w.ok /\ pc' = to /\ UNCHANGED <<ret, fails>>
             \/ ~w.ok /\ Reply(Comms)
    /\ UNCHANGED <<state, sock, sfd, targ, sarg, cmd, world, refused>>

-----------------------------------------------------------------------------
(* cli_sock, one system call after the other.                              *)

\* n_arg_sock reads the address (and once the secret's path) from the shared
\* memory log, if it can.
NArgSock ==
    /\ targ' = IF shm THEN vd.starts ELSE targ
    /\ sarg' = (sarg \/ shm)

\* VSS_open connects to the address, or cannot.
OpenFails ==
    /\ Alive /\ pc = "open"
    /\ NArgSock
    /\ ~vd.up \/ (targ' # vd.starts /\ ~HasT) \/ Free = {}
    /\ sock' = IF targ' = 0 /\ ~HasT THEN sock ELSE 0
    /\ NotConnected
    /\ UNCHANGED <<state, sfd, cmd, kernel, world, refused>>

Open ==
    /\ Alive /\ pc = "open"
    /\ NArgSock
    /\ vd.up /\ (targ' = vd.starts \/ HasT)
    /\ \E f \in Fds : /\ LowestFree(f)
                      /\ sock' = f
                      /\ owner' = [owner EXCEPT ![f] = "cli"]
    /\ peer' = "live"
    /\ pc' = "banner"
    /\ UNCHANGED <<state, sfd, cmd, ret, bad, died, world, history>>

\* The banner: 200, 107 (authenticate), or nothing, which is "Rejected".
Banner ==
    /\ Alive /\ pc = "banner"
    /\ \/ /\ Answered
          /\ pc' = IF vd.auth THEN "secret" ELSE "ping"
          /\ UNCHANGED <<sock, owner, bad, died, ret, fails>>
       \/ /\ NoAnswer
          /\ AssertClose(sock, "cli")
          /\ sock' = 0
          /\ NotConnected
    /\ UNCHANGED <<state, sfd, targ, sarg, cmd, peer, world, refused>>

\* Open or rewind the secret file.  vadmin_init still runs as root.
Secret ==
    /\ Alive /\ pc = "secret"
    /\ \/ /\ sarg /\ sfd # 0
          /\ pc' = "auth1"
          /\ UNCHANGED <<sock, sfd, owner, bad, died, vd, ret, fails>>
       \/ /\ sarg /\ sfd = 0 /\ (cmd = "boot" \/ ~Unprivileged)
          /\ \E f \in Fds : /\ LowestFree(f)
                            /\ sfd' = f
                            /\ owner' = [owner EXCEPT ![f] = "secret"]
          /\ vd' = [vd EXCEPT !.fresh = TRUE]
          /\ pc' = "auth1"
          /\ UNCHANGED <<sock, bad, died, ret, fails>>
       \/ /\ ~sarg \/ (sfd = 0 /\ (Free = {} \/ (cmd # "boot" /\ Unprivileged)))
          /\ AssertClose(sock, "cli")
          /\ sock' = 0
          /\ NotConnected
          /\ UNCHANGED <<sfd, vd>>
    /\ UNCHANGED <<state, targ, sarg, cmd, peer, shm, refused>>

\* The three writes of the authentication, whose results are ignored.
Auth(from, to) ==
    /\ Alive /\ pc = from
    /\ \E w \in WriteOutcomes : CliWrite(w)
    /\ pc' = to
    /\ UNCHANGED <<state, sock, sfd, targ, sarg, cmd, ret, world, history>>

AuthWrites == Auth("auth1", "auth2") \/ Auth("auth2", "auth3") \/ Auth("auth3", "authread")

\* The answer to the authentication.  When it is not 200 the secret file is
\* closed and the connection is forgotten, not closed.
AuthRead ==
    /\ Alive /\ pc = "authread"
    /\ \/ /\ Answered /\ vd.right /\ vd.fresh
          /\ pc' = "ping"
          /\ UNCHANGED <<sock, sfd, owner, bad, died, ret, fails, refused>>
       \/ /\ NoAnswer \/ ~vd.right \/ ~vd.fresh
          /\ owner' = Closed(sfd)
          /\ bad' = bad \cup Misuse(sock, "cli") \cup Misuse(sfd, "secret")
          /\ died' = IF Misuse(sfd, "secret") = {"closed"} THEN "assert" ELSE died
          /\ sock' = 0 /\ sfd' = 0
          /\ refused' = refused + 1
          /\ NotConnected
    /\ UNCHANGED <<state, targ, sarg, cmd, peer, world>>

Ping ==
    /\ Alive /\ pc = "ping"
    /\ \E w \in WriteOutcomes : CliWrite(w)
    /\ pc' = "pong"
    /\ UNCHANGED <<state, sock, sfd, targ, sarg, cmd, ret, world, history>>

Pong ==
    /\ Alive /\ pc = "pong"
    /\ \/ /\ Answered
          /\ state' = 1
          /\ pc' = IF cmd = "boot" THEN "idle" ELSE "run1"
          /\ UNCHANGED <<sock, owner, bad, died, ret, fails>>
       \/ /\ NoAnswer
          /\ AssertClose(sock, "cli")
          /\ sock' = 0
          /\ NotConnected
          /\ UNCHANGED state
    /\ UNCHANGED <<sfd, targ, sarg, cmd, peer, world, refused>>

-----------------------------------------------------------------------------
(* vadmin_run.                                                             *)

\* A command of white space only: the answer is "" and the status is left
\* as it was, which is uninitialised.
RunBlank ==
    /\ Alive /\ pc = "run1" /\ cmd = "blank"
    /\ Reply(Unset)
    /\ UNCHANGED <<state, sock, sfd, targ, sarg, cmd, kernel, world, refused>>

\* The write of the command (from run1) or of the newline (from run2).
Run(from, to) ==
    /\ Alive /\ pc = from /\ cmd # "blank"
    /\ \E w \in WriteOutcomes :
          /\ CliWrite(w)
          /\ \/ w.ok /\ pc' = to /\ UNCHANGED <<state, ret, fails>>
             \/ ~w.ok /\ state' = 0 /\ Reply(Comms)
    /\ UNCHANGED <<sock, sfd, targ, sarg, cmd, world, refused>>

RunWrites == Run("run1", "run2") \/ Run("run2", "result")

\* The answer, or what VCLI_ReadResult makes of a lost connection: 400, and
\* vadmin still believes itself connected.  By the time the next command is
\* written, the reset caused by this one has arrived.
Result ==
    /\ Alive /\ pc = "result"
    /\ \/ /\ Answered
          /\ Reply(IF cmd = "quit" THEN Closing ELSE CliOK)
          /\ peer' = IF cmd = "quit" THEN "fin" ELSE peer
          /\ UNCHANGED bad
       \/ /\ Misuse(sock, "cli") # {} \/ peer # "live"
          /\ Reply(Comms)
          /\ peer' = IF peer = "fin" THEN "rst" ELSE peer
          /\ bad' = bad \cup Misuse(sock, "cli")
    /\ UNCHANGED <<state, sock, sfd, targ, sarg, cmd, owner, died, world, refused>>

-----------------------------------------------------------------------------
(* The environment.                                                        *)

\* varnishd dies.  What it had not read makes the kernel reset the
\* connection at once, otherwise it is closed.
VarnishdStops ==
    /\ vd.up
    /\ vd' = [vd EXCEPT !.up = FALSE]
    /\ peer' \in IF peer # "live" THEN {peer}
                 ELSE IF pc \in {"auth2", "auth3", "authread", "pong", "run2", "result"}
                      THEN {"fin", "rst"} ELSE {"fin"}
    /\ UNCHANGED <<agent, owner, bad, died, shm, history>>

\* varnishd starts, on a port of its own, and writes its secret file anew:
\* in place, or as a new file, which an open descriptor does not see.
VarnishdStarts ==
    /\ ~vd.up /\ vd.starts < MaxRestarts
    /\ \E auth \in BOOLEAN, right \in SecretRight, fresh \in {vd.fresh, FALSE} :
          vd' = [up |-> TRUE, starts |-> vd.starts + 1, auth |-> auth,
                 right |-> right, fresh |-> fresh \/ sfd = 0]
    /\ shm' = TRUE
    /\ fails' = 0
    /\ UNCHANGED <<agent, kernel, refused>>

\* Somebody removes the shared memory log (tests/badvarnishd.sh does).
ShmRemoved ==
    /\ shm /\ vd.starts < MaxRestarts
    /\ shm' = FALSE
    /\ UNCHANGED <<agent, kernel, vd, history>>

\* Another thread opens a descriptor, and closes it.
OtherOpens ==
    /\ Alive /\ \A f \in Fds : owner[f] # "other"
    /\ \E f \in Fds : LowestFree(f) /\ owner' = [owner EXCEPT ![f] = "other"]
    /\ UNCHANGED <<agent, peer, bad, died, world, history>>

OtherCloses ==
    /\ Alive
    /\ \E f \in Fds : owner[f] = "other" /\ owner' = [owner EXCEPT ![f] = "free"]
    /\ UNCHANGED <<agent, peer, bad, died, world, history>>

CliSock == OpenFails \/ Open \/ Banner \/ Secret \/ AuthWrites \/ AuthRead \/ Ping \/ Pong
VadminRun == RunBlank \/ RunWrites \/ Result
Agent == ReadCmd \/ CliSock \/ VadminRun
Environment == VarnishdStops \/ VarnishdStarts \/ ShmRemoved \/ OtherOpens \/ OtherCloses

Next == Agent \/ Environment

Spec == Init /\ [][Next]_vars

\* The vadmin thread goes on with a command it has; vping sends one every
\* thirty seconds and is served in its turn (Ipc), whatever others send.
Fairness == WF_vars(Agent) /\ SF_vars(ReadCmd /\ cmd' = "cmd")
FairSpec == Spec /\ Fairness

-----------------------------------------------------------------------------
(* Properties.                                                             *)

\* When vadmin believes itself connected its descriptor is its connection:
\* no command is ever written to a number that was closed or has become
\* another thread's, although a failed write closes the descriptor and
\* leaves the number in place.
ConnectedMeansOwned ==
    Alive /\ pc \in {"idle", "run1", "run2", "result"} /\ state = 1 =>
        sock \in Fds /\ owner[sock] = "cli"

\* The asserts around close() hold, at whatever point varnishd dies.
NoAbort == died # "assert"

\* The one place that goes on using a descriptor after closing it is the
\* authentication (the FIXME of vadmin.c 60-68).
MisuseOnlyInAuth ==
    [][bad' # bad => pc \in {"auth2", "auth3", "authread"}]_vars

\* Every connection that stays open without vadmin knowing it was left
\* behind by an authentication that did not succeed.
LeaksAreRefusals ==
    Cardinality({f \in Fds \ {sock} : owner[f] = "cli"}) <= refused

\* Once varnishd is up and reachable, at most this many commands in a row
\* are answered "Varnishd disconnected".
RecoversInThree == fails <= 3

\* While varnishd stays up, vadmin keeps getting back to a live connection,
\* unless the agent's process is gone.
Reconnects == <>[](vd.up /\ shm) => []<>((state = 1 /\ peer = "live") \/ ~Alive)

\* Comment of cli_write: failing writes are no big issue in vadmin_run,
\* which evaluates the return value.
SurvivesDisconnect == died # "sigpipe"
=============================================================================
