-------------------------------- MODULE Ipc --------------------------------
(***************************************************************************)
(* The agent's inter-plugin calls (src/ipc.c, include/ipc.h).              *)
(*                                                                         *)
(* Every plugin thread that offers a callback owns a list of listeners;    *)
(* ipc_register adds one end of a socketpair to the list and hands the     *)
(* other end, the handle, to the consumer.  ipc_run writes a header (the   *)
(* length) and the command to the handle and reads one reply, for at most  *)
(* five seconds.  The provider polls its listeners and serves the ready    *)
(* ones in registration order.                                             *)
(*                                                                         *)
(* All state is per handle: a handle has one consumer thread (User) and    *)
(* one provider thread (Provider), and a thread does one thing at a time.  *)
(* A command is its number on the handle; its text is Sizes units long, a  *)
(* unit being what the socket takes in one go.                             *)
(***************************************************************************)
EXTENDS Naturals, Sequences

CONSTANTS
    Handles,     \* the socketpairs made by ipc_register
    User,        \* User[h]: the thread that calls ipc_run on h
    Provider,    \* Provider[h]: the plugin whose ipc_loop listens on h
    Index,       \* Index[h]: position of h in the provider's listeners
    Slow,        \* handles whose answers can take longer than 5 seconds
    Sizes,       \* lengths of commands, in units
    ReqCap,      \* units the socket holds towards the provider
    RepCap,      \* replies the socket holds towards the consumer
    MaxCalls     \* bound on the number of calls per handle

ASSUME IndexAssumption == Index \in [Handles -> Nat]
ASSUME SlowAssumption  == Slow \subseteq Handles
ASSUME SizesAssumption == Sizes \subseteq Nat
ASSUME CapAssumption   == ReqCap \in Nat \ {0} /\ RepCap \in Nat \ {0}

VARIABLES
    pc,        \* pc[h]: where the consumer is in ipc_send
    put,       \* put[h]: number of the consumer's command, units left to write
    req,       \* req[h]: units written and not read by the provider
    phase,     \* phase[h]: what ipc_loop is doing with the listener
    got,       \* got[h]: the command ipc_cmd read last, units left to read
    rep,       \* rep[h]: replies written and not read, by command number
    read,      \* read[h]: number of replies the consumer has read
    timeouts,  \* timeouts[h]: number of calls that gave up after 5 seconds
    last       \* last[h]: the last call that returned and what it answers

vars == <<pc, put, req, phase, got, rep, read, timeouts, last>>

Unit     == [hdr : BOOLEAN, n : Nat, left : Nat]
Position == [n : Nat, left : Nat]
TimedOut == 0         \* the answer of a call that read no reply

TypeOK ==
    /\ pc \in [Handles -> {"idle", "header", "data", "wait"}]
    /\ put \in [Handles -> Position]
    /\ req \in [Handles -> Seq(Unit)]
    /\ phase \in [Handles -> {"none", "ready", "data", "cb", "reply"}]
    /\ got \in [Handles -> Position]
    /\ rep \in [Handles -> Seq(Nat)]
    /\ read \in [Handles -> Nat]
    /\ timeouts \in [Handles -> Nat]
    /\ last \in [Handles -> [call : Nat, answer : Nat]]

Init ==
    /\ pc = [h \in Handles |-> "idle"]
    /\ put = [h \in Handles |-> [n |-> 0, left |-> 0]]
    /\ req = [h \in Handles |-> <<>>]
    /\ phase = [h \in Handles |-> "none"]
    /\ got = [h \in Handles |-> [n |-> 0, left |-> 0]]
    /\ rep = [h \in Handles |-> <<>>]
    /\ read = [h \in Handles |-> 0]
    /\ timeouts = [h \in Handles |-> 0]
    /\ last = [h \in Handles |-> [call |-> 0, answer |-> 0]]

\* ipc_cmd has started on this listener and not finished.
Serving(h) == phase[h] \in {"data", "cb", "reply"}

-----------------------------------------------------------------------------
(* Faulty variants of the steps below.  No specification uses them: each is *)
(* a slip that ipc.c could contain and that a property has to notice.       *)

\* ipc_write goes on for one unit too many.
WriteDataLong(h) ==
    /\ pc[h] = "data"
    /\ Len(req[h]) < ReqCap
    /\ put' = [put EXCEPT ![h].left = @ - 1]
    /\ req' = [req EXCEPT ![h] =
                 Append(@, [hdr |-> FALSE, n |-> put[h].n, left |-> put[h].left - 1])]
    /\ pc' = [pc EXCEPT ![h] = IF put[h].left = 0 THEN "wait" ELSE "data"]
    /\ UNCHANGED <<phase, got, rep, read, timeouts, last>>

\* poll() followed by serving the first ready listener only.
PollFirst(p) ==
    /\ \A h \in Handles : Provider[h] = p => phase[h] = "none"
    /\ \E h \in Handles :
          /\ Provider[h] = p /\ req[h] # <<>>
          /\ \A g \in Handles : Provider[g] = p /\ req[g] # <<>> => Index[h] <= Index[g]
          /\ phase' = [phase EXCEPT ![h] = "ready"]
    /\ UNCHANGED <<pc, put, req, got, rep, read, timeouts, last>>

\* A do-while read loop, which waits for data after a header of length 0.
ReadHeaderDoWhile(h) ==
    /\ phase[h] = "ready"
    /\ \A g \in Handles : Provider[g] = Provider[h] =>
          ~Serving(g) /\ (phase[g] = "ready" => Index[h] <= Index[g])
    /\ req[h] # <<>>
    /\ got' = [got EXCEPT ![h] = [n |-> Head(req[h]).n, left |-> Head(req[h]).left]]
    /\ req' = [req EXCEPT ![h] = Tail(@)]
    /\ phase' = [phase EXCEPT ![h] = "data"]
    /\ UNCHANGED <<pc, put, rep, read, timeouts, last>>

\* The read loop stops one unit early.
ReadDataShort(h) ==
    /\ phase[h] = "data"
    /\ req[h] # <<>>
    /\ got' = [got EXCEPT ![h] = [n |-> Head(req[h]).n, left |-> @.left - 1]]
    /\ req' = [req EXCEPT ![h] = Tail(@)]
    /\ phase' = [phase EXCEPT ![h] = IF got[h].left <= 2 THEN "cb" ELSE "data"]
    /\ UNCHANGED <<pc, put, rep, read, timeouts, last>>

\* The reply is written twice.
WriteResultTwice(h) ==
    /\ phase[h] = "reply"
    /\ Len(rep[h]) < RepCap
    /\ rep' = [rep EXCEPT ![h] = @ \o <<got[h].n, got[h].n>>]
    /\ phase' = [phase EXCEPT ![h] = "none"]
    /\ UNCHANGED <<pc, put, req, got, read, timeouts, last>>

\* A reply that does not fit is dropped instead of waited for.
WriteResultDrop(h) ==
    /\ phase[h] = "reply"
    /\ rep' = [rep EXCEPT ![h] = IF Len(@) < RepCap THEN Append(@, got[h].n) ELSE @]
    /\ phase' = [phase EXCEPT ![h] = "none"]
    /\ UNCHANGED <<pc, put, req, got, read, timeouts, last>>

-----------------------------------------------------------------------------
(* The consumer: ipc_run, ipc_send, ipc_write.                             *)

\* The thread t is inside ipc_send on one of its handles.
Calling(t) == \E g \in Handles : User[g] = t /\ pc[g] # "idle"

\* A plugin thread calls other plugins only from within its own callback; a
\* thread that provides nothing (http, vping, vstat's timer) calls at will.
MayCall(t) ==
    /\ ~Calling(t)
    /\ (\E g \in Handles : Provider[g] = t) =>
          \E g \in Handles : Provider[g] = t /\ phase[g] = "cb"

\* A thread enters ipc_run with a command of k units.
Call(h) ==
    /\ MayCall(User[h])
    /\ put[h].n < MaxCalls
    /\ \E k \in Sizes : put' = [put EXCEPT ![h] = [n |-> @.n + 1, left |-> k]]
    /\ pc' = [pc EXCEPT ![h] = "header"]
    /\ UNCHANGED <<req, phase, got, rep, read, timeouts, last>>

\* The first ipc_write of ipc_send: the length.  It blocks while the socket
\* is full.  A command of length 0 has nothing more to write.
WriteHeader(h) ==
    /\ pc[h] = "header"
    /\ Len(req[h]) < ReqCap
    /\ req' = [req EXCEPT ![h] =
                 Append(@, [hdr |-> TRUE, n |-> put[h].n, left |-> put[h].left])]
    /\ pc' = [pc EXCEPT ![h] = IF put[h].left = 0 THEN "wait" ELSE "data"]
    /\ UNCHANGED <<put, phase, got, rep, read, timeouts, last>>

\* The second ipc_write: the kernel takes the command a unit at a time, and
\* the write returns when it has taken all of it.
WriteData(h) ==
    /\ pc[h] = "data"
    /\ Len(req[h]) < ReqCap
    /\ put' = [put EXCEPT ![h].left = @ - 1]
    /\ req' = [req EXCEPT ![h] =
                 Append(@, [hdr |-> FALSE, n |-> put[h].n, left |-> put[h].left - 1])]
    /\ pc' = [pc EXCEPT ![h] = IF put[h].left = 1 THEN "wait" ELSE "data"]
    /\ UNCHANGED <<phase, got, rep, read, timeouts, last>>

\* VCLI_ReadResult returns the reply at the head of the socket.
ReadResult(h) ==
    /\ pc[h] = "wait"
    /\ rep[h] # <<>>
    /\ rep' = [rep EXCEPT ![h] = Tail(@)]
    /\ read' = [read EXCEPT ![h] = @ + 1]
    /\ last' = [last EXCEPT ![h] = [call |-> put[h].n, answer |-> Head(rep[h])]]
    /\ pc' = [pc EXCEPT ![h] = "idle"]
    /\ UNCHANGED <<put, req, phase, got, timeouts>>

\* VCLI_ReadResult saw nothing for 5.0 seconds: status 400, and ipc_send
\* returns, leaving the reply of this command to come on the same socket.
Timeout(h) ==
    /\ pc[h] = "wait"
    /\ h \in Slow
    /\ rep[h] = <<>>
    /\ timeouts' = [timeouts EXCEPT ![h] = @ + 1]
    /\ last' = [last EXCEPT ![h] = [call |-> put[h].n, answer |-> TimedOut]]
    /\ pc' = [pc EXCEPT ![h] = "idle"]
    /\ UNCHANGED <<put, req, phase, got, rep, read>>

-----------------------------------------------------------------------------
(* The provider: ipc_loop, ipc_cmd.                                        *)

Listeners(p) == {h \in Handles : Provider[h] = p}

\* poll() returns: revents is set for every listener with something to read.
\* ipc_loop polls again only when it has walked the whole list.
Poll(p) ==
    /\ \A h \in Listeners(p) : phase[h] = "none"
    /\ \E h \in Listeners(p) : req[h] # <<>>
    /\ phase' = [h \in Handles |->
                   IF h \in Listeners(p) /\ req[h] # <<>> THEN "ready" ELSE phase[h]]
    /\ UNCHANGED <<pc, put, req, got, rep, read, timeouts, last>>

\* h is where the for-loop over the listeners stands: no listener of the
\* provider is being served and no earlier one has its revents set.
NextListener(h) ==
    \A g \in Listeners(Provider[h]) :
        ~Serving(g) /\ (phase[g] = "ready" => Index[h] <= Index[g])

\* ipc_cmd reads the ten bytes of the header and learns the length.
ReadHeader(h) ==
    /\ phase[h] = "ready"
    /\ NextListener(h)
    /\ req[h] # <<>>
    /\ got' = [got EXCEPT ![h] = [n |-> Head(req[h]).n, left |-> Head(req[h]).left]]
    /\ req' = [req EXCEPT ![h] = Tail(@)]
    /\ phase' = [phase EXCEPT ![h] = IF Head(req[h]).left = 0 THEN "cb" ELSE "data"]
    /\ UNCHANGED <<pc, put, rep, read, timeouts, last>>

\* The read loop of ipc_cmd: what arrives next is data until the length is
\* reached.  read() blocks while the consumer has not written it.
ReadData(h) ==
    /\ phase[h] = "data"
    /\ req[h] # <<>>
    /\ got' = [got EXCEPT ![h] = [n |-> Head(req[h]).n, left |-> @.left - 1]]
    /\ req' = [req EXCEPT ![h] = Tail(@)]
    /\ phase' = [phase EXCEPT ![h] = IF got[h].left = 1 THEN "cb" ELSE "data"]
    /\ UNCHANGED <<pc, put, rep, read, timeouts, last>>

\* ipc->cb returns; the calls it made of other plugins have returned too.
Callback(h) ==
    /\ phase[h] = "cb"
    /\ ~Calling(Provider[h])
    /\ phase' = [phase EXCEPT ![h] = "reply"]
    /\ UNCHANGED <<pc, put, req, got, rep, read, timeouts, last>>

\* VCLI_WriteResult: a blocking write with no time limit.
WriteResult(h) ==
    /\ phase[h] = "reply"
    /\ Len(rep[h]) < RepCap
    /\ rep' = [rep EXCEPT ![h] = Append(@, got[h].n)]
    /\ phase' = [phase EXCEPT ![h] = "none"]
    /\ UNCHANGED <<pc, put, req, got, read, timeouts, last>>

-----------------------------------------------------------------------------
Consumer(h)   == Call(h) \/ WriteHeader(h) \/ WriteData(h) \/ ReadResult(h) \/ Timeout(h)
ProviderOf(h) == ReadHeader(h) \/ ReadData(h) \/ Callback(h) \/ WriteResult(h)
Plugins       == {Provider[h] : h \in Handles}

Next == \/ \E h \in Handles : Consumer(h) \/ ProviderOf(h)
        \/ \E p \in Plugins : Poll(p)

Spec == Init /\ [][Next]_vars

\* A thread that can take a step of ipc_send or ipc_loop takes it, callbacks
\* return; nobody is obliged to make a call, or to be slow.
Fairness ==
    /\ \A h \in Handles : WF_vars(WriteHeader(h) \/ WriteData(h) \/ ReadResult(h))
    /\ \A h \in Handles : WF_vars(ProviderOf(h))
    /\ \A p \in Plugins : WF_vars(Poll(p))

FairSpec == Spec /\ Fairness

-----------------------------------------------------------------------------
(* Properties.                                                             *)

\* The byte stream never loses its framing: what ipc_cmd takes for a header
\* is a header, and what it takes for data is data of the same command, so
\* the callback gets exactly one consumer command (the asserts of ipc.c
\* 199-213 cannot fail), however many calls were given up.
FramesIntact ==
    \A h \in Handles : req[h] # <<>> =>
        /\ phase[h] = "ready" => Head(req[h]).hdr
        /\ phase[h] = "data" => ~Head(req[h]).hdr /\ Head(req[h]).n = got[h].n

\* What ipc_run promises, where ipc.h says "the reply": an answer is late by exactly the number of
\* calls given up on that handle so far.  No reply is lost, duplicated or
\* reordered, and without timeouts every answer is the caller's own.
AnswerLag ==
    \A h \in Handles :
        last[h].answer # TimedOut =>
            last[h].call = last[h].answer + timeouts[h]

\* A provider is blocked writing a reply only on a handle where as many
\* calls were given up as the socket holds replies: until then it is always
\* free to serve its other consumers.
ReplyNeverBlocks ==
    \A h \in Handles :
        timeouts[h] < RepCap => ~(phase[h] = "reply" /\ Len(rep[h]) >= RepCap)

\* A call that was started returns, whoever else is calling the provider and
\* whatever the provider calls meanwhile.
EveryCallReturns ==
    \A h \in Handles : pc[h] # "idle" ~> pc[h] = "idle"

\* Given-up calls can wedge a handle for good (both sides blocked in write),
\* but not before the socket towards the consumer is full of late replies.
CallReturnsUnlessBacklogged ==
    \A h \in Handles : pc[h] # "idle" ~> pc[h] = "idle" \/ timeouts[h] >= RepCap

-----------------------------------------------------------------------------
(* The inductive invariant behind FramesIntact, AnswerLag and               *)
(* ReplyNeverBlocks: it follows a handle's commands along the stream, from  *)
(* the writer through the socket to the reader and back as replies.         *)

\* Unit b comes right after position a of the stream.
Follows(a, b) ==
    IF a.left > 0
    THEN ~b.hdr /\ b.n = a.n /\ b.left = a.left - 1
    ELSE b.hdr /\ b.n = a.n + 1

\* Where the units written so far end.  A command whose header is not out
\* yet is not in the stream.
Written(h) ==
    IF pc[h] = "header" THEN [n |-> put[h].n - 1, left |-> 0] ELSE put[h]

ReaderInv(h) ==
    /\ phase[h] = "data" <=> got[h].left > 0
    /\ got[h].n <= Written(h).n

WriterInv(h) ==
    /\ pc[h] = "header" => put[h].n > 0
    /\ pc[h] = "data" => put[h].left > 0
    /\ pc[h] \in {"wait", "idle"} => put[h].left = 0

\* The units of s lead from one position of the stream to another.
InOrder(s, from, to) ==
    /\ s = <<>> => from = to
    /\ s # <<>> => /\ Follows(from, s[1])
                   /\ to = [n |-> s[Len(s)].n, left |-> s[Len(s)].left]
    /\ \A i \in 1 .. Len(s) : s[i].n <= to.n
    /\ \A i \in 1 .. Len(s) - 1 : Follows(s[i], s[i + 1])

\* The units in the socket lead from the reader's position to the writer's.
StreamInv(h) == InOrder(req[h], got[h], Written(h))

\* The replies in the socket are the answers nobody has read yet, in order.
ReplyInv(h) ==
    /\ got[h].n = read[h] + Len(rep[h]) + (IF Serving(h) THEN 1 ELSE 0)
    /\ \A i \in 1 .. Len(rep[h]) : rep[h][i] = read[h] + i

\* Every call made has read a reply, given up, or is in progress.
LagInv(h) ==
    /\ put[h].n = read[h] + timeouts[h] + (IF pc[h] = "idle" THEN 0 ELSE 1)
    /\ last[h].answer # TimedOut => last[h].call = last[h].answer + timeouts[h]

HandleInv(h) ==
    ReaderInv(h) /\ WriterInv(h) /\ StreamInv(h) /\ ReplyInv(h) /\ LagInv(h)

\* The stream is in order at both ends and in between, on every handle.
StreamsInOrder == TypeOK /\ \A h \in Handles : HandleInv(h)

-----------------------------------------------------------------------------
(* Ipc implements IpcChannel.                                              *)

\* A command counts as executed when its callback has returned.
Executed(h) == IF phase[h] \in {"data", "cb"} THEN got[h].n - 1 ELSE got[h].n

Channel == INSTANCE IpcChannel WITH
    calls    <- [h \in Handles |-> put[h].n],
    executed <- [h \in Handles |-> Executed(h)],
    answered <- read,
    waiting  <- [h \in Handles |-> pc[h] # "idle"],
    last     <- last

\* Every step of the sockets, the poll loop and the callbacks is a step of
\* the abstract channel or leaves it unchanged: a command is executed once
\* and in order, also when its caller gave up, and answers are returned in
\* the order of the commands.
ImplementsChannel == Channel!CSpec
=============================================================================
