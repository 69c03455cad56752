----------------------------- MODULE IpcChannel -----------------------------
(***************************************************************************)
(* What ipc_run promises its caller, without sockets, polling or threads.  *)
(*                                                                         *)
(* A handle is a queue of commands.  The provider executes them in order,  *)
(* each once; a waiting call returns either the oldest answer nobody has   *)
(* read yet, or, on a handle that can be slow, nothing.  A call that       *)
(* returns nothing is executed all the same.                               *)
(***************************************************************************)
EXTENDS Naturals

CONSTANTS Handles, Slow, MaxCalls

VARIABLES
    calls,      \* calls[h]: calls made
    executed,   \* executed[h]: commands the provider has executed
    answered,   \* answered[h]: answers read by the consumer
    waiting,    \* waiting[h]: a call is in progress
    last        \* last[h]: the last call that returned and what it answers

cvars == <<calls, executed, answered, waiting, last>>

CInit ==
    /\ calls = [h \in Handles |-> 0]
    /\ executed = [h \in Handles |-> 0]
    /\ answered = [h \in Handles |-> 0]
    /\ waiting = [h \in Handles |-> FALSE]
    /\ last = [h \in Handles |-> [call |-> 0, answer |-> 0]]

CCall(h) ==
    /\ ~waiting[h]
    /\ calls[h] < MaxCalls
    /\ calls' = [calls EXCEPT ![h] = @ + 1]
    /\ waiting' = [waiting EXCEPT ![h] = TRUE]
    /\ UNCHANGED <<executed, answered, last>>

CExecute(h) ==
    /\ executed[h] < calls[h]
    /\ executed' = [executed EXCEPT ![h] = @ + 1]
    /\ UNCHANGED <<calls, answered, waiting, last>>

CReturn(h) ==
    /\ waiting[h]
    /\ answered[h] < executed[h]
    /\ answered' = [answered EXCEPT ![h] = @ + 1]
    /\ last' = [last EXCEPT ![h] = [call |-> calls[h], answer |-> answered[h] + 1]]
    /\ waiting' = [waiting EXCEPT ![h] = FALSE]
    /\ UNCHANGED <<calls, executed>>

CGiveUp(h) ==
    /\ waiting[h]
    /\ h \in Slow
    /\ last' = [last EXCEPT ![h] = [call |-> calls[h], answer |-> 0]]
    /\ waiting' = [waiting EXCEPT ![h] = FALSE]
    /\ UNCHANGED <<calls, executed, answered>>

CNext == \E h \in Handles : CCall(h) \/ CExecute(h) \/ CReturn(h) \/ CGiveUp(h)

CSpec == CInit /\ [][CNext]_cvars
=============================================================================
