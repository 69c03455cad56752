----------------------------- MODULE MCIpcTurns -----------------------------
(***************************************************************************)
(* MCIpc with a history variable that counts, for every handle with a      *)
(* command waiting, the commands of each other handle served before it.    *)
(***************************************************************************)
EXTENDS MCIpc

VARIABLE overtaken   \* overtaken[h][g]: commands of g begun while h waits

TInit == Init /\ overtaken = [h \in Handles |-> [g \in Handles |-> 0]]

Waiting(h) == req[h] # <<>> /\ ~Serving(h)

TNext ==
    /\ Next
    /\ overtaken' = [h \in Handles |-> [g \in Handles |->
          IF ~Waiting(h)' \/ Provider[g] # Provider[h] THEN 0
          ELSE IF ~Serving(g) /\ Serving(g)' THEN overtaken[h][g] + 1
          ELSE overtaken[h][g]]]

TSpec == TInit /\ [][TNext]_<<vars, overtaken>> /\ Fairness

\* ipc_loop polls once for all its listeners and serves all that were ready
\* before it polls again, so that no consumer, however busy and however early
\* in the list, is served more than twice while another one waits.
ServedInTurn ==
    \A h, g \in Handles : Waiting(h) => overtaken[h][g] <= 2
=============================================================================
