------------------------------ MODULE PidLock -------------------------------
(***************************************************************************)
(* What a pid file promises: one agent at a time holds it.                 *)
(***************************************************************************)
CONSTANT Agents
VARIABLE holders

LInit == holders = {}
Acquire(a) == holders = {} /\ holders' = {a}
Release == holders # {} /\ holders' = {}
LNext == Release \/ \E a \in Agents : Acquire(a)
LSpec == LInit /\ [][LNext]_holders
=============================================================================
