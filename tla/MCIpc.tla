------------------------------- MODULE MCIpc -------------------------------
(***************************************************************************)
(* Model checking Ipc on a piece of the agent: the HTTP thread and vping   *)
(* both call vadmin, and vadmin's callback calls the logger.               *)
(***************************************************************************)
EXTENDS Ipc

MCUser     == [hv |-> "http", pv |-> "vping", vl |-> "vadmin"]
MCProvider == [hv |-> "vadmin", pv |-> "vadmin", vl |-> "logger"]
MCIndex    == [hv |-> 2, pv |-> 1, vl |-> 1]
MCHandles  == {"hv", "pv", "vl"}

\* One consumer of vadmin, for runs with many calls on one handle.
OneUser     == [hv |-> "http"]
OneProvider == [hv |-> "vadmin"]
OneIndex    == [hv |-> 1]
OneHandle   == {"hv"}
=============================================================================
