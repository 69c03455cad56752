------------------------------ MODULE VclFiles ------------------------------
(***************************************************************************)
(* What the persistence directory of modules/vcl.c promises, without files *)
(* and system calls: a stored VCL per name and the VCL to boot with, each  *)
(* replaced at one stroke or not at all, whatever fails or crashes.        *)
(***************************************************************************)
CONSTANTS Names, Bodies, NoFile

VARIABLES
    auto,  \* auto[n]: what <n>.auto.vcl holds
    boot   \* what boot.vcl holds

FInit == auto = [n \in Names |-> NoFile] /\ boot = NoFile

\* vcl_persist returns 0.
Store(n, b) == auto' = [auto EXCEPT ![n] = b] /\ UNCHANGED boot

\* vcl_persist_active returns 0.
Activate(n) == auto[n] # NoFile /\ boot' = auto[n] /\ UNCHANGED auto

FNext == \E n \in Names : Activate(n) \/ \E b \in Bodies : Store(n, b)

FSpec == FInit /\ [][FNext]_<<auto, boot>>
=============================================================================
