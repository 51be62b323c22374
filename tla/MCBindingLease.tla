--------------------------- MODULE MCBindingLease ---------------------------
(* Two administrators move a chat between two groups while the worker sends. *)
EXTENDS BindingLease

CONSTANTS g1, g2, t1, a1, a2

MCGroups  == {g1, g2}
MCTargets == {t1}
MCAdmins  == {a1, a2}
=============================================================================
