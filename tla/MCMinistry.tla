------------------------------ MODULE MCMinistry ------------------------------
(* Two members of the study group and an administrator, two requests at once. *)
EXTENDS Ministry, TLC

Interchangeable == Permutations(Jobs)
=============================================================================
