------------------------------ MODULE MCDocSync ------------------------------
(* Instances of DocSync for TLC. *)
EXTENDS DocSync

CONSTANTS t1, t2, e1
=============================================================================
