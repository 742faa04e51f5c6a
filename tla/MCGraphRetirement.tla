-------------------------- MODULE MCGraphRetirement --------------------------
(* Instances of GraphRetirement for TLC. *)
EXTENDS GraphRetirement

CONSTANTS g1, g2, g3, p1, r1
=============================================================================
