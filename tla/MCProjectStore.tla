---------------------------- MODULE MCProjectStore ----------------------------
(* Instances of ProjectStore for TLC. *)
EXTENDS ProjectStore

CONSTANTS s1, s2, c1, c2

\* c2 builds on c1.
Chain == [c \in {c1, c2} |-> IF c = c2 THEN {c1} ELSE {}]
\* Two changes made without knowing of each other.
Apart == [c \in {c1, c2} |-> {}]
=============================================================================
