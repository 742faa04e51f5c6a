------------------------------ MODULE DurableLog ------------------------------
(***************************************************************************)
(* What the server promises about one project: a set of changes that only  *)
(* grows, each stored after everything it builds on, and changes that are  *)
(* announced to the peers once they are stored and never before.           *)
(***************************************************************************)
CONSTANTS
  Change,
  Needs     \* the changes a change builds on directly

VARIABLES stored, heard

vars == <<stored, heard>>

Init == stored = {} /\ heard = {}

Store(c) ==
  /\ Needs[c] \subseteq stored
  /\ stored' = stored \cup {c}
  /\ UNCHANGED heard

Announce(c) ==
  /\ c \in stored
  /\ heard' = heard \cup {c}
  /\ UNCHANGED stored

Next == \E c \in Change : Store(c) \/ Announce(c)

Spec == Init /\ [][Next]_vars
=============================================================================
