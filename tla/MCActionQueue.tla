--------------------------- MODULE MCActionQueue ---------------------------
(* Instances of ActionQueue for TLC. *)
EXTENDS ActionQueue

CONSTANTS click, key, save

\* A click acts at once and causes a save, which runs last; a key acts late.
Delays == [e \in Events |-> IF e = key THEN 2 ELSE 0]
ClickSaves == [e \in Events |-> IF e = click THEN save ELSE None]
=============================================================================
