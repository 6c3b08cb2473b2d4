--------------------------- MODULE MCSelectTable ---------------------------
(* Instances of SelectTable for TLC. *)
EXTENDS SelectTable

CONSTANTS a, b, c, d

\* A header without id, two rows of which one is larger than the view, a "nosel"
\* row with an id, and a row that keys cannot reach from above.
HeadedIds == <<None, a, b, c, d>>
Edges == [r \in 0..5 |-> IF r = 0 THEN 0 ELSE <<1, 3, 7, 8, 9>>[r]]

\* What SelectionAgrees needs.
ASSUME TableAssumption == HeaderIsNoSel
=============================================================================
