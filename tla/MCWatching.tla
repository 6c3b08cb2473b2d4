----------------------------- MODULE MCWatching -----------------------------
(* Instances of Watching for TLC. *)
EXTENDS Watching, TLC

CONSTANTS file, list, field, panel

\* A list watches the table, a field watches a row, a panel that is added to
\* the form later watches the table.
Watches == [c \in Controls |-> IF c = field THEN CHOOSE r \in Rows : TRUE ELSE Table]
=============================================================================
