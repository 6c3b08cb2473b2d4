----------------------------- MODULE MCResponse -----------------------------
(* Instances of Response for TLC. *)
EXTENDS Response, TLC

CONSTANTS q1, q2, q3, b1, b2, b3

Symmetric == Permutations(Requests) \cup Permutations(Buffers)
=============================================================================
