---------------------------- MODULE MCAjaxQueue ----------------------------
(* Instances of AjaxQueue for TLC. *)
EXTENDS AjaxQueue, TLC

CONSTANTS q1, q2, q3, q4, ca, cb

Symmetric == Permutations(Requests)
=============================================================================
