------------------------------ MODULE MCPosting ------------------------------
(* Instances of Posting for TLC. *)
EXTENDS Posting, TLC

CONSTANTS q1, q2, q3, fs

Symmetric == Permutations(Requests)
=============================================================================
