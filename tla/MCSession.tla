----------------------------- MODULE MCSession -----------------------------
(* Instances of Session for TLC. *)
EXTENDS Session, TLC

CONSTANTS b1, b2, r1, r2, r3, t1, t2, t3, t4, ka, kb

Symmetric == Permutations(Browsers) \cup Permutations(Tokens) \cup Permutations(Requests)
=============================================================================
