----------------------------- MODULE MCLruCache -----------------------------
(* Instances of LruCache for TLC. *)
EXTENDS LruCache, TLC

CONSTANTS k1, k2, k3, p1, p2

Symmetric == Permutations(Keys) \cup Permutations(Procs)
=============================================================================
