------------------------------- MODULE MCHub -------------------------------
(* Instances of Hub for TLC. *)
EXTENDS Hub, TLC

CONSTANTS a, b, c1, c2, c3

OneChannel == {<<a>>}
TwoChannels == {<<a, b>>, <<b>>}
Symmetric == Permutations(Conns) \cup Permutations(Ids)
=============================================================================
