------------------------------ MODULE MCAssets ------------------------------
(* Instances of Assets for TLC. *)
EXTENDS Assets, TLC

CONSTANTS plain, old, new

\* A plain client accepts no encoding, an old browser gzip only, a new one both.
Accepts == [b \in Browsers |-> CASE b = plain -> {} [] b = old -> {"gz"} [] OTHER -> {"gz", "br"}]
AcceptsNothing == [b \in Browsers |-> {}]
AllLayouts == (SUBSET Variants) \ {{}}
Compressed == {{"br"}, {"gz"}}
NoPath == <<>>
OneDir == <<"assets">>
Proxy == <<"proxy">>
Js == <<"js">>
=============================================================================
