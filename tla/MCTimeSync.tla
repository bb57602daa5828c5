----------------------------- MODULE MCTimeSync -----------------------------
(***************************************************************************)
(* One pod with two hosts.                                                 *)
(***************************************************************************)
EXTENDS TimeSync

Pod == [l \in {"la"} |-> {"h1", "h2"}]
SomeBiases == {-1, 2}
=============================================================================
