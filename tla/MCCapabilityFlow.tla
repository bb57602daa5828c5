-------------------------- MODULE MCCapabilityFlow --------------------------
(***************************************************************************)
(* A short flow that starts with capabilities and a longer one, between    *)
(* the same two hosts.                                                     *)
(***************************************************************************)
EXTENDS CapabilityFlow

TwoSrc == <<"a", "a">>
TwoDst == <<"b", "b">>
TwoSizes == <<1, 3>>
=============================================================================
