----------------------------- MODULE MCHostData -----------------------------
(***************************************************************************)
(* Two flows to one host and one to another; slots of two packets of two   *)
(* bytes, so that the first flow needs two slots and shares its second     *)
(* with the flow behind it.                                                *)
(***************************************************************************)
EXTENDS HostData

Flows == {"f1", "f2", "f3"}
Sizes == [f \in Flows |-> CASE f = "f1" -> 5 [] f = "f2" -> 2 [] f = "f3" -> 1]
Destinations == [f \in Flows |-> IF f = "f3" THEN "h2" ELSE "h1"]
=============================================================================
