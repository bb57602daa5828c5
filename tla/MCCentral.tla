----------------------------- MODULE MCCentral -----------------------------
(***************************************************************************)
(* An instance of Central for TLC: two flows have one receiver and         *)
(* different senders, and one goes from the first sender to another        *)
(* receiver.                                                               *)
(***************************************************************************)
EXTENDS Central

ThreeSrc == <<"a", "b", "a">>
ThreeDst == <<"c", "c", "d">>
ThreeSizes == <<2, 1, 1>>
ThreeSizesInBytes == <<4, 2, 3>>

=============================================================================
