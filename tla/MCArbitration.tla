--------------------------- MODULE MCArbitration ---------------------------
(***************************************************************************)
(* Small fabrics for the model checker.  Hosts are numbered as in          *)
(* HeirScheduleTopology, pod by pod and rack by rack.                      *)
(***************************************************************************)
EXTENDS Arbitration, TLC

\* Two pods of two hosts, each host in a rack of its own, one aggregation switch
\* per pod and one core: all the pairs of two pods meet at the core.
Pods == {"la1", "la2"}
PodOf4 == [h \in 1 .. 4 |-> IF h <= 2 THEN "la1" ELSE "la2"]
OwnRack == [h \in 1 .. 4 |-> h]
OneAggPerPod == [l \in Pods |-> IF l = "la1" THEN {"a1"} ELSE {"a2"}]
OneCore == [ab \in {"a1", "a2"} \X {"a1", "a2"} |-> "c1"]

CorePairs == {<<1, 3>>, <<2, 4>>}

\* Two pods with two aggregation switches, as with k = 4: a core for each two
\* switches of different pods, and for a switch with itself the last core it is
\* linked to (topology.cpp:509-518).  The hosts of the second pod share a rack.
\* The pairs compete for uplinks of a rack (3 and 4), for a host (2), for a link
\* out of core c1 (b2 to a1, a1 to a1), and one stays within its pod.
MixedRacks == [h \in 1 .. 4 |-> IF h <= 2 THEN h ELSE 3]
TwoAggsPerPod == [l \in Pods |-> IF l = "la1" THEN {"a1", "a2"} ELSE {"b1", "b2"}]
FourAggs == {"a1", "a2", "b1", "b2"}
CrossCore ==
  [ab \in FourAggs \X FourAggs |->
     CASE {ab[1], ab[2]} = {"a1", "b1"} -> "c0"
       [] {ab[1], ab[2]} \in {{"a1", "b2"}, {"a1"}} -> "c1"
       [] {ab[1], ab[2]} \in {{"a2", "b1"}, {"b1"}} -> "c2"
       [] {ab[1], ab[2]} \in {{"a2", "b2"}, {"a2"}, {"b2"}} -> "c3"
       [] OTHER -> "c0"]
MixedPairs == {<<3, 1>>, <<4, 2>>, <<1, 2>>}

\* Aggregation switches 0 and 20 of the k = 10 network, in its first and last pod;
\* they meet at core 0 (topology.cpp:481).
EndAggs == {0, 20}
AggOfEnd == [l \in Pods |-> IF l = "la1" THEN {0} ELSE {20}]
EndCore == [ab \in EndAggs \X EndAggs |-> 0]

\* The tables of the global arbiter are documented as T * k^2/4 * k matrices whose
\* last index is a port of the core switch (structure.md:65-66), so it is less
\* than k; the code (node.cpp:987-989, event.cpp:631-632) indexes them by the number
\* of the aggregation switch in the network.
PortsPerCore == 10
CoreColumnIsPort ==
  \A bit \in CoreOccupationIn \union CoreOccupationOut : bit[3] < PortsPerCore
=============================================================================
