------------------------------ MODULE PacketBag ------------------------------
(***************************************************************************)
(* Bags of packets: functions of a packet to the number of its copies.     *)
(* They are those of module Bags, which the proof system cannot            *)
(* instantiate, nor a module that extends it.                              *)
(***************************************************************************)
EXTENDS Integers

IsBag(n) == n \in [DOMAIN n -> Nat \ {0}]

NoPackets == [m \in {} |-> 1]

Single(m) == [p \in {m} |-> 1]

Copies(n, m) == IF m \in DOMAIN n THEN n[m] ELSE 0

With(n, S) == [m \in DOMAIN n \union S |-> Copies(n, m) + IF m \in S THEN 1 ELSE 0]

Less(n, m) == [p \in {q \in DOMAIN n : q # m \/ n[q] > 1} |-> n[p] - IF p = m THEN 1 ELSE 0]

PartOf(n, all) == IsBag(n) /\ \A m \in DOMAIN n : n[m] <= Copies(all, m)

\* Of the packets of all, those of which copies are missing in n.
Missing(n, all) == {m \in DOMAIN all : Copies(n, m) < all[m]}

=============================================================================
