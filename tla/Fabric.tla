------------------------------- MODULE Fabric -------------------------------
(***************************************************************************)
(* The data plane as the arbiters see it: who sits where, and the six      *)
(* links a schedule (class SCHD) uses.  Every data packet takes the six    *)
(* hops of HeirScheduleTopology::get_next_hop, even within a pod or a      *)
(* rack.                                                                   *)
(***************************************************************************)
EXTENDS Integers

CONSTANTS
  LA,         \* local arbiters, one per pod
  Host, Tor, Agg, Core,
  PodOf,      \* [Host -> LA]: id / hosts_per_pod
  TorOf,      \* [Host -> Tor]: id / (k/2)
  AggsOf,     \* [LA -> SUBSET Agg]: the k/2 aggregation switches of a pod
  CoreOf,     \* [Agg \X Agg -> Core]: src_dst_agg_to_core_map
  None        \* a field or table entry not yet written

ASSUME TopologyAssumption ==
  /\ PodOf \in [Host -> LA]
  /\ TorOf \in [Host -> Tor]
  /\ AggsOf \in [LA -> SUBSET Agg]
  /\ CoreOf \in [Agg \X Agg -> Core]
  /\ None \notin Agg

Schedule == [src : Host, dst : Host, slot : Nat, src_agg : Agg,
             dst_agg : Agg \union {None}, core : Core]

\* The queues a schedule's packets pass, by location (queue.h).
HostToTor(g) == g.src
TorToAgg(g)  == <<TorOf[g.src], g.src_agg>>
AggToCore(g) == <<g.src_agg, g.core>>
CoreToAgg(g) == <<g.core, g.dst_agg>>
AggToTor(g)  == <<g.dst_agg, TorOf[g.dst]>>
TorToHost(g) == g.dst

\* Two schedules meet on a link in the same slot.
Collide(g, h) ==
  /\ g.slot = h.slot
  /\ \/ HostToTor(g) = HostToTor(h) \/ TorToAgg(g) = TorToAgg(h)
     \/ AggToCore(g) = AggToCore(h) \/ CoreToAgg(g) = CoreToAgg(h)
     \/ AggToTor(g) = AggToTor(h)   \/ TorToHost(g) = TorToHost(h)

=============================================================================
