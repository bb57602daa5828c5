------------------------------ MODULE Routing ------------------------------
(***************************************************************************)
(* The way of one packet through the network: PacketQueuingEvent puts it   *)
(* in its first queue, each QueueProcessingEvent asks get_next_hop for the *)
(* next one, and PacketArrivalEvent hands it to the node p->dst when there *)
(* is none.  Timing and contention are left to LinkQueue.                  *)
(***************************************************************************)
EXTENDS FatTree

CONSTANTS
  Packet,         \* [type, src, dst, path]: path is the schedule of a data packet
  Arrived         \* no queue any more

VARIABLES
  packet,
  queue           \* the queue it is in, or Arrived

vars == <<packet, queue>>

\* The queue the sender pushes a packet to: a host has one for each plane, an
\* arbiter answers a host through the control switch of the host's rack.
FirstQueue(p) ==
  CASE p.type = "HeirScheduleData" -> Queue("HOST_TO_TOR", p.src.id, 0)
    [] p.type # "HeirScheduleData" /\ p.src.type = "HOST" ->
         Queue("HOST_TO_LCS", p.src.id, 0)
    [] p.src.type = "LOCAL_ARBITER" /\ p.dst.type = "HOST" ->
         Queue("LA_TO_LCS", p.src.id, (p.dst.id % HostsPerPod) \div Half)
    [] p.src.type = "LOCAL_ARBITER" /\ p.dst.type # "HOST" ->
         Queue("LA_TO_GCS", p.src.id, 0)
    [] p.src.type = "GLOBAL_ARBITER" -> Queue("GA_TO_GCS", 0, 0)

get_next_hop(p, q) ==
  IF p.type = "HeirScheduleData" THEN NextDataHop(p.path, q)
                                 ELSE NextControlHop(p, q)

Init == packet \in Packet /\ queue = FirstQueue(packet)

Hop ==
  /\ queue # Arrived /\ queue.location \notin LastHop
  /\ queue' = get_next_hop(packet, queue)
  /\ UNCHANGED packet

PacketArrival ==
  /\ queue # Arrived /\ queue.location \in LastHop
  /\ queue' = Arrived
  /\ UNCHANGED packet

Next == Hop \/ PacketArrival

Spec == Init /\ [][Next]_vars

(***************************************************************************)
(* Properties.                                                             *)
(***************************************************************************)

\* The fabric the arbiters book, of which this topology is an instance.
NoAgg == HostsPerPod
TorOfHost == [h \in HostId |-> RackNo(h)]
PodOfHost == [h \in HostId |-> PodNo(h)]
AggsOfPod == [l \in LaId |-> {a \in AggId : a \div Half = l}]

Booked == INSTANCE Fabric WITH
  LA <- LaId, Host <- HostId, Tor <- TorId, Agg <- AggId, Core <- CoreId,
  PodOf <- PodOfHost, TorOf <- TorOfHost, AggsOf <- AggsOfPod,
  CoreOf <- src_dst_agg_to_core_map, None <- NoAgg

\* A data packet carries a schedule the arbiters may have reserved for its two hosts:
\* aggregation switches of their pods, the same one twice within a pod, and the core
\* switch the table gives for them.
IsScheduled(p) ==
  LET g == p.path IN
  /\ p.src = Node("HOST", g.src) /\ p.dst = Node("HOST", g.dst)
  /\ g.src \in HostId /\ g.src_agg \in AggId /\ g.src_agg \div Half = PodNo(g.src)
  /\ g.dst \in HostId /\ g.dst_agg \in AggId /\ g.dst_agg \div Half = PodNo(g.dst)
  /\ PodNo(g.src) = PodNo(g.dst) => g.src_agg = g.dst_agg
  /\ g.core = src_dst_agg_to_core_map[<<g.src_agg, g.dst_agg>>]

DataIsScheduled ==
  \A p \in Packet : p.type = "HeirScheduleData" => IsScheduled(p)

\* The two wiring tables and the three maps made from them agree: for every two
\* aggregation switches a schedule can name, each port leads where the maps say.
PortsLead ==
  \A a, b \in AggId : (a \div Half = b \div Half => a = b) =>
    LET c == src_dst_agg_to_core_map[<<a, b>>] IN
    /\ AggToCore(a, agg_to_core_port[<<a, c>>]) = c
    /\ CoreToAgg(c, core_to_agg_port[<<c, b>>]) = b

At(location) == queue # Arrived /\ queue.location = location
Ends == <<queue.at, Far(queue).id>>

\* A data packet uses the six links its schedule has reserved and no other, for
\* every pair of aggregation switches a reservation can name: the port numbers
\* computed at each switch from the ids of the schedule, and the two wiring
\* tables, lead where the arbiters' tables say.
FollowsSchedule ==
  packet.type = "HeirScheduleData" =>
    LET g == packet.path IN
    /\ At("HOST_TO_TOR") => Ends = <<Booked!HostToTor(g), RackNo(g.src)>>
    /\ At("TOR_TO_AGG")  => Ends = Booked!TorToAgg(g)
    /\ At("AGG_TO_CORE") => Ends = Booked!AggToCore(g)
    /\ At("CORE_TO_AGG") => Ends = Booked!CoreToAgg(g)
    /\ At("AGG_TO_TOR")  => Ends = Booked!AggToTor(g)
    /\ At("TOR_TO_HOST") => Ends = <<RackNo(g.dst), Booked!TorToHost(g)>>

\* The queue a data packet arrives over ends at the host it is for, so that every
\* switch has forwarded it by its destination.
DataEndsAtDst ==
  [][packet.type = "HeirScheduleData" /\ queue' = Arrived => Far(queue) = packet.dst]_vars

\* "Forward requests by source and destination node" is what structure.md:74-80 says
\* the two control switches do: every packet arrives over a queue that ends at the
\* node it is for.
SwitchesForward == [][queue' = Arrived => Far(queue) = packet.dst]_vars

=============================================================================
