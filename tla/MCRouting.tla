----------------------------- MODULE MCRouting -----------------------------
(***************************************************************************)
(* Packets for the k = 10 network.                                         *)
(***************************************************************************)
EXTENDS Routing

ASSUME Booked!TopologyAssumption

\* Hosts of all the pods, of different racks and ports, two of them in one pod.
SomeHosts == {0, 6, 31, 62, 93, 124}

\* Within a pod a reservation names one aggregation switch twice.
SomePaths ==
  {[src |-> h, dst |-> d, slot |-> 0, src_agg |-> ab[1], dst_agg |-> ab[2],
    core |-> src_dst_agg_to_core_map[ab]] :
     h \in SomeHosts, d \in SomeHosts, ab \in AggId \X AggId}

Reserved(g) ==
  /\ g.src # g.dst
  /\ g.src_agg \div Half = PodNo(g.src) /\ g.dst_agg \div Half = PodNo(g.dst)
  /\ PodNo(g.src) = PodNo(g.dst) => g.src_agg = g.dst_agg

DataPackets ==
  {[type |-> "HeirScheduleData", src |-> Node("HOST", g.src),
    dst |-> Node("HOST", g.dst), path |-> g] :
     g \in {p \in SomePaths : Reserved(p)}}

ControlPacket(type, S, D) ==
  {[type |-> type, src |-> s, dst |-> d] : s \in S, d \in D}

LAs == {Node("LOCAL_ARBITER", l) : l \in LaId}
GA == {Node("GLOBAL_ARBITER", 0)}

ControlPackets ==
  UNION {ControlPacket("HeirScheduleRTS", {Node("HOST", h)},
                       {Node("LOCAL_ARBITER", PodNo(h))}) : h \in HostId}
  \union UNION {ControlPacket("HeirScheduleSCHD", {Node("LOCAL_ARBITER", PodNo(h))},
                              {Node("HOST", h)}) : h \in HostId}
  \union {p \in ControlPacket("HeirScheduleIPS", LAs, LAs) : p.src # p.dst}
  \union ControlPacket("CORE_RTS", LAs, GA)
  \union ControlPacket("CORE_SCHD", GA, LAs)

AllPackets == DataPackets \union ControlPackets

\* What the proofs take of the packets with schedules.
ASSUME DataIsScheduled
=============================================================================
