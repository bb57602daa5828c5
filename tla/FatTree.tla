------------------------------- MODULE FatTree -------------------------------
(***************************************************************************)
(* HeirScheduleTopology (coresim/topology.cpp) for params.k = 10, the only *)
(* size its two wiring tables are written for: who is linked to whom, and  *)
(* get_next_hop, the queue a packet takes next.  Nodes of a kind are       *)
(* numbered from 0 over the whole network, ports from 0 on each node.  A   *)
(* queue is named by its location, the number of the node it leaves, and   *)
(* its port there.                                                         *)
(***************************************************************************)
EXTENDS Integers, Sequences, FiniteSetsExt

k == 10
Half == k \div 2
HostsPerPod == Half * Half

HostId == 0 .. Half * HostsPerPod - 1
TorId  == 0 .. HostsPerPod - 1
AggId  == 0 .. HostsPerPod - 1
CoreId == 0 .. HostsPerPod - 1
LcsId  == 0 .. HostsPerPod - 1
LaId   == 0 .. Half - 1
Port   == 0 .. Half - 1

RackNo(h) == h \div Half
PodNo(h) == h \div HostsPerPod

(***************************************************************************)
(* The wiring between aggregation and core switches: row i + 1 lists the   *)
(* switches on ports 0 .. 4 of switch i.                                   *)
(***************************************************************************)
conn_agg_core == <<
  <<0, 1, 2, 3, 4>>, <<5, 6, 7, 8, 9>>, <<10, 11, 12, 13, 14>>,
  <<15, 16, 17, 18, 19>>, <<20, 21, 22, 23, 24>>, <<0, 9, 13, 17, 21>>,
  <<1, 5, 14, 18, 22>>, <<2, 6, 10, 19, 23>>, <<3, 7, 11, 15, 24>>,
  <<4, 8, 12, 16, 20>>, <<0, 7, 14, 16, 23>>, <<3, 5, 12, 19, 21>>,
  <<1, 8, 10, 17, 24>>, <<4, 6, 13, 15, 22>>, <<2, 9, 11, 18, 20>>,
  <<0, 8, 11, 19, 22>>, <<2, 5, 13, 16, 24>>, <<4, 7, 10, 18, 21>>,
  <<1, 9, 12, 15, 23>>, <<3, 6, 14, 17, 20>>, <<0, 6, 12, 18, 24>>,
  <<4, 5, 11, 17, 23>>, <<3, 9, 10, 16, 22>>, <<2, 8, 14, 15, 21>>,
  <<1, 7, 13, 19, 20>> >>

conn_core_agg == <<
  <<0, 5, 10, 15, 20>>, <<0, 6, 12, 18, 24>>, <<0, 7, 14, 16, 23>>,
  <<0, 8, 11, 19, 22>>, <<0, 9, 13, 17, 21>>, <<1, 6, 11, 16, 21>>,
  <<1, 7, 13, 19, 20>>, <<1, 8, 10, 17, 24>>, <<1, 9, 12, 15, 23>>,
  <<1, 5, 14, 18, 22>>, <<2, 7, 12, 17, 22>>, <<2, 8, 14, 15, 21>>,
  <<2, 9, 11, 18, 20>>, <<2, 5, 13, 16, 24>>, <<2, 6, 10, 19, 23>>,
  <<3, 8, 13, 18, 23>>, <<3, 9, 10, 16, 22>>, <<3, 5, 12, 19, 21>>,
  <<3, 6, 14, 17, 20>>, <<3, 7, 11, 15, 24>>, <<4, 9, 14, 19, 24>>,
  <<4, 5, 11, 17, 23>>, <<4, 6, 13, 15, 22>>, <<4, 7, 10, 18, 21>>,
  <<4, 8, 12, 16, 20>> >>

AggToCore(a, port) == conn_agg_core[a + 1][port + 1]
CoreToAgg(c, port) == conn_core_agg[c + 1][port + 1]

\* The maps built from the tables.  Each is filled by a loop that overwrites, so
\* the last core, or port, wins; a key never written reads as 0.
LastOf(S) == IF S = {} THEN 0 ELSE Max(S)

AggsAt(c) == {CoreToAgg(c, i) : i \in Port}

src_dst_agg_to_core_map ==
  [ab \in AggId \X AggId |->
     LastOf({c \in CoreId : ab[1] \in AggsAt(c) /\ ab[2] \in AggsAt(c)})]

\* Definitions marked "fault" are wrong on purpose and used nowhere; in the place
\* of the definition after them they make a property of Routing fail.
AggToCorePortPlain ==                        \* fault: wiring of a plain fat tree
  [ac \in AggId \X CoreId |-> ac[2] % Half]
agg_to_core_port ==
  [ac \in AggId \X CoreId |-> LastOf({i \in Port : AggToCore(ac[1], i) = ac[2]})]

core_to_agg_port ==
  [ca \in CoreId \X AggId |-> LastOf({i \in Port : CoreToAgg(ca[1], i) = ca[2]})]

(***************************************************************************)
(* Nodes and queues.                                                       *)
(***************************************************************************)
Node(type, id) == [type |-> type, id |-> id]
Queue(location, at, port) == [location |-> location, at |-> at, port |-> port]

\* Queue::set_src_dst, as the constructor calls it: the node queue q leads to.
DataLocation == {"HOST_TO_TOR", "TOR_TO_AGG", "AGG_TO_CORE", "CORE_TO_AGG",
                 "AGG_TO_TOR", "TOR_TO_HOST"}

FarData(q) ==
  LET at == q.at
      port == q.port
      inPod == (at \div Half) * Half + port     \* the switches of at's pod
  IN CASE q.location = "HOST_TO_TOR" -> Node("TOR_SWITCH", RackNo(at))
       [] q.location = "TOR_TO_AGG"  -> Node("AGG_SWITCH", inPod)
       [] q.location = "AGG_TO_CORE" -> Node("CORE_SWITCH", AggToCore(at, port))
       [] q.location = "CORE_TO_AGG" -> Node("AGG_SWITCH", CoreToAgg(at, port))
       [] q.location = "AGG_TO_TOR"  -> Node("TOR_SWITCH", inPod)
       [] q.location = "TOR_TO_HOST" -> Node("HOST", at * Half + port)

FarControl(q) ==
  LET at == q.at
      port == q.port
  IN CASE q.location = "HOST_TO_LCS" -> Node("LCS", RackNo(at))
       [] q.location = "LCS_TO_LA"   -> Node("LOCAL_ARBITER", at \div Half)
       [] q.location = "LA_TO_LCS"   -> Node("LCS", at * Half + port)
       [] q.location = "LCS_TO_HOST" -> Node("HOST", at * Half + port)
       [] q.location \in {"LA_TO_GCS", "GA_TO_GCS"} -> Node("GCS", port)
       [] q.location = "GCS_TO_LA"   -> Node("LOCAL_ARBITER", port)
       [] q.location = "GCS_TO_GA"   -> Node("GLOBAL_ARBITER", 0)

Far(q) == IF q.location \in DataLocation THEN FarData(q) ELSE FarControl(q)

\* Queues of the last hop: get_next_hop returns NULL.
LastHop == {"TOR_TO_HOST", "LCS_TO_LA", "LCS_TO_HOST", "GCS_TO_LA", "GCS_TO_GA"}

DownPortOfSrc(g) == g.src % Half             \* fault: port of the source host
DownPort(g) == g.dst % Half

\* The port a data packet takes at the node it has reached over q, from the
\* schedule it carries (p->path).
DataPort(g, location) ==
  CASE location = "HOST_TO_TOR" -> g.src_agg % Half
    [] location = "TOR_TO_AGG"  -> agg_to_core_port[<<g.src_agg, g.core>>]
    [] location = "AGG_TO_CORE" -> core_to_agg_port[<<g.core, g.dst_agg>>]
    [] location = "CORE_TO_AGG" -> RackNo(g.dst) % Half
    [] location = "AGG_TO_TOR"  -> DownPort(g)

Onward ==
  [HOST_TO_TOR |-> "TOR_TO_AGG",  TOR_TO_AGG  |-> "AGG_TO_CORE",
   AGG_TO_CORE |-> "CORE_TO_AGG", CORE_TO_AGG |-> "AGG_TO_TOR",
   AGG_TO_TOR  |-> "TOR_TO_HOST"]

NextDataHop(g, q) ==
  Queue(Onward[q.location], Far(q).id, DataPort(g, q.location))

\* A control packet.  At the switch between arbiters the code tests the type of
\* q->dst, which is that switch, where it means the destination of the packet, so
\* whatever comes from a local arbiter goes up to the global one.
ForLocalArbiter(p, q) == Far(q).type = "LOCAL_ARBITER"

\* At the switch of a rack, a port computed as the number of the rack in its pod.
HostPort(p) == (p.dst.id % HostsPerPod) \div Half

NextControlHop(p, q) ==
  LET at == Far(q).id
  IN CASE q.location = "HOST_TO_LCS" -> Queue("LCS_TO_LA", at, 0)
       [] q.location = "LA_TO_GCS" /\ ForLocalArbiter(p, q) ->
            Queue("GCS_TO_LA", at, p.dst.id)
       [] q.location = "LA_TO_GCS" /\ ~ForLocalArbiter(p, q) ->
            Queue("GCS_TO_GA", at, 0)
       [] q.location = "GA_TO_GCS"   -> Queue("GCS_TO_LA", at, p.dst.id)
       [] q.location = "LA_TO_LCS"   -> Queue("LCS_TO_HOST", at, HostPort(p))

=============================================================================
