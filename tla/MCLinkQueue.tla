---------------------------- MODULE MCLinkQueue ----------------------------
(***************************************************************************)
(* Loads for LinkQueue on the k = 10 network: the data packets of          *)
(* schedules that do not meet, and bursts of control packets.              *)
(***************************************************************************)
EXTENDS LinkQueue, Functions

R == INSTANCE Routing WITH Packet <- {}, Arrived <- None, packet <- None, queue <- None

\* A header takes 2 units to send, a full packet 3, a slot is two packets long.
FullPacket == 3
SlotPackets == 2
SlotTime == SlotPackets * FullPacket

Path(h, d, slot, a, b) ==
  [src |-> h, dst |-> d, slot |-> slot, src_agg |-> a, dst_agg |-> b,
   core |-> R!src_dst_agg_to_core_map[<<a, b>>]]

\* Pods 0, 1 and 2 have hosts 0-24, 25-49, 50-74 and aggregation switches 0-4,
\* 5-9, 10-14; hosts 0 and 1 share a rack, and so do 50 and 51.
Candidates ==
  {Path(0, 50, 0, 0, 10), Path(0, 51, 1, 1, 10), Path(1, 51, 0, 1, 11),
   Path(1, 51, 1, 0, 10), Path(25, 51, 0, 5, 12), Path(0, 1, 0, 0, 0)}

\* Some packets are sent later than the start of the slot, as in receive_schd.
DataPacket(g, i) ==
  [type |-> "HeirScheduleData", src |-> R!Node("HOST", g.src),
   dst |-> R!Node("HOST", g.dst), path |-> g,
   time |-> g.slot * SlotTime + i * FullPacket]

PacketsOf(G) == {DataPacket(g, i) : g \in G, i \in 0 .. SlotPackets - 1}

DataPackets == PacketsOf(Candidates)

CollisionFreeSets ==
  {G \in SUBSET Candidates : \A g, h \in G : R!Booked!Collide(g, h) => g = h}

DataLoads == {PacketsOf(G) : G \in CollisionFreeSets}

\* Two reservations granted by one local arbiter (an IPS and a CORE_RTS each, the
\* second while the first burst is being sent) and a CORE_RTS of another.
Control(type, l, dst, pair, t) ==
  [type |-> type, src |-> R!Node("LOCAL_ARBITER", l), dst |-> dst, pair |-> pair,
   time |-> t]

Ips(l, m, pair, t) == Control("HeirScheduleIPS", l, R!Node("LOCAL_ARBITER", m), pair, t)
CoreRts(l, pair, t) == Control("CORE_RTS", l, R!Node("GLOBAL_ARBITER", 0), pair, t)

ControlPackets ==
  {Ips(0, 1, 1, 0), CoreRts(0, 1, 0), Ips(0, 2, 2, 1), CoreRts(0, 2, 1),
   Ips(1, 2, 3, 1), CoreRts(1, 3, 1)}

ControlLoads == SUBSET ControlPackets

(***************************************************************************)
(* The queues each packet passes, by get_next_hop.                         *)
(***************************************************************************)
Hop(p, q) ==
  IF q = None THEN None
  ELSE IF q.location \in R!LastHop THEN None ELSE R!get_next_hop(p, q)

WayOf(p) ==
  LET q1 == R!FirstQueue(p)
      q2 == Hop(p, q1)
      q3 == Hop(p, q2)
      q4 == Hop(p, q3)
      q5 == Hop(p, q4)
  IN SelectSeq(<<q1, q2, q3, q4, q5, Hop(p, q5)>>, LAMBDA q : q # None)

AllPackets == DataPackets \union ControlPackets
AllLoads == DataLoads \union ControlLoads
Ways == [p \in AllPackets |-> WayOf(p)]
DataLinks == UNION {Range(Ways[p]) : p \in DataPackets}
Links == UNION {Range(Ways[p]) : p \in AllPackets}

LevelOf ==
  [HOST_TO_TOR |-> 1, TOR_TO_AGG |-> 2, AGG_TO_CORE |-> 3, CORE_TO_AGG |-> 4,
   AGG_TO_TOR |-> 5, TOR_TO_HOST |-> 6, LA_TO_GCS |-> 1, GCS_TO_GA |-> 2]

\* The constants' values.  TLC computes the value of a constant at each use, that of
\* a definition once.
AllWays == Ways
DataQueues == DataLinks
AllQueues == Links
Levels == [q \in Links |-> LevelOf[q.location]]
SendTimes == [p \in AllPackets |-> p.time]

Bursts ==
  {<<p, r>> \in ControlPackets \X ControlPackets :
     p.type = "HeirScheduleIPS" /\ r.type = "CORE_RTS" /\ p.pair = r.pair}

\* An IPS and its CORE_RTS take one way, data packets take six hops, and those of
\* schedules that do not collide are spaced.
ASSUME BurstsTakeOneWay == \A b \in Bursts : Way[b[1]] = Way[b[2]]
ASSUME SixHops == \A p \in DataPackets : IsData(p) /\ Len(Way[p]) = 6
ASSUME SchedulesAreSpaced == Spaced

\* The ways are those of the arbiters' schedules if the wiring tables agree.
ASSUME TablesAgree == R!PortsLead
=============================================================================
