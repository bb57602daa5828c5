----------------------------- MODULE LinkQueue -----------------------------
(***************************************************************************)
(* Queues and the event loop (coresim/queue.cpp, event.cpp, main.cpp):     *)
(* packets are put in queues, a busy queue has a QueueProcessingEvent      *)
(* pending, and each one sends a packet on to the next queue or to its     *)
(* node.  Queues of the data plane have no buffer: enque asserts that the  *)
(* queue is empty.  Those of the control plane (DctcpQueue) hold what      *)
(* their limit allows, and a packet dropped there has no flow to account   *)
(* it to (drop dereferences packet->flow, NULL in all control packets).    *)
(* A link is cut-through: a header's time and the propagation delay after  *)
(* it leaves a queue the packet is in the next one, and the queue goes on  *)
(* after the header's time (get_transmission_delay(packet->hdr_size)).     *)
(***************************************************************************)
EXTENDS Integers, Sequences, FiniteSets

CONSTANTS
  Packet,
  Queues,
  ZeroBuffer,     \* the queues of the data plane
  Limit,          \* packets the others hold (limit_bytes / hdr_size)
  Way,            \* [Packet -> Seq(Queues)]: from the queue the sender pushes it to,
                  \*   where get_next_hop leads it
  Level,          \* [Queues -> Nat]: the hop a queue is for all its packets
  SendTime,       \* [Packet -> Nat]: when a packet is pushed
  PushedBefore,   \* pairs of packets one handler pushes, in this order
  Hdr, Prop,      \* transmission delay of a header, propagation delay
  Loads,          \* the sets of packets that may be sent
  None

First(p) == Way[p][1]
IsData(p) == First(p) \in ZeroBuffer

ASSUME LinkAssumption ==
  /\ ZeroBuffer \subseteq Queues
  /\ Limit \in Nat
  /\ DOMAIN Way = Packet
  /\ \A p \in Packet :
       /\ Way[p] \in Seq(Queues) /\ Way[p] # <<>>
       /\ \A i \in 1 .. Len(Way[p]) :
            /\ Level[Way[p][i]] = i
            /\ Way[p][i] \in ZeroBuffer <=> IsData(p)
  /\ SendTime \in [Packet -> Nat]
  /\ PushedBefore \subseteq Packet \X Packet
  /\ Hdr \in Nat \ {0} /\ Prop \in Nat
  /\ Loads \subseteq SUBSET Packet
  /\ None \notin Packet /\ None \notin Queues

VARIABLES
  load,      \* the packets of this run
  events,    \* event_queue
  packets,   \* [Queues -> Seq(Packet)], Queue::packets
  busy,      \* [Queues -> BOOLEAN]
  arrived,   \* history: packets delivered, in order, and when
  failed     \* what stopped the program, or "no"

vars == <<load, events, packets, busy, arrived, failed>>

EventTypes == {"PACKET_QUEUING", "PACKET_ARRIVAL", "QUEUE_PROCESSING"}
Event(type, time, p, q) == [type |-> type, time |-> time, packet |-> p, queue |-> q]

Init ==
  /\ load \in Loads
  /\ events = {Event("PACKET_QUEUING", SendTime[p], p, First(p)) : p \in load}
  /\ packets = [q \in Queues |-> <<>>]
  /\ busy = [q \in Queues |-> FALSE]
  /\ arrived = <<>>
  /\ failed = "no"

\* EventComparator: by time, then by type.  Equal events come out of the heap in
\* no particular order, but for two that one handler pushed, which are the only
\* ones of their kind then.
Priority == [PACKET_QUEUING |-> 1, PACKET_ARRIVAL |-> 2, QUEUE_PROCESSING |-> 3]

Before(e, f) ==
  \/ e.time < f.time
  \/ e.time = f.time /\ Priority[e.type] < Priority[f.type]
  \/ e.time = f.time /\ e.type = f.type /\ <<e.packet, f.packet>> \in PushedBefore

Top(e, type) ==
  /\ failed = "no"
  /\ e \in events /\ e.type = type
  /\ \A f \in events : ~Before(f, e)

\* Queue::enque, DctcpQueue::enque
Admits(q) == IF q \in ZeroBuffer THEN packets[q] = <<>> ELSE Len(packets[q]) < Limit
Refusal(q) == IF q \in ZeroBuffer THEN "collision" ELSE "drop"

Enque(p, q) ==
  IF Admits(q)
  THEN packets' = [packets EXCEPT ![q] = Append(@, p)] /\ UNCHANGED failed
  ELSE failed' = Refusal(q) /\ UNCHANGED packets

\* Definitions marked "fault" are wrong on purpose and used nowhere.
WakeAlways(t, q) == {Event("QUEUE_PROCESSING", t, None, q)}  \* fault: busy unread
\* An idle queue gets its QueueProcessingEvent, at once.
Wake(t, q) ==
  IF busy[q] THEN {} ELSE {Event("QUEUE_PROCESSING", t, None, q)}

PacketQueuing(e) ==
  /\ Top(e, "PACKET_QUEUING")
  /\ Enque(e.packet, e.queue)
  /\ busy' = [busy EXCEPT ![e.queue] = TRUE]
  /\ events' = (events \ {e}) \union Wake(e.time, e.queue)
  /\ UNCHANGED <<load, arrived>>

FrontLast(q) == packets[q][Len(packets[q])]        \* fault: the last one first
Front(q) == Head(packets[q])

\* get_next_hop: a queue, or None (NULL) at the last one.
NextHop(p, q) == IF Level[q] < Len(Way[p]) THEN Way[p][Level[q] + 1] ELSE None

\* Where the packet is next.
OnwardQueued(p, q, t) ==                           \* fault: no propagation delay
  IF NextHop(p, q) = None
  THEN Event("PACKET_ARRIVAL", t + Hdr, p, None)
  ELSE Event("PACKET_QUEUING", t, p, NextHop(p, q))
OnwardUnended(p, q, t) ==                          \* fault: NULL not tested
  Event("PACKET_QUEUING", t + Hdr + Prop, p, NextHop(p, q))
Onward(p, q, t) ==
  IF NextHop(p, q) = None
  THEN Event("PACKET_ARRIVAL", t + Hdr + Prop, p, None)
  ELSE Event("PACKET_QUEUING", t + Hdr + Prop, p, NextHop(p, q))

\* QueueProcessingEvent::process_event, deque() # NULL
Transmit(e) ==
  /\ Top(e, "QUEUE_PROCESSING")
  /\ LET q == e.queue
         p == Front(q)
     IN /\ packets[q] # <<>>
        /\ packets' = [packets EXCEPT ![q] = Tail(@)]
        /\ events' = (events \ {e}) \union
             {Event("QUEUE_PROCESSING", e.time + Hdr, None, q), Onward(p, q, e.time)}
  /\ UNCHANGED <<load, busy, arrived, failed>>

GoIdleBusy(e) ==                                   \* fault: busy not reset
  /\ Top(e, "QUEUE_PROCESSING")
  /\ packets[e.queue] = <<>>
  /\ events' = events \ {e}
  /\ UNCHANGED <<load, packets, busy, arrived, failed>>

\* QueueProcessingEvent::process_event, deque() = NULL
GoIdle(e) ==
  /\ Top(e, "QUEUE_PROCESSING")
  /\ packets[e.queue] = <<>>
  /\ busy' = [busy EXCEPT ![e.queue] = FALSE]
  /\ events' = events \ {e}
  /\ UNCHANGED <<load, packets, arrived, failed>>

PacketArrival(e) ==
  /\ Top(e, "PACKET_ARRIVAL")
  /\ arrived' = Append(arrived, [packet |-> e.packet, time |-> e.time])
  /\ events' = events \ {e}
  /\ UNCHANGED <<load, packets, busy, failed>>

Next == \E e \in events : PacketQueuing(e) \/ Transmit(e) \/ GoIdle(e) \/ PacketArrival(e)

Spec == Init /\ [][Next]_vars

\* run_scenario takes the next event until there is none.
FairSpec == Spec /\ WF_vars(Next)

(***************************************************************************)
(* Properties.                                                             *)
(***************************************************************************)

EventType ==
  [type : EventTypes, time : Nat, packet : Packet \union {None},
   queue : Queues \union {None}]

\* Every variable has its type (one invariant for the module).
TypeOK ==
  /\ load \subseteq Packet
  /\ events \subseteq EventType
  /\ \A e \in events :
       /\ e.type = "QUEUE_PROCESSING" <=> e.packet = None
       /\ e.type = "PACKET_ARRIVAL" <=> e.queue = None
  /\ packets \in [Queues -> Seq(Packet)]
  /\ busy \in [Queues -> BOOLEAN]
  /\ arrived \in Seq([packet : Packet, time : Nat])
  /\ failed \in {"no", "collision", "drop"}

\* No wakeup is lost or doubled: a queue is busy exactly while it has one
\* QueueProcessingEvent pending, and a queue that holds a packet is busy, so no
\* packet is left in an idle queue and none is sent at twice the rate.
Processing(q) == {e \in events : e.type = "QUEUE_PROCESSING" /\ e.queue = q}

BusyQueuesAwake ==
  \A q \in Queues :
    /\ busy[q] <=> \E e \in events : Processing(q) = {e}
    /\ ~busy[q] => Processing(q) = {} /\ packets[q] = <<>>

\* Data packets do not collide, so that the program does not stop on the assertion
\* that a zero-buffer queue is empty, and none ever waits: it arrives after the time
\* of its hops.  This holds if what the arbiters promise (CollisionFree of
\* Arbitration) is what the queues need, which Spaced says: two data packets that
\* share a queue are a header's time apart.
NoCollision == failed # "collision"

OnTime ==
  /\ NoCollision
  /\ \A i \in 1 .. Len(arrived) :
       LET p == arrived[i].packet
       IN  IsData(p) => arrived[i].time = SendTime[p] + Len(Way[p]) * (Hdr + Prop)

Spaced ==
  \A L \in Loads : \A p, r \in L : \A i \in 1 .. Len(Way[p]) :
    (p # r /\ IsData(p) /\ i <= Len(Way[r]) /\ Way[p][i] = Way[r][i]) =>
      \/ SendTime[p] >= SendTime[r] + Hdr
      \/ SendTime[r] >= SendTime[p] + Hdr

\* What is sent first arrives first if it takes the same way, whatever else is on
\* this way and whether the sender pushed the two at once or one after the other.
SentBefore(p, r) ==
  /\ p # r /\ Way[p] = Way[r]
  /\ \/ SendTime[p] < SendTime[r]
     \/ SendTime[p] = SendTime[r] /\ <<p, r>> \in PushedBefore

PushOrderKept ==
  \A i \in 1 .. Len(arrived) : \A p \in load :
    SentBefore(p, arrived[i].packet) => \E j \in 1 .. i : arrived[j].packet = p

\* Every packet is delivered in the end, unless the program stops.
AllArrive ==
  <>(failed # "no" \/ {arrived[i].packet : i \in 1 .. Len(arrived)} = load)

=============================================================================
