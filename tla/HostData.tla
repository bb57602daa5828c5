------------------------------ MODULE HostData ------------------------------
(***************************************************************************)
(* From the arrival of a flow at its source host to its completion at the  *)
(* destination (FlowArrivalEvent, HeirScheduleHost in coresim/node.cpp):   *)
(* the host queues the flow's bytes by destination and announces them to   *)
(* its local arbiter; each schedule that comes back takes the packets of   *)
(* one slot off the queue, when it is received, to be sent at the start    *)
(* of its slot; the destination puts the bytes together again.             *)
(*                                                                         *)
(* What the arbiters do between an RTS and a SCHD is Arbitration's         *)
(* subject; here a grant is one step that picks a slot the host is not     *)
(* yet sending in.  Packets of one host arrive in the order they are sent, *)
(* all after the same delay (OnTime of MCLinkQueue).  One source host;     *)
(* params.pias = 0.                                                        *)
(***************************************************************************)
EXTENDS Integers, Sequences, FiniteSetsExt, Functions

CONSTANTS
  Flow,
  Size,         \* [Flow -> Nat \ {0}], Flow::size
  Dst,          \* [Flow -> the destination host]
  Mss,          \* params.mss
  SlotPackets,  \* params.slot_length
  T,            \* how far ahead a slot is granted
  Garbage,      \* what an unwritten uint32_t may hold
  MaxSlot       \* bound: the last value of now

ASSUME HostAssumption ==
  /\ IsFiniteSet(Flow)
  /\ Size \in [Flow -> Nat \ {0}]
  /\ Dst \in [Flow -> {Dst[f] : f \in Flow}]
  /\ Mss \in Nat \ {0} /\ SlotPackets \in Nat \ {0} /\ T \in Nat \ {0}
  /\ Garbage \subseteq Nat /\ 0 \in Garbage
  /\ MaxSlot \in Nat

Dsts == {Dst[f] : f \in Flow}
SlotBytes == Mss * SlotPackets

VARIABLES
  now,               \* slots that have started
  flow_arrivals,     \* flows still to come
  per_dst_queues,    \* [Dsts -> Seq([flow, remaining])], per_dst_queues[0]
  next_seq_no,       \* [Flow -> Nat]
  rts,               \* flows whose RTS is on its way to the arbiter
  size_table,        \* [Dsts -> Nat], the arbiter's demand of the pair
  schds,             \* SCHD packets on their way to the host: [dst, slot]
  wire,              \* data packets made up: [slot, index, segments]
  received_seqs,     \* [Flow -> SUBSET [begin, size]], a map from begin to size
  received_payloads, \* [Flow -> Nat], never initialised
  finished,          \* [Flow -> BOOLEAN]
  failed             \* the assertion that stopped the program, or "no"

sender == <<per_dst_queues, next_seq_no>>
receiver == <<received_seqs, received_payloads, finished>>
vars == <<now, flow_arrivals, sender, rts, size_table, schds, wire, receiver, failed>>

Init ==
  /\ now = 0
  /\ flow_arrivals = Flow
  /\ per_dst_queues = [d \in Dsts |-> <<>>]
  /\ next_seq_no = [f \in Flow |-> 0]
  /\ rts = {} /\ schds = {} /\ wire = {}
  /\ size_table = [d \in Dsts |-> 0]
  /\ received_seqs = [f \in Flow |-> {}]
  /\ received_payloads \in [Flow -> Garbage]
  /\ finished = [f \in Flow |-> FALSE]
  /\ failed = "no"

Running == failed = "no"

\* FlowArrivalEvent::process_event, host_send_rts.  Flows come in the order of their
\* start times, which the workload is free to choose.
FlowArrival(f) ==
  /\ Running /\ f \in flow_arrivals
  /\ flow_arrivals' = flow_arrivals \ {f}
  /\ per_dst_queues' =
       [per_dst_queues EXCEPT ![Dst[f]] = Append(@, [flow |-> f, remaining |-> Size[f]])]
  /\ rts' = rts \union {f}
  /\ UNCHANGED <<now, next_seq_no, size_table, schds, wire, receiver, failed>>

\* Definitions marked "fault" are wrong on purpose and used nowhere.
AnnouncedLast(bytes, f) == Size[f]                 \* fault: = in place of +=
Announced(bytes, f) == bytes + Size[f]

\* LocalArbiter::receive_rts
ReceiveRts(f) ==
  /\ Running /\ f \in rts
  /\ rts' = rts \ {f}
  /\ size_table' = [size_table EXCEPT ![Dst[f]] = Announced(@, f)]
  /\ UNCHANGED <<now, flow_arrivals, sender, schds, wire, receiver, failed>>

\* The slots the host has packets or a schedule for (host_is_src).
SlotsTaken == {g.slot : g \in schds} \union {p.slot : p \in wire}

ServedUnsigned(bytes) == bytes - SlotBytes         \* fault: size not compared
ServedWhole(bytes) == 0                            \* fault: entry always erased
Served(bytes) == IF bytes <= SlotBytes THEN 0 ELSE bytes - SlotBytes

\* LocalArbiter::generate_full_path: a slot is granted, and the demand goes down.
Grant(d, s) ==
  /\ Running
  /\ size_table[d] > 0
  /\ s \notin SlotsTaken
  /\ schds' = schds \union {[dst |-> d, slot |-> s]}
  /\ size_table' = [size_table EXCEPT ![d] = Served(@)]
  /\ UNCHANGED <<now, flow_arrivals, sender, rts, wire, receiver, failed>>

(***************************************************************************)
(* HeirScheduleHost::receive_schd_and_send_data, which calls get_data_     *)
(* packet once for each packet of the slot.  The queue is a line of bytes, *)
(* entry j reaching up to End(Q)[j]; packet i of the slot takes bytes      *)
(* i * Mss up to (i + 1) * Mss of it, in segments that do not cross from   *)
(* one flow to the next.                                                   *)
(***************************************************************************)
End(Q) ==
  LET upto[j \in 0 .. Len(Q)] == IF j = 0 THEN 0 ELSE upto[j - 1] + Q[j].remaining
  IN upto

SegmentAgain(Q, j, from, to) ==                    \* fault: next_seq_no not added to
  [flow |-> Q[j].flow, begin |-> next_seq_no[Q[j].flow], size |-> to - from]
Segment(Q, j, from, to) ==
  [flow |-> Q[j].flow, begin |-> next_seq_no[Q[j].flow] + from - End(Q)[j - 1],
   size |-> to - from]

get_data_packet(Q, i) ==
  LET from(j) == Max({End(Q)[j - 1], i * Mss})
      to(j) == Min({End(Q)[j], (i + 1) * Mss})
  IN {Segment(Q, j, from(j), to(j)) : j \in {n \in 1 .. Len(Q) : from(n) < to(n)}}

PacketsShort(s, Q) ==                              \* fault: a packet short
  {[slot |-> s, index |-> i, segments |-> get_data_packet(Q, i)] : i \in 1 .. SlotPackets - 1}
PacketsOfSlot(s, Q) ==
  {[slot |-> s, index |-> i, segments |-> get_data_packet(Q, i)] : i \in 0 .. SlotPackets - 1}

Bytes(X) == SumFunctionOnSet([x \in X |-> x.size], X)
Taken(f, P) == Bytes({x \in UNION {p.segments : p \in P} : x.flow = f})

\* What is left of a queue: entries used up are popped, the one cut is put back.
Rest(Q, P) ==
  LET left == [j \in 1 .. Len(Q) |-> [Q[j] EXCEPT !.remaining = @ - Taken(Q[j].flow, P)]]
      used == {j \in 1 .. Len(Q) : left[j].remaining = 0}
  IN SubSeq(left, Max({0} \union used) + 1, Len(Q))

ReceiveSchd(g) ==
  /\ Running /\ g \in schds
  /\ schds' = schds \ {g}
  /\ LET Q == per_dst_queues[g.dst]
         P == PacketsOfSlot(g.slot, Q)
     IN /\ wire' = wire \union P
        /\ per_dst_queues' = [per_dst_queues EXCEPT ![g.dst] = Rest(Q, P)]
        /\ next_seq_no' = [f \in Flow |-> next_seq_no[f] + Taken(f, P)]
  /\ UNCHANGED <<now, flow_arrivals, rts, size_table, receiver, failed>>

(***************************************************************************)
(* HeirScheduleHost::receive_data_packet: flows of the packet are brought  *)
(* up to date, and one whose bytes have all come, in sequence, is finished *)
(* (assert: received_payloads is its size).                                *)
(***************************************************************************)
\* recv_till: how far the segments, in order, follow each other without a gap.
RecvBegin(S) ==                                    \* fault: last segment not added
  Max({0} \union {x.begin : x \in
         {y \in S : \A b \in 0 .. y.begin : b = 0 \/ \E z \in S : z.begin < b /\ b <= z.begin + z.size}})
RecvTill(S) ==
  Max({0} \union {x.begin + x.size : x \in
         {y \in S : \A b \in 0 .. y.begin : b = 0 \/ \E z \in S : z.begin < b /\ b <= z.begin + z.size}})

InPacket(f, p) == {[begin |-> x.begin, size |-> x.size] : x \in {y \in p.segments : y.flow = f}}
Payload(f, p) == Bytes(InPacket(f, p))

Earlier(p, q) == p.slot < q.slot \/ (p.slot = q.slot /\ p.index < q.index)

DataArrival(p) ==
  /\ Running /\ p \in wire
  /\ p.slot < now
  /\ \A q \in wire : ~Earlier(q, p)
  /\ wire' = wire \ {p}
  /\ received_seqs' = [f \in Flow |-> received_seqs[f] \union InPacket(f, p)]
  /\ received_payloads' = [f \in Flow |-> received_payloads[f] + Payload(f, p)]
  /\ LET done == {f \in Flow : InPacket(f, p) # {} /\ RecvTill(received_seqs'[f]) = Size[f]}
         sound == {f \in done : received_payloads'[f] = Size[f]}
     IN /\ finished' = [f \in Flow |-> finished[f] \/ f \in sound]
        /\ failed' = IF sound = done THEN "no" ELSE "received_payloads"
  /\ UNCHANGED <<now, flow_arrivals, sender, rts, size_table, schds>>

\* The next slot starts.  A schedule has reached its host by then, or the program
\* has stopped (InTime of Arbitration).
Tick ==
  /\ Running
  /\ now < MaxSlot
  /\ \A g \in schds : g.slot > now
  /\ now' = now + 1
  /\ UNCHANGED <<flow_arrivals, sender, rts, size_table, schds, wire, receiver, failed>>

Next ==
  \/ \E f \in Flow : FlowArrival(f) \/ ReceiveRts(f)
  \/ \E d \in Dsts, s \in now + 1 .. now + T : Grant(d, s)
  \/ \E g \in schds : ReceiveSchd(g)
  \/ \E p \in wire : DataArrival(p)
  \/ Tick

Spec == Init /\ [][Next]_vars

(***************************************************************************)
(* Properties.                                                             *)
(***************************************************************************)

Segments == [begin : Nat, size : Nat]

\* Every variable has its type (one invariant for the module).
TypeOK ==
  /\ now \in 0 .. MaxSlot
  /\ flow_arrivals \subseteq Flow /\ rts \subseteq Flow
  /\ per_dst_queues \in [Dsts -> Seq([flow : Flow, remaining : Nat \ {0}])]
  /\ next_seq_no \in [Flow -> Nat] /\ received_payloads \in [Flow -> Nat]
  /\ size_table \in [Dsts -> Nat]
  /\ schds \subseteq [dst : Dsts, slot : Nat]
  /\ \A p \in wire : \A f \in Flow : InPacket(f, p) \subseteq Segments
  /\ \A f \in Flow : received_seqs[f] \subseteq Segments
  /\ finished \in [Flow -> BOOLEAN]
  /\ failed \in {"no", "received_payloads"}

\* No byte of a flow is lost, repeated or sent under a wrong number, however
\* schedules overtake each other: the segments under way and those received are
\* the bytes up to next_seq_no, each once, and the queue holds the rest.
SegmentsOf(f) ==
  received_seqs[f] \union UNION {InPacket(f, p) : p \in wire}

BytesConserved ==
  \A f \in Flow :
    /\ \A b \in 0 .. Size[f] - 1 :
         Cardinality({x \in SegmentsOf(f) : x.begin <= b /\ b < x.begin + x.size})
           = IF b < next_seq_no[f] THEN 1 ELSE 0
    /\ f \notin flow_arrivals /\ next_seq_no[f] < Size[f] =>
         \E j \in 1 .. Len(per_dst_queues[Dst[f]]) :
           per_dst_queues[Dst[f]][j] = [flow |-> f, remaining |-> Size[f] - next_seq_no[f]]

\* The arbiter's count of a pair's demand never falls behind the host's queue:
\* the bytes queued are announced, granted, or in an RTS under way, although an
\* RTS races the schedules made for earlier flows, which may take its bytes.
Queued(d) ==
  SumFunctionOnSet([f \in Flow |-> Size[f] - next_seq_no[f]],
                   {f \in Flow \ flow_arrivals : Dst[f] = d})

DemandCoversQueue ==
  \A d \in Dsts :
    Queued(d) <= size_table[d]
                 + SumFunctionOnSet(Size, {f \in rts : Dst[f] = d})
                 + Cardinality({g \in schds : g.dst = d}) * SlotBytes

\* A flow is finished as soon as all its bytes are there, and not before, although
\* packets of one flow come out of order.
FinishedWhenComplete ==
  Running => \A f \in Flow :
    finished[f] <=>
      \A b \in 0 .. Size[f] - 1 :
        \E x \in received_seqs[f] : x.begin <= b /\ b < x.begin + x.size

\* assert(f->received_payloads == f->size) at node.cpp:355.  The field is written
\* by no constructor of Flow (flow.cpp:19-56, flow.h:46).
PayloadsAddUp == failed # "received_payloads"

=============================================================================
