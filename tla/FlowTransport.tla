--------------------------- MODULE FlowTransport ---------------------------
(***************************************************************************)
(* What any network may do to one flow of module Flow: its packets are a   *)
(* bag, in either direction, that are delivered in any order or lost.      *)
(* FlowNetwork has the queues of the code, and implements this.            *)
(***************************************************************************)
EXTENDS Flow, PacketBag

CONSTANT Kinds     \* classes and sizes of flows

KindAssumption == Kinds \subseteq [class : FlowClass, size : Nat \ {0}]

VARIABLES
  flow,
  net,            \* bag of packets on their way
  lost            \* history: types of packets that have been lost

vars == <<flow, net, lost>>

Init ==
  /\ \E k \in Kinds : flow = New(k.class, k.size)
  /\ net = NoPackets /\ lost = {}

\* A step of the network: of the packets that are or come into it, some are lost.
Carries(total) ==
  \E all \in {total}, carried \in {net'} :
    PartOf(carried, all) /\ lost' = lost \union {m.type : m \in Missing(carried, all)}

Becomes(r, rest) == flow' = r.flow /\ Carries(With(rest, r.sent))

StartFlow ==
  /\ ~flow.started
  /\ Becomes(Start(flow), net)

RetxTimeout ==
  /\ flow.retx.live > 0
  /\ Becomes(HandleTimeout(flow), net)

PacketArrival(m) ==
  \E r \in Receive(flow, m) : Becomes(r, Less(net, m))

\* Queue::drop, ProbDropQueue::enque
Lose == Carries(net) /\ UNCHANGED flow

Next ==
  \/ StartFlow
  \/ RetxTimeout
  \/ \E m \in DOMAIN net : PacketArrival(m)
  \/ Lose

Spec == Init /\ [][Next]_vars

(***************************************************************************)
(* What holds of a flow, whatever the network does.                        *)
(***************************************************************************)
Packet(f) ==
  {DataPkt(s) : s \in Seqs(f)} \union {RtsPkt, CtsPkt}
  \union {AckPkt(a, n) : a \in Seqs(f) \union {f.size, RecvTill([f EXCEPT !.received = Seqs(f)])},
                         n \in 0 .. Cardinality(Seqs(f))}

\* Every variable has its type (one invariant for the module).
TypeOK ==
  /\ flow.class \in FlowClass /\ flow.size \in Nat
  /\ flow.started \in BOOLEAN /\ flow.finished \in BOOLEAN
  /\ flow.next_seq_no \in Nat /\ flow.last_unacked_seq \in Nat
  /\ flow.cwnd_mss \in 1 .. MaxCwnd /\ flow.ssthresh \in Nat \ {0, 1}
  /\ flow.count_ack_additive_increase \in 0 .. MaxCwnd
  /\ flow.scoreboard_sack_bytes \in Nat
  /\ flow.retx \in [event : BOOLEAN, live : Nat]
  /\ flow.received \subseteq Seqs(flow) /\ flow.received_bytes \in 0 .. flow.size
  /\ IsBag(net) /\ DOMAIN net \subseteq Packet(flow)
  /\ lost \subseteq {"DATA", "ACK", "RTS", "CTS"}

\* What the sender and the acknowledgements under way believe to have been
\* received has been, without a gap, and a flow is finished only when each byte
\* has been received, each counted once, whatever was lost, reordered or sent
\* again by a timer that fired too early.
AcksUnderWay == {m.ack : m \in {x \in DOMAIN net : x.type = "ACK"}}

AckedWasReceived ==
  IF flow.finished THEN flow.received_bytes = flow.size
  ELSE /\ flow.received_bytes = Cardinality(BytesIn(flow))
       /\ \A a \in {flow.last_unacked_seq} \union AcksUnderWay :
            \A s \in Seqs(flow) : s < a => s \in flow.received

\* A TCPFlow that waits for the answer to its RTS, perhaps for ever.
Connecting ==
  flow.class = "TCPFlow" /\ \E type \in {"RTS", "CTS"} :
    type \in lost \/ \E m \in DOMAIN net : m.type = type

\* As long as a flow that sends data has bytes that are not acknowledged, one timer is
\* running, the one retx_event points to; none survives the flow's end, though each new
\* acknowledgement cancels one and sets another.
OneTimer ==
  LET running == flow.started /\ ~Connecting /\ flow.last_unacked_seq < flow.size
  IN flow.retx = [event |-> running, live |-> IF running THEN 1 ELSE 0]

=============================================================================
