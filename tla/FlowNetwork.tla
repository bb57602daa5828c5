----------------------------- MODULE FlowNetwork -----------------------------
(***************************************************************************)
(* Flows of module Flow between two hosts, over the queues of the code.    *)
(* A host's queue is a PFabricQueue of a limited size (pFabric: the packet *)
(* that matters least is dropped, the flow that matters most is served),   *)
(* or it stands for the paths a spraying topology spreads packets over,    *)
(* with ProbDropQueues that drop any packet.  What else is on the way is   *)
(* as fast, and keeps the order of a path.                                 *)
(*                                                                         *)
(* What a handler sends is put in the queues in the same step, in any      *)
(* order: its PacketQueuingEvents are of its own instant.                  *)
(***************************************************************************)
EXTENDS Flow, Sequences

CONSTANTS
  Configs,        \* [queue_type, paths, max_faults, users]: users[f] = [class,
                  \* size, src]; max_faults bounds losses and early timers
  NumFlows,
  HdrSize,
  LimitBytes,     \* Queue::limit_bytes of a PFabricQueue
  Word            \* 2^32

Flows == 1 .. NumFlows
Host == {"a", "b"}

ASSUME ConfigAssumption ==
  /\ \A c \in Configs :
       /\ c.queue_type \in {"PFabricQueue", "ProbDropQueue"}
       /\ c.paths \in Nat \ {0} /\ c.max_faults \in Nat /\ Len(c.users) \in Flows
       /\ c.users \in Seq([class : FlowClass, size : Nat \ {0}, src : Host])
  /\ {NumFlows, HdrSize, LimitBytes} \subseteq Nat /\ Word \in Nat \ {0}

VARIABLES
  config,         \* the configuration, one of Configs
  flow,
  queue,          \* Queue::packets of a host and path
  lost,           \* history: for a flow, the types of packets lost
  faults          \* random losses and early timers so far

vars == <<config, flow, queue, lost, faults>>

Users == DOMAIN config.users
Src(f) == config.users[f].src
Other(h) == CHOOSE g \in Host : g # h
Paths == 1 .. config.paths

Kind(c, f) == IF f \in DOMAIN c.users THEN c.users[f]
              ELSE [class |-> "Flow", size |-> 1, src |-> "a"]

Init ==
  /\ config \in Configs
  /\ flow = [f \in Flows |-> New(Kind(config, f).class, Kind(config, f).size)]
  /\ queue = [h \in Host |-> [i \in Paths |-> <<>>]]
  /\ lost = [f \in Flows |-> {}] /\ faults = 0

(***************************************************************************)
(* Packets: of a flow, at the host that sends them.  Acknowledgements have *)
(* priority 0.                                                             *)
(***************************************************************************)
Sender(f, m) == IF m.type \in {"DATA", "RTS"} THEN Src(f) ELSE Other(Src(f))

Ranked == config.queue_type = "PFabricQueue"

Sent(f, r) ==
  {[flow |-> f, pkt |-> m,
    pf_priority |-> IF Ranked /\ m.type = "DATA" THEN get_priority(r.flow, Word) ELSE 0] :
     m \in r.sent}

PacketSize(x) ==
  HdrSize + IF x.pkt.type = "DATA" THEN PayloadOf(flow[x.flow], x.pkt.seq) ELSE 0

BytesInQueue(q) == SumFunction([n \in DOMAIN q |-> PacketSize(q[n])])

\* The packets of a flow that are on their way, in the queues q.
Places(q, f) ==
  UNION {{<<h, i, n>> : n \in {k \in DOMAIN q[h][i] : q[h][i][k].flow = f}} :
           h \in Host, i \in Paths}

PacketAt(q, p) == q[p[1]][p[2]][p[3]].pkt

InQueues(q, f) ==
  LET own == Places(q, f)
  IN [m \in {PacketAt(q, p) : p \in own} |-> Cardinality({p \in own : PacketAt(q, p) = m})]

Net(f) == InQueues(queue, f)

(***************************************************************************)
(* The queues.                                                             *)
(***************************************************************************)
Priorities(q) == {q[n].pf_priority : n \in DOMAIN q}

DropArrival(q) == Len(q)                           \* fault: what comes last is dropped
\* PFabricQueue::enque: of the packets that matter least, the last.
Worst(q) == Max({n \in DOMAIN q : q[n].pf_priority = Max(Priorities(q))})

BestPacket(q) == Min({n \in DOMAIN q : q[n].pf_priority = Min(Priorities(q))})

LastOfBest(q) ==                                   \* fault: order of a flow reversed
  Max({n \in DOMAIN q : q[n].flow = q[BestPacket(q)].flow})
\* PFabricQueue::deque: the first packet of the flow that has the best packet.
Best(q) == Min({n \in DOMAIN q : q[n].flow = q[BestPacket(q)].flow})

Out(q) == IF Ranked THEN Best(q) ELSE 1

Removed(q, n) == [k \in 1 .. Len(q) - 1 |-> IF k < n THEN q[k] ELSE q[k + 1]]

\* enque, in queue i of the host that sends x; n has the queues and the losses so far.
Enque(n, x, i) ==
  LET h == Sender(x.flow, x.pkt)
      q == Append(n.queue[h][i], x)
      full == Ranked /\ BytesInQueue(q) > LimitBytes
      worst == q[Worst(q)]
  IN [queue |-> [n.queue EXCEPT ![h][i] = IF full THEN Removed(q, Worst(q)) ELSE q],
      lost |-> IF full THEN [n.lost EXCEPT ![worst.flow] = @ \union {worst.pkt.type}]
               ELSE n.lost]

\* All the ways in which the packets of S get into the queues: in any order, and sprayed
\* by get_next_hop over any of the paths.
Enqueued(S, rest) ==
  LET outcomes[T \in SUBSET S] ==
        IF T = {} THEN {[queue |-> rest, lost |-> lost]}
        ELSE UNION {{Enque(n, x, i) : n \in outcomes[T \ {x}], i \in Paths} : x \in T}
  IN outcomes[S]

\* What comes of a handler of flow f, of which results has the outcomes.
Becomes(f, results, rest) ==
  /\ \E r \in results, other \in {rest} :
       /\ flow' = [flow EXCEPT ![f] = r.flow]
       /\ \E sent \in {Sent(f, r)} : \E n \in Enqueued(sent, other) :
            queue' = n.queue /\ lost' = n.lost
  /\ UNCHANGED config

Fault == faults < config.max_faults /\ faults' = faults + 1

Leaving(h, i) == queue[h][i][Out(queue[h][i])]

WithoutBest(h, i) ==                               \* fault: not the one delivered
  [queue EXCEPT ![h][i] = Removed(@, BestPacket(@))]
\* QueueProcessingEvent, deque
Without(h, i) == [queue EXCEPT ![h][i] = Removed(@, Out(@))]

PacketArrival(h, i) ==
  /\ i \in Paths /\ queue[h][i] # <<>>
  /\ \E x \in {Leaving(h, i)} :
       Becomes(x.flow, Receive(flow[x.flow], x.pkt), Without(h, i))
  /\ UNCHANGED faults

\* ProbDropQueue::enque has dropped the packet: whether on its way in or just before it
\* would arrive, nobody can tell.
ProbDrop(h, i) ==
  /\ ~Ranked /\ Fault
  /\ i \in Paths /\ queue[h][i] # <<>>
  /\ queue' = Without(h, i)
  /\ LET x == Leaving(h, i) IN lost' = [lost EXCEPT ![x.flow] = @ \union {x.pkt.type}]
  /\ UNCHANGED <<config, flow>>

(***************************************************************************)
(* The flows.                                                              *)
(***************************************************************************)
StartFlow(f) ==
  /\ f \in Users /\ ~flow[f].started
  /\ Becomes(f, {Start(flow[f])}, queue) /\ UNCHANGED faults

\* The timer fires when nothing of the flow is on its way, or too early.
RetxTimeout(f) ==
  /\ f \in Users /\ flow[f].retx.live > 0
  /\ IF Places(queue, f) = {} THEN UNCHANGED faults ELSE Fault
  /\ Becomes(f, {HandleTimeout(flow[f])}, queue)

Next ==
  \/ \E h \in Host, i \in Paths : PacketArrival(h, i) \/ ProbDrop(h, i)
  \/ \E f \in Users : StartFlow(f) \/ RetxTimeout(f)

Spec == Init /\ [][Next]_vars

\* run_scenario takes the next event as long as there is one.
FairSpec == Spec /\ WF_vars(Next)

(***************************************************************************)
(* Properties.                                                             *)
(***************************************************************************)
AnyNetwork(f) == INSTANCE FlowTransport WITH
  flow <- flow[f], net <- Net(f), lost <- lost[f],
  Kinds <- {[class |-> Kind(c, f).class, size |-> Kind(c, f).size] : c \in Configs}

ASSUME KindsOfConfigs == \A f \in Flows : AnyNetwork(f)!KindAssumption

\* Whatever the queues do with the packets of several flows, each flow has but a
\* network that reorders and loses packets.
ImplementsTransport ==
  /\ \A f \in Flows : AnyNetwork(f)!Init
  /\ [][\A f \in Flows : UNCHANGED AnyNetwork(f)!vars \/ AnyNetwork(f)!Next]_vars

\* Every variable has its type (one invariant for the module).
TypeOK ==
  /\ config \in Configs
  /\ faults \in 0 .. config.max_faults
  /\ \A f \in Flows : AnyNetwork(f)!TypeOK

\* What the sender and the acknowledgements under way believe to have been received
\* has been, without a gap, and a finished flow has received each byte (FlowTransport).
AckedWasReceived == \A f \in Flows : AnyNetwork(f)!AckedWasReceived

\* A flow that has sent and has bytes not acknowledged has one timer pending, the one
\* retx_event points to, and any other flow none (FlowTransport).
OneTimer == \A f \in Flows : AnyNetwork(f)!OneTimer

\* Under pFabric no acknowledgement is lost, though a full queue drops data, its own
\* arrival or not; and acknowledgements keep their order, so that what a flow takes to
\* remain, its priority, never falls to 0 and wraps to the worst of all.
PFabricSparesAcks ==
  Ranked => \A f \in Users :
    /\ "ACK" \notin lost[f]
    /\ ~flow[f].finished =>
         flow[f].size - flow[f].last_unacked_seq - flow[f].scoreboard_sack_bytes > 0

\* When it is so, for all sizes and numbers of flows: a PFabricQueue (one path) holds an
\* acknowledgement of each packet of the flows that its host receives, and another for
\* each early timer; sizes are below 2^32; and no flow is a TCPFlow, whose CTS has the
\* priority of acknowledgements, or a DctcpFlow that is acknowledged beyond its size.
AcksFit(c) ==
  c.queue_type = "PFabricQueue" =>
    /\ c.paths = 1
    /\ \A f \in DOMAIN c.users :
         /\ c.users[f].class # "TCPFlow" /\ c.users[f].size < Word
         /\ c.users[f].class = "DctcpFlow" => c.users[f].size % Mss = 0
    /\ \A h \in Host :
         HdrSize * SumFunctionOnSet(
           [f \in DOMAIN c.users |-> (1 + c.max_faults) * Cardinality(Seqs(c.users[f]))],
           {f \in DOMAIN c.users : c.users[f].src # h}) <= LimitBytes

\* Each flow is finished in the end, whatever data is lost, unless an acknowledgement
\* is lost (the sender may then pass over for ever what the receiver has, and send
\* nothing, its timer notwithstanding), or the RTS or CTS of a TCPFlow; or the flow is a
\* DctcpFlow whose last packet is short: it is acknowledged beyond its size.
NoRetry(f) ==
  \/ lost[f] \ {"DATA"} # {}
  \/ flow[f].class = "DctcpFlow" /\ flow[f].size % Mss # 0

FinishedUnlessAckLost ==
  \A f \in Flows : <>(f \notin Users \/ flow[f].finished \/ NoRetry(f))

=============================================================================
