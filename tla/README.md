# HeirSchedule in TLA+

HeirSchedule is a packet-level simulator (grown from YAPS) of a data center
network in which hosts send only in time slots, on links that two levels of
arbiters have reserved. This directory holds TLA+ modules of the simulator, the
TLC configurations that check them, and proofs for TLAPS. Paths are relative to
`src/`; line numbers are those of the commit beside this directory.

## 1. The system

A fat tree of `k = 10`: five pods of 25 hosts, 5 top-of-rack switches (ToR) and 5
aggregation switches (Agg) each, 25 core switches. The links of the data plane
have **no buffer**: `Queue::enque` (`coresim/queue.cpp:83`) asserts that a queue
is empty. A control plane of its own, with queues, links hosts to the local
arbiter (LA) of their pod, through a control switch per rack (LCS), and the LAs
to one another and to the global arbiter (GA), through one switch (GCS).

The program is a single-threaded discrete-event loop (`coresim/main.cpp:80-118`).
What interleaves is the order of events: handlers are atomic, messages take
time, and events of one instant run in the order of their type numbers
(`EventComparator`, `coresim/event.h:85-94`).

| component | state | operations | talks to |
|---|---|---|---|
| Local arbiter (`node.cpp:375-913`) | six tables of bits by slot mod `T`: `host_is_src`, `ToR2Agg`, `host_is_dst`, `Agg2ToR`; `routing_table` (one pending schedule per pair), `src_dst_data_size_table` | `receive_rts`, `allocate_uplink` (each slot), `receive_ipr`, `receive_ipd`, `receive_ips`, `receive_core_schd`, `receive_core_deny`, restore of links | hosts (RTS, SCHD), LAs (IPR, IPS, IPD), GA (CORE_RTS, CORE_SCHD, CORE_DENY) |
| Global arbiter (`node.cpp:917-1019`) | `CoreOccupationIn`, `CoreOccupationOut` by slot mod `T` | `receive_core_rts`, restore of links | LAs |
| Host (`node.cpp:59-369`, `event.cpp:130-187`) | queue of flows by destination, `next_seq_no`; at the receiver the segments of each flow | flow arrival and RTS, `receive_schd_and_send_data`, `receive_data_packet` | LA, hosts |
| Clock exchange (`node.cpp:108-135, 446-492, 933-970`) | `local_time_bias`, `T3_time`, `master_slave_diff` | SYNC, DELAY_REQ, DELAY_RES between GA and LAs, then LAs and hosts | queues add up the waits |
| Queues and event loop (`queue.cpp`, `event.cpp:189-390`, `ext/dctcpQueue.cpp`) | `packets`, `busy`, the event heap | queuing, processing, arrival | everyone |
| Topology (`topology.cpp:251-824`) | wiring tables, maps | `get_next_hop` | queues |
| Flows: base, pFabric, TCP, DCTCP (`coresim/flow.cpp`, `ext/pfabricflow.cpp`, `ext/tcpflow.cpp`, `ext/dctcpFlow.cpp`) | window, `retx_event`, `received` | `start_flow`, `receive_ack`, `receive_data_pkt`, `handle_timeout`, `increase_cwnd` | queues |
| pFabric's queue, dropping queue (`ext/pfabricqueue.cpp`, `coresim/queue.cpp:179-203`) | `packets`, limit | `enque`, `deque` | flows |
| pHost (`ext/capabilityflow.cpp`, `ext/capabilityhost.cpp`) | capabilities of a flow; at the receiver count, goal, window and timers; one event per host and direction | `start_flow`, `receive`, `send`, `send_capability` | queues |
| Fastpass (`ext/fastpassflow.cpp`, `ext/fastpasshost.cpp`) | packets remaining, acknowledged and allotted | `start_flow`, `send_data_pkt`, `fastpass_timeout`, `receive`; arbiter: `receive_rts`, `schedule_epoch` | queues |
| Ideal (`ext/ideal.cpp`) | the arbiter's list; active flow and event of a host; bytes sent, acknowledged, received | `flow_arrival`, `flow_finished`, `compute_schedule`; `send`; `receive`, `handle_timeout` | each other, by direct calls |
| Magic, Fountain, tree topologies, traffic generator, driver, scripts | – | – | – |

The last six are compiled but `run_experiment` (`run/experiment.cpp`) builds
HeirSchedule only: the comparison transports are modelled as the classes stand, each with
a network below it that may lose packets or let them overtake.

One reservation: an RTS adds bytes to the demand of a pair. At each slot boundary
`allocate_uplink` of the LA of the source looks, for every pair with demand and no
entry, for the first slot of the next `T` (from `arbiter_lag` on) with a free
host and uplink, sets both bits, and asks the LA of the destination (IPR), which
sets its two bits and answers twice: an IPS to the source LA with the switch it
chose, a CORE_RTS to the GA; or it refuses (IPD). The GA sets its two bits and
answers CORE_SCHD, or denies to both LAs. On CORE_SCHD the source LA sends the
schedule to the host, takes a slot off the demand, erases the entry and leaves the
six bits to a `RestoreLinkEvent` at the start of the slot. The host takes the
bytes for the slot off its queue at once and sends them when the slot begins.

What is hard: three arbiters hold parts of a reservation while denials, restores
and new reservations of the same row are under way; the schedule is copied from an
entry found by pair; RTSs race the subtraction of what was scheduled; a late
schedule stops the program; all of it so that two packets never meet on a
bufferless link. Section 7 of this file and `hazards` in `PROJECT.json` list
these at their lines.

## 2. Modules

| module | models | role |
|---|---|---|
| `Fabric` | who sits where, the six links of a schedule, what it is to collide | shared vocabulary |
| `SlotBooking` | – | abstract: hosts book schedules before their slot; booked schedules never meet |
| `Arbitration` | LAs, GA, their packets, restore events, acceptance by the host | the core |
| `FatTree`, `Routing` | `HeirScheduleTopology`: wiring, `get_next_hop`, a packet's way | instance of `Fabric` for `k = 10` |
| `LinkQueue` | queues, busy flags, event order, transmission | data and control plane queues, with `Routing` as the next hop |
| `HostData` | flow arrival to completion | the demand the arbiters see, the bytes the schedules carry |
| `TimeSync` | two-level clock exchange | independent of the rest |
| `Flow` | the handlers of class `Flow` and its subclasses, as operators on a flow | used by `FlowTransport` and `FlowNetwork` |
| `PacketBag` | bags of packets, those of the module `Bags` in a form the prover can use | used by the next two |
| `FlowTransport` | one flow, any network | abstract: what a flow keeps whatever the network does |
| `FlowNetwork` | several flows, over `PFabricQueue`s or over paths of `ProbDropQueue`s | implements `FlowTransport`, flow by flow |
| `CapabilityFlow` | pHost: sender, receiver and their events | |
| `Fastpass` | Fastpass: sender, receiver, arbiter | |
| `Ideal` | Ideal: arbiter, hosts, flows | |
| `Central` | the choice of `Factory` between the two | composes them |
| `MC*` | – | small instances for TLC |
| `ArbitrationProofs` | – | theorems about `Arbitration` |
| `LinkQueueProofs`, `TimeSyncProofs`, `HostDataProofs`, `CapabilityFlowProofs`, `FlowNetworkProofs`, `CentralProofs` | – | theorems about the modules they are named for; `LinkQueueProofs` also has those about `Routing`, `FlowNetworkProofs` those about `FlowTransport` |
| `FiniteFacts` | – | lemmas: least and greatest elements, induction over a set, sums over finite sets |

How they compose: `Arbitration` proves `CollisionFree` of what hosts accept;
`MCLinkQueue` sends exactly the sets of schedules that do not `Collide` (by the
`Fabric` of `Routing`) through the queues and finds that no assertion fails;
`Routing` shows that the ports the code computes lead over the links `Fabric`
names. `LinkQueue` takes the way of each packet, a sequence of queues, as a constant:
`MCLinkQueue` computes it with `get_next_hop` of `Routing`. `PushOrderKept` is proved for any
ways: what is pushed first arrives first, if the two go one way. That an IPS and its CORE_RTS go
one way is an assumption of `MCLinkQueue` that TLC evaluates (`BurstsTakeOneWay`); the two
discharge the one fact about the order of packets that `Arbitration` assumes (`IpsDelivered`: the
IPS of a reservation is handled before its CORE_RTS). In the same way `OnTime` is proved of any
loads whose data packets are spaced where their ways meet (`Spaced`), and TLC evaluates that
schedules that do not `Collide` are spaced (`SchedulesAreSpaced`): `NeverCollide` is about
`Arbitration`, `DataIsOnTime` about the queues, and these carry the one to the other.
`HostData` replaces the arbiters by one step
(`Grant`) that takes `receive_rts` and `generate_full_path` from the same lines
as `Arbitration`, and uses that packets of a host arrive in the order sent
(`OnTime`: all take six hops of equal time).

### Arbitration
- `now` is `ceil(get_current_time() / slot_length_in_s)`, so the current time is
  in the interval `]now-1, now]`; `Tick` passes the start of slot `now`. `due`
  holds the LAs whose `AllocateUplinkEvent` of this instant is pending: they all
  have the same time, and no packet of the system arrives between them.
- The vectors of bits are sets of the indices that are true. A packet or restore
  event is a record in the set `pending`; control packets have no order but the
  one named above.
- `allocate_uplink` is one handler and one loop: `todo` is what it has to visit,
  each visit is one step and nothing else runs until it is done. The order of the
  `unordered_map` and of `random_shuffle` is any order.
- Within a pod, `allocate_downlink` is called inline (`AllocateSamePod`,
  `RefuseSamePod`); the core links are asked for all the same (the data takes six
  hops), with the pair `(a, a)` of the core map.
- Assertions and null dereferences write `failed`, after which nothing happens.
  A late schedule is not excluded: `receive_schd_and_send_data` then stops the
  program, as in the code.
- `RestoreLink` is exact: its event has the time `slot * slot_length_in_s` and the
  highest type number, hence `slot < now` in the first interval after it, and
  nothing else runs while one is overdue (`NoOverdue`).
- `tx`, `announced` and `granted` are histories for the properties.

### FatTree, Routing
Both wiring tables (`topology.cpp:448-507`) are data of the model, since the code
states them as literals. The maps are built as the loops build them: last writer
wins, a missing key reads 0. A queue is its location, node and port; `Far` is
`set_src_dst`. Routing is deterministic, the packet is the only choice.

### LinkQueue
Events carry a time and a type, `Top` is the heap: events that tie may run in any
order, except two pushed by one handler (a heap of two equal elements pops them in
push order). `Way[p]` is the sequence of the queues of a packet, `Level[q]` the place a queue has
in every way through it (the tree has one, since the levels of the tree are passed in order), and
`NextHop` the queue after. A cut-through hop takes `Hdr + Prop`, and the queue is free again
after `Hdr`. `failed = "collision"` is the assertion of `enque`,
`"drop"` the NULL dereference in `Queue::drop`.

### HostData
`per_dst_queues`, `next_seq_no` and `received_seqs` are those of the code.
`get_data_packet` cuts the queue at multiples of `mss`; here it is a function of
the queue and the packet's index, and `ReceiveSchd` makes all packets of a slot as
the loop does. `received_payloads` starts with any value of `Garbage`, because
no constructor sets it.

### TimeSync
A message waits up to `MaxWait` in each of two queues; SYNC and DELAY_REQ collect
the wait (`event.cpp:260-271`), DELAY_RES does not need to. Link times are
symmetric (`queue.cpp:49-57`). Integers stand for seconds: the sum that is halved is
even, two equal one-way delays.

### Flow, FlowTransport, FlowNetwork
A flow is a record of the members of its C++ object, and a handler an operator that gives
the flow after it and the packets it sends; `class` selects what subclasses override.
Sender and receiver are one object, and the sender reads what the receiver writes:
`send_pending_data` passes over sequence numbers in `received` and does nothing when
`received_bytes` is `size`. `recv_till` and `max_seq_no_recv` are functions of `received`.
`retx` has the pointer `retx_event` and the number of pending events that are not
cancelled; the event that fires is freed after its handler, so the pointer is not
null in it. DCTCP never enlarges its window: `increase_cwnd` multiplies it by
`1 - alpha / 2`, and `alpha` follows the `ecn` bit of a `DctcpPacket`, while `Flow::send`
makes a plain `Packet` (`dctcpFlow.cpp:168` reads past it); so any `alpha` in `0..1`.

`FlowTransport` has one flow and a bag of packets: a step of the network loses any of them,
also those just sent, and a timer fires at any time. `FlowNetwork` has the queues of two hosts.
A `PFabricQueue` that is over its limit drops one packet, of the greatest `pf_priority` the
last, and may stay over its limit if that one was shorter; it serves the first packet of the flow
that has the best one. The other network stands for spraying over several paths with
`ProbDropQueue`s. `ImplementsTransport` says that under the mapping `net <- Net(f)`, the packets of
`f` in all queues, each step is a step of `FlowTransport` of every flow or leaves it alone:
what the queues do to one flow on behalf of others is no more than loss and reordering.

### Ideal
Arbiter, hosts and flows call each other directly, so a handler of a flow goes through
`flow_finished` and `compute_schedule` and changes the hosts of other flows in one step.
`compute_schedule` erases finished flows while it goes over the list; the erased flow is
considered all the same, the one after it is passed over (`Visited`, `Considered`). What the code
computes by a loop, a sort or an erasure is a set of one element (`Sorted`, `Kept`, `Visited`, `Matching`),
given by what the result has to be, so that it can be reasoned about without recursion. A host has an
event or not; a cancelled one counts as none, as the code tests for both. Only `sent = size`, not
`sent > size`, ends sending, so a flow that is queued again by its timer, or has a short last
packet, sends until it is acknowledged; `MaxInFlight` bounds that.

### CapabilityFlow
`at_receiver[f]` is what the receiver keeps of a flow, under the names of the class. The
two queues of flows need no variables: a finished flow is dropped when it comes to the
top, so they are the started (heard of) flows that are not finished, in the order of
`CapabilityFlowComparator` and `...AtReceiver`, keys and ties by start time;
`CustomPriorityQueue` looks for its top anew each time, so keys may change. A point of
time is `"ahead"` or `"past"`. `CAPABILITY_HOLD` is true, `CAPABILITY_NOTIFY_BLOCKING` and
`CAPABILITY_MEASURE_WASTE` false (`run/params.h:104-106`), so notifications are left out.

### Fastpass
The arbiter's heap has keys that change under it, so any order of flows is allowed: a
slot takes any set of flows to which none can be added (`Timeslot`), from what the slots of the epoch
before it have left. A schedule is, of each flow, the
number of slots. With every packet acknowledged `next_pkt_to_send` returns no value
(`fastpassflow.cpp:63`): `failed`, after which nothing happens.

## 3. Runs

| run | bounds | shows |
|---|---|---|
| `Core` | 2 pods, 2 pairs that meet at one core, `T = 1`, 3 slots, 6 bytes a pair in RTSs of 3 with slots of 2; fair | types; assertions of the arbiters hold; entries have one packet each; switches agree; schedules keep their links; demand is covered; no pair is booked for ever |
| `Mixed` | 3 pairs, 2 Aggs a pod, 4 cores; a shared rack, a shared destination, a shared core link, a pair within a pod; `T = 2`, 3 slots | one owner per bit, no double booking, no collision; `SlotBooking` is implemented |
| `Routes` | `k = 10` itself: data packets for all pairs of Aggs of 6 hosts in all pods; control packets of all hosts and arbiters | data takes the reserved links and ends at its host |
| `Links` | all collision-free subsets of 6 schedules with 2 packets a slot in 2 slots; all subsets of 6 control packets in bursts, limit 2; fair | no collision, no wait, wakeups, order kept, all arrive |
| `Flows` | 3 flows, 2 destinations, slots of 4 bytes, `T = 2`, 4 slots | bytes and demand |
| `Sync` | GA, 1 LA, 2 hosts, biases -1, 0, 2, waits 0 or 1 in each queue; fair | clocks exact, all synchronised |
| `Transport` | a flow of 3 packets (TCP 2), the last short, of each class (DCTCP also without a short one), over 2 paths, 2 faults; or 3 pFabric flows of 4, 2 and 2 packets, two from one host and one from the other, over queues of 6 bytes, no faults, or one of 3 packets and one of 2 against each other with one early timer; windows 1 to 3 | acknowledgements, one timer, no acknowledgement lost by pFabric, refinement, end of flows |
| `Capabilities` | a flow of 1 packet with a capability of its own and one of 3 without, one sender and receiver, window 1, 2 faults | goal and timer, hosts awake, end of flows |
| `Epochs` | three flows, two of one sender and two to one receiver, 1 fault; Fastpass: 2, 1 and 1 packets, epochs of 2 slots; or Ideal: 2, 1 and 2 packets, the last short, `MaxInFlight` 2 | Fastpass: slots match what remains, sends have a packet; Ideal: list, timers and events agree, no idle pair has a flow waiting; end of flows |
| `Columns`, `Switches`, `Payloads` | – | the disagreements of section 6 |

Why these bounds suffice for the cases of interest: a table of `T = 1` or `2` makes
slots share rows within the horizon; two pairs through one core make the GA deny,
a shared destination makes the LA of the destination and the inline path deny, a
shared rack makes hosts take different Aggs; a core link out that a pair within a pod
shares with one between pods makes the GA deny where all other links are free; two RTSs per pair with slots smaller
than an RTS make an RTS race a schedule and demand span several slots. `MaxSlot`
lets the first rows be used, restored and used again. `MaxBytes`, `MaxSlot`,
`MaxWait` and, in the transports, `MaxInFlight` and `MaxFaults` are the only bounds;
each is a guard. In pHost, Fastpass, Ideal and `FlowNetwork` a fault is a loss, a capability that expires, or
a timer that passes while packets of its flow are under way; timers of a flow that is
silent pass freely, which is what the protocols rely on to recover. With one fault a
packet can be lost and asked for again, with two the second can be lost as well, or
come late. Deadlock is not
checked: every model ends at its bound, or with its load delivered.

Each property has a mutant (`PROJECT.json`): a plausible mistake in a translated
definition that makes it fail in the same run. They stand in the modules marked
"fault".

## 4. Fairness

`run_scenario` takes the next event as long as there is one, and every event has a
finite time. So `LinkQueue` and `TimeSync` assume weak fairness of `Next`.
`Arbitration` has an endless supply of events (`AllocateUplinkEvent` schedules
itself), and abstracts the times of packets; that a packet is handled in the end
is strong fairness of its pair's deliveries (strong, since `Tick` and the
allocations interrupt them), and the loop, due allocations and overdue restores
have weak fairness. Nothing is assumed of arriving demand or of `Tick`.

`CapabilityFlow`, `FlowNetwork`, `Fastpass` and `Ideal` assume weak fairness of `Next` as well:
faults are bounded, so what is sent again gets through in the end. (A queue that overflows is no
fault: pFabric's flows finish however often it drops.) The liveness properties name what the
protocols do not survive, which the code has no retry for: a lost ACK, or RTS or CTS of TCP
(`FlowNetwork`), a lost RTS or ACK (pHost), a lost RTS or SCHEDULE, or an early timeout
(Fastpass), an early timer (Ideal).

## 5. Proofs

All for any values of the constants that satisfy the named assumptions. Every invariant that is
induced on says more than the property; what it adds, and why, is below.

**`ArbitrationProofs`** (`TopologyAssumption`, `SlotAssumption`,
`NoneAssumption`: any `T`, lag, numbers of hosts and switches, any core map). `TypeCorrect`:
`Spec => []TypeOK`. The invariant `IInv` is the conjunction of `TypeOK`,
`SrcOwned`, `DstOwned`, `CoreOwned` (bits set = bits of pending claims, and
claims have different bits), `OneTokenPerEntry`, `SwitchCarried`,
`SchedulesBacked`, `TxCurrent` and `ArbitersNeverFail`. None of these is
inductive alone: that a denial finds its bits set needs its claim to be the only
owner; that a claim is the only owner of a row needs that it was set when
the bit was clear, and that no other release cleared it; that an entry is there
when a schedule comes needs that the packet is its only token; and that accepted
schedules do not collide needs that each one has its restore event still pending,
hence its bits, up to the end of its slot. The module proves `Init => IInv`, one
lemma per action, and from `IInv`: `BitsAlwaysOwned`, `NeverDoubleBooked`,
`ArbitersSafe`, `EntriesOwned`, `SwitchesAgree`, `SchedulesKeepLinks`,
`NeverCollide`, and `Refinement` (`Spec => Booking!Spec`).
`DemandAlwaysCovered` has an invariant of its own kind (arithmetic of `Served`).
`IpsDelivered` is a guard of the model, not of the proof.

**`LinkQueueProofs`** (`LinkAssumption`: any queues, ways, loads, send times and link times). Three
layers. `WakeInv` = `TypeOK`, `OnWay` (a packet in a queue or on a link is where its way has it)
and `BusyQueuesAwake`: a queue takes its wakeup from the event that runs, so that the flag and the
event never part needs all three kinds of events at once. `FifoInv` adds `OnePlace` and
`Somewhere` (a packet of the load is in exactly one place), `Ahead` for packets that go one
way (the first is further, or in the same queue before the other, or on the same link with
an event that comes first), and `Pace`: while a packet is on a link, the queue it came from
sends no other before its header is out. `PushOrderKept` alone says nothing of packets that
have not arrived; `Pace` keeps the one behind from being on the link with an earlier event. `TimeInv` adds,
under the hypothesis `Spaced`, `Punctual` (each event of a data packet is due at exactly its
send time and the time of its hops), `Alone` (a packet in a zero-buffer queue is the only one
and leaves at once) and `Free` (a zero-buffer queue that is busy and empty is so for a header's
time after the packet it sent was due).
`Spaced` is a hypothesis about `Loads`, `SendTime` and `Way` only; `MCLinkQueue` evaluates it.

The same module has the theorems about `Routing`: a data packet is always in one of the six queues of
its schedule (`CourseInv`), whatever its hosts, of all 125, and aggregation switches. `FarOfCourse` is the
arithmetic of ports: a node is its pod or rack times five and its port there. `DataFollowsSchedule` and
`DataReachesDst` follow. Their hypotheses are `DataIsScheduled`, what a schedule may name,
and `PortsLead`: that the two wiring tables and the maps built from them agree, for all pairs of aggregation
switches. That is a fact about two tables of 125 numbers; TLC evaluates it (`TablesAgree` in
`MCLinkQueue`).

**`TimeSyncProofs`** (`SyncAssumption`: any pods and hosts, biases, link times and waits). `Inv`
says of each message what it knows: the stamp of a SYNC is when it was sent, by the clock of the
master, the wait so far apart (`StampOK`, also for `T3_time` and the answer to it); once it is
received, `master_slave_diff` is the difference of the two clocks and the time of the links
(`DiffOK`). The master of an exchange is right, or the GA, its slave not yet corrected
(`Ends`); a slave has one exchange at a time (`OneExchange`), and hosts are corrected after
their arbiter (`TopDown`), since they would otherwise be set to a clock that is still to be
changed.

**`HostDataProofs`** (`HostAssumption`: any flows, sizes, destinations, `mss` and slot length).
`HostInv` has for each flow that the segments on the wire and those received tile the bytes
up to `next_seq_no` (`Tiles`: every byte in exactly one), and for each destination that its queue
has one entry of each flow that has bytes left, with just those. `BytesConserved` counts segments over
single bytes and cannot be added up; tiles can be joined. The lemmas follow
the code: the queue as a line of bytes, cut by packets at multiples of `mss` (`CutTiles`),
entry by entry (`EntryTiles`), and what is left of it (`RestFacts`); `SlotIsFull` says that a
queue which does not fit in the slot fills it, by counting the bytes of the slot
entry by entry (`SumOfSizes`). With it `DemandCoversQueue` is inductive: a schedule takes
a whole slot off the queue, or empties it. `FinishedIsComplete` rests on `RecvTillFacts`:
the walk over the segments ends at the flow's size exactly when no byte is missing.

**`CapabilityFlowProofs`** (`CapabilityAssumption`: any flows, hosts, windows, faults). `Inv` =
`SenderOK`, `SendersAwake`, `ReceiverOK`, `ReceiversAwake`, `NetOK`. What a receiver knows of a
flow it has not heard of is its initial state; packets under way are of started flows, and a capability
that a sender holds was given (`Given`), so its number is below the goal; a timer stands
exactly when the goal is reached. A host sleeps only when no flow of it is live, which has
to be kept by packets that change the state of another flow of the same host.

**`FlowNetworkProofs`** (`WindowAssumption`, `ConfigAssumption`, `KindsOfConfigs`: any number of
flows of the four classes, each with some bytes, any windows, sizes of packets and of queues, any
number of paths, any faults). Three parts.

*One flow.* `FlowInv` has a flow, the bag of its packets and the kinds lost in one of three phases:
nothing sent (`Starting`), the RTS or CTS of TCP under way (`Waiting`), or `Open`: everything below
the cumulative acknowledgement has been received, so has what any ACK under way acknowledges, and
the timer is pending exactly when bytes are outstanding. `ReceivedOK` has `received_bytes` as the sum
of the sizes of the packets received, each once; the arithmetic of `Mss` (the last packet may be short,
DCTCP counts beyond `size`) is in lemmas of its own. It is kept by whatever a handler does and
whatever the network then loses (`Carried`: no packet is under way that was not before or was not
sent). `AnyNetworkIsSafe` states the three properties for any network that loses and reorders, not only
those of `FlowNetwork`.

*The queues.* The packets of a flow in all queues, by host, path and place, are a bag: a packet
has as many copies as places (`InQueues`). One packet that enters a queue which is over its limit, or
leaves one, changes the bag of its own flow by that packet and the one dropped, and the bag of
another at most by the one dropped. What a handler sends enters the queues packet by packet in any
order: `Enqueued` is a function over the subsets of what is sent, so what it gives is shown by
induction over these. Hence every action of the queues is a step of `FlowTransport` of each
flow, its sender's or but a loss (`NetworkStep`): with `NetworkInv` this is `EachFlowHasANetwork`, the
refinement `ImplementsTransport`, and `FlowInv` of each flow gives `NetworkTypesOK`, `AcksAreTrue` and
`TimerIsOne`.

*pFabric's ranks.* `AcksAreSpared` is `PFabricSparesAcks`, about all packets in a queue at once.
That no ACK is lost needs that a queue over its limit holds something worse: data, whose
priority is what its flow has left, which must not be 0 (it would rank as an ACK) nor below 0 (it would
wrap). It is so because the ACKs come in the order they were sent: the selective acknowledgements of
one that came late would be counted with bytes the cumulative one already has. They come in order
because the queue serves a flow in its order, and since none is lost. So `RankedInv` has all
of it together: `Orderly` (each packet in its sender's queue, ACKs at priority 0 and nothing
else, those of a flow in order), `AcksSpared`, and `RankedFlow` for each flow (`Rankable`: what remains is
above 0; every ACK under way is of bytes received; and at most as many packets of the flow under way as it has,
and as many again for each early timer). The last bounds the ACKs a queue can hold, which is what
the hypothesis `AcksFit` is about: queues hold one ACK of each packet of the flows that a host receives,
and another for each early timer; there is one path; sizes are below 2^32; no flow is a
`TCPFlow` (its CTS ranks with ACKs), nor a `DctcpFlow` whose last packet is short. A queue smaller
than that can hold nothing but ACKs and must drop one. TLC evaluates it for the networks of `Transport`
(`AcksAlwaysFit`), where it is met with equality.

**`CentralProofs`** (`FastpassAssumption`, `CentralAssumption`: any flows, hosts, sizes, length of an
epoch, faults). Fastpass: what
a flow may still be allotted, or be made to send, is in three places: the arbiter's count, the
schedules and requests under way, and the sender's pending events. The packets under way are a bag, weighed for each
flow twice: by the slots they bring or ask for (`Dues`) and by the data packets and
acknowledgements among them (`Flights`). `Balanced` says that what remains, what is acknowledged
and what flies are at most the size of the flow, and what is granted at most what remains, and
just that if no message was lost. Neither holds alone: a timeout makes what remains again what is not
acknowledged, which is right only if no packet flies, and the arbiter takes over the count
of an RTS whatever it had, which is right only if nothing is granted while one is under way. So a
flow has at most one timer, and only when nothing remains; and `PacketsOK` has the count
of an RTS equal to what remains for as long as it is under way. From there on
`SendersHaveData`: who is made to send has something left, hence something not acknowledged.

Ideal, in the same module: `ScheduleFacts` says what one pass of `compute_schedule` does to any list,
and `ArrivalFacts` and `FinishFacts` what the calls that lead to it do. `ArbiterOK` is
`ArbiterConsistent` with what makes it inductive: a flow with a timer is neither in the list nor
active, so it cannot be sent past its size, and its timer can put it in the list again. `CalmOK` is
what holds as long as no timer fires early: the list has no finished flow (so the pass erases none and passes
over none), has every flow that is to be sent, and each active flow; a flow in it that has sent
just its size was queued again, with nothing of it under way (`Counted`), so that the
acknowledgement that finishes a flow without a new schedule (`ideal.cpp:180`) finds it out of the
list. That is why `NoPairIdle` survives steps that make no schedule.
`CentralInv` puts the two together: the one that does not run rests, while `faults` and `early`,
which both have, change.

**`FiniteFacts`** proves what these share: least elements, induction over the naturals and over
the subsets of a finite set in the form of set membership (the library's induction theorems
take operators), and the laws of `SumFunctionOnSet`: adding an element, equal terms, sums of
sums, and the size of a disjoint union.

Only model-checked: liveness (`EntrySettled`, `AllArrive`, `AllSynced`, the ends of flows), since
the prover has no rule for fairness. Every invariant that a passing run checks, and every action property
and refinement, is stated by a theorem.

## 6. Disagreements found

1. `structure.md:65-66` documents the core tables as `T * k^2/4 * k`, indexed by a
   port of the core switch; the code allocates `k/2` columns and indexes them by
   the number of an aggregation switch in the network (run `Columns`). With
   `k = 10` the index (at most 24) stays inside the word a `vector<bool>` of 5
   keeps, which is why `Arbitration` can index by that number.
2. `structure.md:74-80`: the two control switches forward by source and
   destination. The switch of a rack uses a port computed from the number of the
   rack (run `Switches`); the switch between arbiters tests the type of the queue's
   far end, which is the switch itself, so packets between LAs leave by the GA's
   queue. Delivery looks at the packet and is right; by chance the second gives
   an IPS and its CORE_RTS one path, which the order assumption uses.
3. `node.cpp:355` asserts on `received_payloads`, which nothing initialises (run
   `Payloads`).

The models also show behaviour that no document of the repository speaks of, and that the
properties therefore except:

- Flows: a sender passes over what the receiver has, so if the acknowledgement of the last
  bytes is lost its timer fires for ever without a packet (`flow.cpp:67,75`).
- DCTCP repeats the receiver of `Flow` without the cut of `recv_till` at `size`
  (`dctcpFlow.cpp:158`): a flow whose last packet is short is acknowledged beyond its size and
  never finishes (`NoRetry`).
- TCP: the RTS and CTS are sent once (`tcpflow.cpp:14`).
- Ideal: if a timer fires while packets are under way, an acknowledgement may finish the flow in
  the list, without a new schedule when it has sent just its size (`ideal.cpp:180`); the pass
  that erases it takes the finished flow for a candidate and passes over the next one
  (`ideal.cpp:54-65`); flows may then wait though their hosts are idle, and never finish. Two
  sources may also send to one destination, since a host none of whose flows is taken keeps the
  flow it has (`ideal.cpp:65-85`).

## 7. Not modelled

- Real-valued times: `Arbitration` has the time in slots, `LinkQueue` and
  `TimeSync` small integers. `get_oracle_fct` is a formula over rates.
- Loss in HeirSchedule: no handler copes with it. A control queue that overflows stops the program
  (`LinkQueue`, `"drop"`); `Arbitration` has no loss.
- `uint32_t` sums of demand above 4 GiB; the use of `packet->src` after `delete` in
  the sync handlers (the value survives in practice; modelled as read).
- Preemption (`params.preemptive_queue` is 0, `busy_events` is never filled) and PIAS: `params.pias`
  is never read from a file and stays 0; were it set, queues 1 and 2 would be filled and
  never drained (`node.cpp:190-236`).
- The tree topologies of pFabric, BigSwitch and Fastpass: never built (`experiment.cpp:166-175` is
  commented out), and not able to carry a packet at this commit: `Host` creates no queue
  (`node.cpp:60-66`), and a host's type is its host type, so `q->dst->type == HOST`
  (`topology.cpp:85`) does not hold of it. `FlowNetwork` therefore has only the queues of hosts.
- Magic (it decides by remaining times in real numbers) and Fountain (never made by itself).
- Traffic generation (random draws; the models take any order of arrivals), statistics, scripts.
- The rule that ends a run after 100000 events of one type in a row (`main.cpp:118`): no
  property of a protocol depends on it.
- Sizes of packets in pHost: a packet sent again has the payload of `next_seq_no`, not of
  the number asked for (`capabilityflow.cpp:57`), and counts as received all the same.
- Start times of Fastpass slots: a schedule in time is moved to its arrival
  (`fastpasshost.cpp:45`). `schedule_proc_evt` reads `arbiter_proc_evt` before anything sets
  it (`fastpasshost.cpp:114`); the model starts after that.

## 8. Plan

Done, in this order: `Fabric`, `SlotBooking`, `Arbitration` and its proofs;
`FatTree`, `Routing`; `LinkQueue`; `HostData`; `TimeSync`; `CapabilityFlow`; `Fastpass`;
`Flow`, `FlowTransport` and `FlowNetwork`; `Ideal`.

Then the proofs: `Arbitration`; `TimeSync`; `LinkQueue`; `FlowTransport`; `CapabilityFlow`;
`HostData`; `Fastpass`; `Ideal`; `FlowNetwork`, its refinement first, then pFabric's ranks; `Routing`.

What is left is what section 7 names and the liveness properties, which stay with TLC.
