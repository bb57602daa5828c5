--------------------------- MODULE CapabilityFlow ---------------------------
(***************************************************************************)
(* pHost, a transport driven by the receiver (classes CapabilityFlow and   *)
(* CapabilityHost, ext/capabilityflow.cpp, ext/capabilityhost.cpp): a      *)
(* sender announces a flow by an RTS, and sends one data packet for each   *)
(* capability it is given; a short flow starts with capabilities of its    *)
(* own.  A receiver hands out capabilities one at a time, to the flow with *)
(* the fewest packets left that may have one, and asks again for what is   *)
(* missing when it has been silent for a while.                            *)
(*                                                                         *)
(* Times are left out.  A point of time that a timer waits for is ahead or *)
(* past; capabilities expire at any time.  Packets may overtake each other *)
(* and be lost.  Losses, expiries and timers that pass while packets of    *)
(* their flow are still under way are MaxFaults in all.                    *)
(***************************************************************************)
EXTENDS Integers, FiniteSets, FiniteSetsExt

CONSTANTS
  NumFlows,
  Hosts,
  Src, Dst,             \* host of a flow
  SizeInPkt,            \* Flow::size_in_pkt of a flow
  CapabilityInitial,    \* params.capability_initial
  CapabilityWindow,     \* params.capability_window
  MaxFaults             \* bound

Flows == 1 .. NumFlows  \* in the order in which they start

ASSUME CapabilityAssumption ==
  /\ NumFlows \in Nat
  /\ Src \in [Flows -> Hosts] /\ Dst \in [Flows -> Hosts]
  /\ SizeInPkt \in [Flows -> Nat \ {0}]
  /\ CapabilityInitial \in Nat /\ CapabilityWindow \in Nat \ {0} /\ MaxFaults \in Nat

VARIABLES
  started, finished,           \* sets of flows
  capabilities,                \* of a flow, at its sender, not expired
  remaining_pkts_at_sender,
  host_proc_event,             \* hosts with a HostProcessingEvent pending
  at_receiver,                 \* what the receiver knows of a flow
  hold_on,
  capa_proc_evt,               \* of a host: none, a normal one or a timeout
  net,                         \* packets on their way
  faults,                      \* losses, expiries and early timers so far
  lost                         \* history: RTSs and ACKs lost

sender == <<started, finished, capabilities, remaining_pkts_at_sender, host_proc_event>>
receiver == <<at_receiver, hold_on, capa_proc_evt>>
vars == <<sender, receiver, net, faults, lost>>

Capability == [seq_num : Nat, data_seq_num : Nat]

InitCapaSize(f) == IF SizeInPkt[f] <= CapabilityInitial THEN SizeInPkt[f] ELSE 0

Init ==
  /\ started = {} /\ finished = {}
  /\ capabilities = [f \in Flows |-> {}]
  /\ remaining_pkts_at_sender = SizeInPkt
  /\ host_proc_event = {}
  /\ at_receiver = [f \in Flows |->
       [rts_received |-> FALSE, finished |-> FALSE, packets_received |-> {},
        capability_count |-> 0, capability_goal |-> SizeInPkt[f],
        largest_cap_seq_received |-> -1, last_capa_data_seq_num_sent |-> -1,
        redundancy_ctrl_timeout |-> "none", window_timeout |-> "ahead"]]
  /\ hold_on = [h \in Hosts |-> 0]
  /\ capa_proc_evt = [h \in Hosts |-> "none"]
  /\ net = {} /\ faults = 0 /\ lost = {}

\* The top of a queue of flows: the least key, of several the first started.
Top(S, key) ==
  CHOOSE f \in S : \A g \in S : key[f] < key[g] \/ (key[f] = key[g] /\ f <= g)

(***************************************************************************)
(* The sender.  active_sending_flows are the flows started and not         *)
(* finished: finished ones are dropped when they come to the top.          *)
(***************************************************************************)
RtsPkt(f) == [type |-> "RTS", flow |-> f]

\* assign_init_capability
InitCapabilities(f) ==
  {[seq_num |-> i, data_seq_num |-> i] : i \in 0 .. InitCapaSize(f) - 1}

StartFlow(f) ==
  /\ f \notin started /\ \A g \in Flows : g < f => g \in started
  /\ started' = started \union {f}
  /\ capabilities' = [capabilities EXCEPT ![f] = InitCapabilities(f)]
  /\ net' = net \union {RtsPkt(f)}
  /\ host_proc_event' = IF capabilities'[f] = {} THEN host_proc_event
                        ELSE host_proc_event \union {Src[f]}
  /\ UNCHANGED <<finished, remaining_pkts_at_sender, receiver, faults, lost>>

MaySend(h) == {f \in started \ finished : Src[f] = h /\ capabilities[f] # {}}

\* send: the packet a capability is used for.
DataPkt(f, c) ==
  [type |-> "DATA", flow |-> f, seq_num |-> c.seq_num, data_seq |-> c.data_seq_num]

\* Any capability may be the next to expire: they come in any order, and those of the
\* start last longer.  Another event is set in the place of the one processed.
SendPendingData(f) ==
  /\ \E c \in capabilities[f] :
       /\ capabilities' = [capabilities EXCEPT ![f] = @ \ {c}]
       /\ net' = net \union {DataPkt(f, c)}
  /\ UNCHANGED host_proc_event

\* HostProcessingEvent: send, with the queue idle.  With the queue busy the event is
\* replaced by a later one.
Send(h) ==
  /\ h \in host_proc_event
  /\ IF MaySend(h) = {}
     THEN /\ host_proc_event' = host_proc_event \ {h}
          /\ UNCHANGED <<capabilities, net>>
     ELSE SendPendingData(Top(MaySend(h), remaining_pkts_at_sender))
  /\ UNCHANGED <<started, finished, remaining_pkts_at_sender, receiver, faults, lost>>

\* Definitions marked "fault" are wrong on purpose and used nowhere.
WakeSenderIfIdle(h) ==                             \* fault: an idle host stays so
  IF capabilities = [f \in Flows |-> {}] THEN host_proc_event ELSE host_proc_event \union {h}
WakeSender(h) == host_proc_event \union {h}

ReceiveCapability(m) ==
  /\ m.type = "CAPA"
  /\ IF m.flow \in finished
     THEN UNCHANGED <<capabilities, remaining_pkts_at_sender, host_proc_event>>
     ELSE /\ capabilities' = [capabilities EXCEPT ![m.flow] =
               @ \union {[seq_num |-> m.seq_num, data_seq_num |-> m.data_seq_num]}]
          /\ remaining_pkts_at_sender' = [remaining_pkts_at_sender EXCEPT ![m.flow] = m.remaining]
          /\ host_proc_event' = WakeSender(Src[m.flow])
  /\ net' = net \ {m}
  /\ UNCHANGED <<started, finished, receiver, faults, lost>>

\* The FlowFinishedEvent of the same instant is part of the step: no other packet of
\* the flow can arrive in between, over the same last link.
ReceiveAck(m) ==
  /\ m.type = "ACK"
  /\ finished' = finished \union {m.flow}
  /\ net' = net \ {m}
  /\ UNCHANGED <<started, capabilities, remaining_pkts_at_sender, host_proc_event,
                 receiver, faults, lost>>

(***************************************************************************)
(* The receiver.  active_receiving_flows are the flows heard of that lack  *)
(* packets: the others are dropped when they come to the top.              *)
(***************************************************************************)
Missing(f, r) == (0 .. SizeInPkt[f] - 1) \ r.packets_received

remaining_pkts == [f \in Flows |-> Cardinality(Missing(f, at_receiver[f]))]

\* receive_rts, set_capability_count
HeardOf(f, r) ==
  IF r.rts_received THEN r
  ELSE [r EXCEPT !.rts_received = TRUE,
                 !.capability_count = InitCapaSize(f),
                 !.last_capa_data_seq_num_sent = InitCapaSize(f) - 1,
                 !.redundancy_ctrl_timeout =
                    IF InitCapaSize(f) = r.capability_goal THEN "ahead" ELSE @]

AfterRtsCancelled(e) == IF e = "timeout" THEN "none" ELSE "normal"  \* fault: not set again
\* A timeout is cancelled, and unless an event is pending a normal one is set.
AfterRts(e) == "normal"

HostHears(f) ==
  IF at_receiver[f].rts_received THEN UNCHANGED <<hold_on, capa_proc_evt>>
  ELSE /\ hold_on' = [hold_on EXCEPT ![Dst[f]] = InitCapaSize(f)]
       /\ capa_proc_evt' = [capa_proc_evt EXCEPT ![Dst[f]] = AfterRts(@)]

ReceiveRts(m) ==
  /\ m.type = "RTS"
  /\ IF m.flow \in finished THEN UNCHANGED receiver
     ELSE /\ at_receiver' = [at_receiver EXCEPT ![m.flow] = HeardOf(m.flow, @)]
          /\ HostHears(m.flow)
  /\ net' = net \ {m}
  /\ UNCHANGED <<sender, faults, lost>>

AfterData(f, r, m) ==
  LET got == [r EXCEPT !.packets_received = @ \union {m.data_seq},
                       !.largest_cap_seq_received = Max({@, m.seq_num})]
  IN [got EXCEPT !.finished = @ \/ Missing(f, got) = {}]

\* send_ack
AckPkt(f) == [type |-> "ACK", flow |-> f]

\* Each data packet of a flow that is complete is answered by an ACK.
ReceiveData(m) ==
  /\ m.type = "DATA"
  /\ IF m.flow \in finished
     THEN net' = net \ {m} /\ UNCHANGED receiver
     ELSE LET f == m.flow
              r == AfterData(f, HeardOf(f, at_receiver[f]), m)
          IN /\ at_receiver' = [at_receiver EXCEPT ![f] = r]
             /\ HostHears(f)
             /\ net' = (net \ {m}) \union
                       (IF Missing(f, r) = {} THEN {AckPkt(f)} ELSE {})
  /\ UNCHANGED <<sender, faults, lost>>

NextUnwrapped(f, r) ==                             \* fault: past the end
  r.last_capa_data_seq_num_sent + 1
\* get_next_capa_seq_num: the next packet missing after the one asked for last, or from
\* received_until, the first missing.  Its loop of size_in_pkt steps finds it.
NextCapaSeqNum(f, r) ==
  LET from == (r.last_capa_data_seq_num_sent + 1) % SizeInPkt[f]
      later == {s \in Missing(f, r) : s >= from}
  IN IF later # {} THEN Min(later) ELSE Min(Missing(f, r))

capability_gap(r) == r.capability_count - r.largest_cap_seq_received

RenewedPlain(f, r) ==                              \* fault: goal not raised
  IF r.redundancy_ctrl_timeout # "past" THEN r
  ELSE [r EXCEPT !.redundancy_ctrl_timeout = "none"]
\* A flow whose timer has passed may have as many capabilities again as it lacks packets.
Renewed(f, r) ==
  IF r.redundancy_ctrl_timeout # "past" THEN r
  ELSE [r EXCEPT !.redundancy_ctrl_timeout = "none",
                 !.capability_goal = @ + Cardinality(Missing(f, r))]

\* relax_capability_gap
Relaxed(r) ==
  IF capability_gap(r) <= CapabilityWindow THEN r
  ELSE [r EXCEPT !.largest_cap_seq_received = r.capability_count - CapabilityWindow]

\* send_capability_pkt, and the timer set with the last capability of the goal.
Counted(f, r) ==
  [r EXCEPT !.last_capa_data_seq_num_sent = NextCapaSeqNum(f, r),
            !.capability_count = @ + 1,
            !.window_timeout = "ahead",
            !.redundancy_ctrl_timeout =
               IF r.capability_count + 1 = r.capability_goal THEN "ahead" ELSE @]

CapabilityPkt(f, r) ==
  [type |-> "CAPA", flow |-> f, seq_num |-> r.capability_count,
   data_seq_num |-> NextCapaSeqNum(f, r), remaining |-> Cardinality(Missing(f, r))]

Receiving(h) == {f \in Flows : Dst[f] = h /\ at_receiver[f].rts_received
                               /\ ~at_receiver[f].finished}

MayHave(r) ==
  /\ r.redundancy_ctrl_timeout # "ahead"
  /\ capability_gap(r) <= CapabilityWindow \/ r.window_timeout = "past"

NextCapaEvent(h, sent) ==
  IF sent THEN "normal" ELSE IF Receiving(h) # {} THEN "timeout" ELSE "none"

\* The time a timeout was set for, the closest of those its flows wait for, has come.
Closest(f) ==
  LET r == at_receiver[f]
  IN \/ r.redundancy_ctrl_timeout = "past"
     \/ r.redundancy_ctrl_timeout = "none" /\ r.window_timeout = "past"

\* CapabilityProcessingEvent: send_capability.
HoldOn(h) ==
  /\ hold_on[h] > 0
  /\ hold_on' = [hold_on EXCEPT ![h] = @ - 1]
  /\ capa_proc_evt' = [capa_proc_evt EXCEPT ![h] = NextCapaEvent(h, TRUE)]
  /\ UNCHANGED <<at_receiver, net>>

\* Flows are tried in order up to the first that may have a capability.
GiveCapability(h) ==
  /\ hold_on[h] = 0
  /\ LET able == {f \in Receiving(h) : MayHave(at_receiver[f])}
         top == Top(able, remaining_pkts)
         tried == IF able = {} THEN Receiving(h)
                  ELSE {f \in Receiving(h) : Top({f, top}, remaining_pkts) = f}
         ready == Relaxed(Renewed(top, at_receiver[top]))
     IN /\ at_receiver' = [f \in Flows |->
             IF able # {} /\ f = top THEN Counted(f, ready)
             ELSE IF f \in tried THEN Renewed(f, at_receiver[f])
             ELSE at_receiver[f]]
        /\ net' = IF able = {} THEN net ELSE net \union {CapabilityPkt(top, ready)}
        /\ capa_proc_evt' = [capa_proc_evt EXCEPT ![h] = NextCapaEvent(h, able # {})]
  /\ UNCHANGED hold_on

SendCapability(h) ==
  /\ \/ capa_proc_evt[h] = "normal"
     \/ capa_proc_evt[h] = "timeout" /\ \E f \in Receiving(h) : Closest(f)
  /\ HoldOn(h) \/ GiveCapability(h)
  /\ UNCHANGED <<sender, faults, lost>>

(***************************************************************************)
(* Time and the network.  A timer may always pass when the flow is silent, *)
(* and as a fault at any time.                                             *)
(***************************************************************************)
Silent(f) ==
  capabilities[f] = {} /\ \A m \in net : m.flow = f => m.type \notin {"DATA", "CAPA"}

Fault == faults < MaxFaults /\ faults' = faults + 1

Pass(f, timer) ==
  /\ f \in Receiving(Dst[f])
  /\ at_receiver[f][timer] = "ahead"
  /\ at_receiver' = [at_receiver EXCEPT ![f][timer] = "past"]
  /\ IF Silent(f) THEN UNCHANGED faults ELSE Fault
  /\ UNCHANGED <<sender, hold_on, capa_proc_evt, net, lost>>

\* has_capability drops what has expired.
Expire(f) ==
  /\ \E c \in capabilities[f] : capabilities' = [capabilities EXCEPT ![f] = @ \ {c}]
  /\ Fault
  /\ UNCHANGED <<started, finished, remaining_pkts_at_sender, host_proc_event,
                 receiver, net, lost>>

\* Queue::drop
Lose(m) ==
  /\ net' = net \ {m}
  /\ lost' = IF m.type \in {"RTS", "ACK"} THEN lost \union {m} ELSE lost
  /\ Fault
  /\ UNCHANGED <<sender, receiver>>

Next ==
  \/ \E f \in Flows :
       \/ StartFlow(f) \/ Expire(f)
       \/ Pass(f, "redundancy_ctrl_timeout") \/ Pass(f, "window_timeout")
  \/ \E h \in Hosts : Send(h) \/ SendCapability(h)
  \/ \E m \in net :
       ReceiveRts(m) \/ ReceiveData(m) \/ ReceiveCapability(m) \/ ReceiveAck(m) \/ Lose(m)

Spec == Init /\ [][Next]_vars

\* run_scenario takes the next event as long as there is one.
FairSpec == Spec /\ WF_vars(Next)

(***************************************************************************)
(* Properties.                                                             *)
(***************************************************************************)

\* Every variable has its type (one invariant for the module).
TypeOK ==
  /\ started \subseteq Flows /\ finished \subseteq started
  /\ capabilities \in [Flows -> SUBSET Capability]
  /\ remaining_pkts_at_sender \in [Flows -> Nat]
  /\ host_proc_event \subseteq Hosts
  /\ \A f \in Flows : LET r == at_receiver[f] IN
       /\ r.packets_received \subseteq 0 .. SizeInPkt[f] - 1
       /\ r.last_capa_data_seq_num_sent \in -1 .. SizeInPkt[f] - 1
       /\ r.capability_count \in Nat /\ r.capability_goal \in Nat
       /\ r.redundancy_ctrl_timeout \in {"none", "ahead", "past"}
       /\ r.window_timeout \in {"ahead", "past"}
  /\ hold_on \in [Hosts -> Nat]
  /\ capa_proc_evt \in [Hosts -> {"none", "normal", "timeout"}]
  /\ {m.flow : m \in net \union lost} \subseteq started
  /\ faults \in 0 .. MaxFaults

\* No capability beyond the goal is given, a flow that has its fill waits for the
\* timer, and only such a flow does: otherwise it would get capabilities for ever, or
\* none again.  The gap that capability_gap asserts to be no less than 0 is so.
GoalHasTimer ==
  \A f \in Flows : LET r == at_receiver[f] IN
    /\ r.largest_cap_seq_received <= r.capability_count
    /\ r.capability_count <= r.capability_goal
    /\ r.capability_count = r.capability_goal <=> r.redundancy_ctrl_timeout # "none"

\* A host that is to receive packets has a processing event pending, normal or timeout,
\* and a host that holds a capability of a flow not finished has one to send.
HostsAwake ==
  \A f \in Flows :
    /\ f \in Receiving(Dst[f]) => capa_proc_evt[Dst[f]] # "none"
    /\ f \notin finished /\ capabilities[f] # {} => Src[f] \in host_proc_event

\* Every flow is finished in the end, whatever data packets and capabilities are lost
\* or late, unless its RTS or an ACK is lost: neither is ever sent again by itself.
FinishedUnlessRtsOrAckLost ==
  \A f \in Flows : <>(f \in finished \/ \E m \in lost : m.flow = f)

=============================================================================
