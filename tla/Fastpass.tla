------------------------------ MODULE Fastpass ------------------------------
(***************************************************************************)
(* Fastpass (ext/fastpassflow.cpp, ext/fastpasshost.cpp), a transport with *)
(* a central arbiter: a sender tells it how many packets remain (RTS), the *)
(* arbiter allots packet slots an epoch at a time, and tells each sender   *)
(* its slots (SCHEDULE).  Each data packet is acknowledged by itself; when *)
(* a sender has sent all that remained it waits for an epoch and announces *)
(* again what has not been acknowledged.                                   *)
(*                                                                         *)
(* Times are left out, and a schedule is the number of slots of each flow. *)
(* Packets may overtake each other and be lost.  Losses, and timeouts      *)
(* while packets of their flow are still under way, are MaxFaults in all.  *)
(***************************************************************************)
EXTENDS Integers, FiniteSetsExt, Functions, Bags

CONSTANTS
  NumFlows,
  Hosts,
  Src, Dst,         \* host of a flow
  SizeInPkt,        \* Flow::size_in_pkt of a flow
  EpochPkts,        \* FASTPASS_EPOCH_PKTS
  MaxFaults         \* bound

Flows == 1 .. NumFlows

ASSUME FastpassAssumption ==
  /\ NumFlows \in Nat
  /\ Src \in [Flows -> Hosts] /\ Dst \in [Flows -> Hosts]
  /\ SizeInPkt \in [Flows -> Nat \ {0}]
  /\ EpochPkts \in Nat \ {0} /\ MaxFaults \in Nat

VARIABLES
  started,
  sender_remaining_num_pkts, sender_last_pkt_sent,
  sender_acked,     \* packets of a flow acknowledged
  sender_finished,  \* set of flows
  timeouts,         \* FastpassTimeoutEvents pending of a flow
  sends,            \* FastpassFlowProcessingEvents pending of a flow
  arbiter_flows,    \* flows in sending_flows
  arbiter_finished, \* set of flows
  arbiter_remaining_num_pkts,
  net,              \* bag of packets on their way
  failed,           \* next_pkt_to_send has run off its end
  faults,
  early,            \* history: flows with a timeout that fired too early
  lost              \* history: flows an RTS or SCHEDULE of which was lost

sending == <<sender_remaining_num_pkts, sender_last_pkt_sent, sends>>
acking == <<sender_acked, sender_finished>>
arbiter == <<arbiter_flows, arbiter_finished, arbiter_remaining_num_pkts>>
history == <<faults, early, lost>>
vars == <<started, sending, acking, timeouts, arbiter, net, failed, history>>

Pkts(f) == 0 .. SizeInPkt[f] - 1

Rts(f, n) == [type |-> "RTS", flow |-> f, remaining_num_pkts |-> n]
Data(f, p) == [type |-> "DATA", flow |-> f, pkt |-> p]
Ack(f, p) == [type |-> "ACK", flow |-> f, pkt |-> p]
Schedule(counts) == [type |-> "SCHEDULE", slots |-> counts]

FlowsOf(m) == IF m.type = "SCHEDULE" THEN {f \in Flows : m.slots[f] > 0} ELSE {m.flow}

Init ==
  /\ started = {} /\ sender_remaining_num_pkts = SizeInPkt
  /\ sender_last_pkt_sent = [f \in Flows |-> -1]
  /\ sender_acked = [f \in Flows |-> {}] /\ sender_finished = {}
  /\ timeouts = [f \in Flows |-> 0] /\ sends = [f \in Flows |-> 0]
  /\ arbiter_flows = {} /\ arbiter_finished = {}
  /\ arbiter_remaining_num_pkts = [f \in Flows |-> 0]
  /\ net = EmptyBag /\ failed = FALSE
  /\ faults = 0 /\ early = {} /\ lost = {}

One(m) == SetToBag({m})

(***************************************************************************)
(* The sender.                                                             *)
(***************************************************************************)
StartFlow(f) ==
  /\ f \notin started
  /\ started' = started \union {f}
  /\ net' = net (+) One(Rts(f, sender_remaining_num_pkts[f]))
  /\ UNCHANGED <<sending, acking, timeouts, arbiter, failed, history>>

\* receive_schedule_pkt
ReceiveSchedule(m) ==
  /\ m.type = "SCHEDULE"
  /\ sends' = [f \in Flows |-> sends[f] + m.slots[f]]
  /\ net' = net (-) One(m)
  /\ UNCHANGED <<started, sender_remaining_num_pkts, sender_last_pkt_sent, acking,
                 timeouts, arbiter, failed, history>>

\* Definitions marked "fault" are wrong on purpose and used nowhere.
NextPktUnwrapped(f) == sender_last_pkt_sent[f] + 1  \* fault: past the end
\* next_pkt_to_send: the next packet not acknowledged, or from sender_acked_until on.
NextPktToSend(f) ==
  LET missing == Pkts(f) \ sender_acked[f]
      later == {p \in missing : p > sender_last_pkt_sent[f]}
  IN IF later # {} THEN Min(later) ELSE Min(missing)

TimerAfterNot(f, remaining) == timeouts[f]         \* fault: no timer
TimerAfter(f, remaining) == IF remaining = 0 THEN timeouts[f] + 1 ELSE timeouts[f]

\* FastpassFlowProcessingEvent: send_data_pkt.  Nothing asks whether the flow has
\* finished; with all packets acknowledged next_pkt_to_send returns no value.
SendData(f) ==
  /\ sends[f] > 0
  /\ sends' = [sends EXCEPT ![f] = @ - 1]
  /\ IF sender_acked[f] = Pkts(f)
     THEN /\ failed' = TRUE
          /\ UNCHANGED <<sender_remaining_num_pkts, sender_last_pkt_sent, timeouts, net>>
     ELSE /\ sender_last_pkt_sent' = [sender_last_pkt_sent EXCEPT ![f] = NextPktToSend(f)]
          /\ sender_remaining_num_pkts' =
               [sender_remaining_num_pkts EXCEPT ![f] = Max({0, @ - 1})]
          /\ timeouts' = [timeouts EXCEPT ![f] =
               TimerAfter(f, sender_remaining_num_pkts'[f])]
          /\ net' = net (+) One(Data(f, NextPktToSend(f)))
          /\ UNCHANGED failed
  /\ UNCHANGED <<started, acking, arbiter, history>>

UnderWay(f) == \E m \in BagToSet(net) : f \in FlowsOf(m) /\ m.type \in {"DATA", "ACK"}

Fault == faults < MaxFaults /\ faults' = faults + 1

LeftAll(f) == SizeInPkt[f]                         \* fault: acknowledged ones too
Left(f) == SizeInPkt[f] - Cardinality(sender_acked[f])

\* FastpassTimeoutEvent: fastpass_timeout, update_remaining_size.
Timeout(f) ==
  /\ timeouts[f] > 0
  /\ timeouts' = [timeouts EXCEPT ![f] = @ - 1]
  /\ IF f \in sender_finished
     THEN UNCHANGED <<sender_remaining_num_pkts, net, history>>
     ELSE /\ sender_remaining_num_pkts' = [sender_remaining_num_pkts EXCEPT ![f] = Left(f)]
          /\ net' = net (+) One(Rts(f, Left(f)))
          /\ IF UnderWay(f) THEN Fault /\ early' = early \union {f}
                            ELSE UNCHANGED <<faults, early>>
          /\ UNCHANGED lost
  /\ UNCHANGED <<started, sender_last_pkt_sent, sends, acking, arbiter, failed>>

ReceiveAck(m) ==
  /\ m.type = "ACK"
  /\ LET f == m.flow
         acked == sender_acked[f] \union {m.pkt}
         finishes == f \notin sender_finished /\ acked = Pkts(f)
     IN /\ sender_acked' = [sender_acked EXCEPT ![f] = acked]
        /\ sender_finished' = IF finishes THEN sender_finished \union {f}
                                          ELSE sender_finished
        /\ net' = (net (-) One(m)) (+) (IF finishes THEN One(Rts(f, -1)) ELSE EmptyBag)
  /\ UNCHANGED <<started, sending, timeouts, arbiter, failed, history>>

(***************************************************************************)
(* The receiver: every data packet is acknowledged.                        *)
(***************************************************************************)
ReceiveData(m) ==
  /\ m.type = "DATA"
  /\ net' = (net (-) One(m)) (+) One(Ack(m.flow, m.pkt))
  /\ UNCHANGED <<started, sending, acking, timeouts, arbiter, failed, history>>

(***************************************************************************)
(* The arbiter.                                                            *)
(***************************************************************************)
\* receive_rts.  A flow that was dropped from sending_flows is not pushed again.
ReceiveRts(m) ==
  /\ m.type = "RTS"
  /\ arbiter_flows' = arbiter_flows \union {m.flow}
  /\ arbiter_finished' = IF m.remaining_num_pkts < 0 THEN arbiter_finished \union {m.flow}
                                                     ELSE arbiter_finished
  /\ arbiter_remaining_num_pkts' =
       [arbiter_remaining_num_pkts EXCEPT ![m.flow] = Max({0, m.remaining_num_pkts})]
  /\ net' = net (-) One(m)
  /\ UNCHANGED <<started, sending, acking, timeouts, failed, history>>

Apart(f, g) == Src[f] # Src[g] /\ Dst[f] # Dst[g]

Able(remaining) == {f \in arbiter_flows \ arbiter_finished : remaining[f] > 0}

\* schedule_timeslot: flows are taken in the order of a heap whose keys have changed
\* under it, any order here, so what is taken is any set that no flow can be added to.
Timeslot(S, remaining) ==
  /\ S \subseteq Able(remaining)
  /\ \A f, g \in S : f # g => Apart(f, g)
  /\ \A f \in Able(remaining) \ S : \E g \in S : ~Apart(f, g)

\* How many of the first n slots of an epoch each flow has.
Taken(epoch, n) == [f \in Flows |-> Cardinality({i \in 1 .. n : f \in epoch[i]})]

\* Each slot of an epoch is allotted from what the ones before have left.
Epochs ==
  {epoch \in [1 .. EpochPkts -> SUBSET Able(arbiter_remaining_num_pkts)] :
     \A i \in 1 .. EpochPkts :
       Timeslot(epoch[i], [f \in Flows |->
                             arbiter_remaining_num_pkts[f] - Taken(epoch, i - 1)[f]])}

\* schedule_epoch, which is called every epoch until all flows have finished.
ScheduleEpoch ==
  /\ Cardinality(sender_finished) < NumFlows
  /\ \E epoch \in Epochs :
       LET count == Taken(epoch, EpochPkts)
           of == [h \in Hosts |-> [f \in Flows |-> IF Src[f] = h THEN count[f] ELSE 0]]
           told == {h \in Hosts : \E f \in Flows : of[h][f] > 0}
       IN /\ arbiter_remaining_num_pkts' =
               [f \in Flows |-> arbiter_remaining_num_pkts[f] - count[f]]
          /\ net' = net (+) SetToBag({Schedule(of[h]) : h \in told})
  /\ UNCHANGED <<started, sending, acking, timeouts, arbiter_flows, arbiter_finished,
                 failed, history>>

\* Queue::drop
Lose(m) ==
  /\ net' = net (-) One(m)
  /\ lost' = IF m.type \in {"RTS", "SCHEDULE"} THEN lost \union FlowsOf(m) ELSE lost
  /\ Fault
  /\ UNCHANGED <<started, sending, acking, timeouts, arbiter, failed, early>>

Next ==
  /\ ~failed
  /\ \/ \E f \in Flows : StartFlow(f) \/ SendData(f) \/ Timeout(f)
     \/ ScheduleEpoch
     \/ \E m \in BagToSet(net) :
          ReceiveSchedule(m) \/ ReceiveRts(m) \/ ReceiveData(m) \/ ReceiveAck(m) \/ Lose(m)

Spec == Init /\ [][Next]_vars

\* run_scenario takes the next event as long as there is one.
FairSpec == Spec /\ WF_vars(Next)

(***************************************************************************)
(* Properties.                                                             *)
(***************************************************************************)

\* Every variable has its type (one invariant for the module).
TypeOK ==
  /\ started \subseteq Flows /\ sender_finished \subseteq Flows
  /\ \A f \in Flows :
       /\ sender_remaining_num_pkts[f] \in 0 .. SizeInPkt[f]
       /\ sender_last_pkt_sent[f] \in {-1} \union Pkts(f)
       /\ sender_acked[f] \subseteq Pkts(f)
       /\ arbiter_remaining_num_pkts[f] \in 0 .. SizeInPkt[f]
  /\ timeouts \in [Flows -> Nat] /\ sends \in [Flows -> Nat]
  /\ arbiter_flows \subseteq started /\ arbiter_finished \subseteq arbiter_flows
  /\ IsABag(net) /\ failed \in BOOLEAN
  /\ faults \in 0 .. MaxFaults /\ early \subseteq Flows /\ lost \subseteq Flows

\* Slots for a flow that a packet carries, or asks for.
Due(m, f) ==
  IF m.type = "SCHEDULE" THEN m.slots[f]
  ELSE IF m.type = "RTS" /\ m.flow = f THEN Max({0, m.remaining_num_pkts})
  ELSE 0

UnderWayTo(f) ==
  SumFunctionOnSet([m \in BagToSet(net) |-> Due(m, f) * net[m]], BagToSet(net))

Allotted(f) == arbiter_remaining_num_pkts[f] + sends[f] + UnderWayTo(f)

\* What the arbiter may still allot, what it has allotted and what is announced to it
\* add up to what the sender counts as remaining, unless a message was lost, and then
\* are no more than it, for each flow whose timeout has not fired too early.
AllottedIsRemaining ==
  \A f \in started \ early :
    /\ Allotted(f) <= sender_remaining_num_pkts[f]
    /\ f \notin lost => Allotted(f) = sender_remaining_num_pkts[f]

\* No sender is made to send when each of its packets is acknowledged, where
\* next_pkt_to_send has no value, unless a timeout fires while an acknowledgement is
\* on its way.
SendsHaveAPacket == failed => early # {}

\* Every flow is finished in the end, whatever data packets and acknowledgements are
\* lost, unless a timeout fires early, or an RTS or SCHEDULE is lost: the sender then
\* waits for slots that nobody will allot.
FinishedUnlessControlLost ==
  \A f \in Flows : <>(f \in sender_finished \/ f \in lost \/ early # {})

=============================================================================
