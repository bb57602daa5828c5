------------------------------- MODULE Ideal -------------------------------
(***************************************************************************)
(* Ideal (ext/ideal.cpp), a transport with an arbiter that knows all: it   *)
(* keeps the flows that have something to send, least remaining first, and *)
(* takes from the list, in one pass, flows that share no host; each source *)
(* then sends packets of its active flow, one by one, until it has sent    *)
(* all or the arbiter makes another flow active.  Arbiter, hosts and flows *)
(* call each other directly.  A flow that has sent all leaves the list and *)
(* waits for acknowledgements, which count packets; if its timer fires it  *)
(* is queued again and sends until it is acknowledged.                     *)
(*                                                                         *)
(* Times are left out: an event for now and one after a transmission time  *)
(* are the same, and a host's event is pending or not (a cancelled one is  *)
(* as none).  Data packets of a flow are all alike (seq 0).                *)
(***************************************************************************)
EXTENDS Integers, Sequences, FiniteSetsExt, Functions

CONSTANTS
  NumFlows,
  Hosts,
  Src, Dst,         \* host of a flow
  Size,             \* of a flow
  Mss,
  Word,             \* 2^32
  MaxInFlight,      \* bound: packets of a flow under way when its source sends on
  MaxFaults,        \* bound: losses and early timers
  None

Flows == 1 .. NumFlows

IdealAssumption ==
  /\ NumFlows \in Nat
  /\ Src \in [Flows -> Hosts] /\ Dst \in [Flows -> Hosts]
  /\ Size \in [Flows -> Nat \ {0}] /\ Mss \in Nat \ {0}
  /\ MaxInFlight \in Nat \ {0} /\ MaxFaults \in Nat /\ None \notin Flows

VARIABLES
  arrived, finished,  \* sets of flows
  sent, acked,        \* at the sender, bytes
  received,           \* at the receiver, bytes
  retx_event,         \* flows with a timer pending
  active_flows,       \* the arbiter's list
  active_flow,        \* of a host
  host_proc_event,    \* hosts with an event pending
  data,               \* of a flow, the number of its data packets on their way
  acks,               \*   and the acknowledgements, a set: no two are alike
  faults,
  early               \* history: flows whose timer fired with packets on their way

flow == <<arrived, finished, sent, acked, received, retx_event>>
arbiter == <<active_flows, active_flow, host_proc_event>>
network == <<data, acks>>
vars == <<flow, arbiter, network, faults, early>>

Init ==
  /\ arrived = {} /\ finished = {} /\ retx_event = {}
  /\ sent = [f \in Flows |-> 0] /\ acked = [f \in Flows |-> 0]
  /\ received = [f \in Flows |-> 0]
  /\ active_flows = <<>> /\ active_flow = [h \in Hosts |-> None] /\ host_proc_event = {}
  /\ data = [f \in Flows |-> 0] /\ acks = [f \in Flows |-> {}]
  /\ faults = 0 /\ early = {}

(***************************************************************************)
(* IdealArbiter.                                                           *)
(***************************************************************************)
\* compareFlows: acked - size as a uint32, the greater one first.
Key(f) == (acked[f] - Size[f]) % Word

\* The orders in which the elements at some places of a list can be put.
Orders(places) == Bijection(1 .. Cardinality(places), places)

\* stable_sort: the list in order, one list.
Sorted(list) ==
  {[n \in DOMAIN list |-> list[order[n]]] :
     order \in {o \in Orders(DOMAIN list) : \A m, n \in DOMAIN list : m < n =>
                  \/ Key(list[o[m]]) > Key(list[o[n]])
                  \/ Key(list[o[m]]) = Key(list[o[n]]) /\ o[m] < o[n]}}

\* What is left of a list when only some places are kept, one list.
Kept(list, places) ==
  {[n \in 1 .. Cardinality(places) |-> list[order[n]]] :
     order \in {o \in Orders(places) : \A m, n \in DOMAIN o : m < n => o[m] < o[n]}}

\* The places the pass comes by, one set: it erases a flow that has finished, and the
\* increment of the loop then goes past the one after it.
Visited(list) ==
  {V \in SUBSET DOMAIN list : \A i \in DOMAIN list :
     i \in V <=> i = 1 \/ ~(i - 1 \in V /\ list[i - 1] \in finished)}

Erased(list, visited) == {i \in visited : list[i] \in finished}

\* Definitions marked "fault" are wrong on purpose and used nowhere.
ConsideredLess(list, visited) == visited \ {1}     \* fault: the first passed over
\* An erased flow is considered all the same, unless it was the last.
Considered(list, visited) == visited \ (Erased(list, visited) \intersect {Len(list)})

Apart(f, g) == Src[f] # Src[g] /\ Dst[f] # Dst[g]

\* What the pass takes of some places, one set.
Matching(list, places) ==
  {C \in SUBSET places : \A i \in places :
     i \in C <=> \A j \in C : j < i => Apart(list[i], list[j])}

WokenNot(events, chosen) == events                 \* fault: no event for a new flow
Woken(events, chosen) == events \union {Src[f] : f \in chosen}

\* compute_schedule, with what the list, the active flows and the events have become.
\* A host none of whose flows is taken keeps the flow it has.
ComputeSchedule(list, active, events) ==
  \E visited \in Visited(list) : \E taken \in Matching(list, Considered(list, visited)) :
    LET chosen == {list[i] : i \in taken}
        erased == {list[i] : i \in Erased(list, visited)}
        Of(h) == {f \in chosen : Src[f] = h}
    IN /\ active_flows' \in Kept(list, DOMAIN list \ Erased(list, visited))
       /\ active_flow' = [h \in Hosts |->
            IF Of(h) # {} THEN CHOOSE f \in Of(h) : TRUE
            ELSE IF active[h] \in erased THEN None ELSE active[h]]
       /\ host_proc_event' = Woken(events, chosen)

FlowArrival(f) ==
  \E list \in Sorted(Append(active_flows, f)) :
    ComputeSchedule(list, active_flow, host_proc_event)

PlacesOf(f) == {i \in DOMAIN active_flows : active_flows[i] = f}

\* flow_finished: called with the source's event cancelled.
FlowFinished(f) ==
  LET active == [active_flow EXCEPT ![Src[f]] = None]
      events == host_proc_event \ {Src[f]}
  IN IF PlacesOf(f) # {}
     THEN \E list \in Kept(active_flows, DOMAIN active_flows \ PlacesOf(f)) :
            ComputeSchedule(list, active, events)
     ELSE active_flow' = active /\ host_proc_event' = events /\ UNCHANGED active_flows

(***************************************************************************)
(* Hosts and flows.                                                        *)
(***************************************************************************)
\* start_flow, IdealHost::start
StartFlow(f) ==
  /\ f \notin arrived
  /\ arrived' = arrived \union {f}
  /\ FlowArrival(f)
  /\ UNCHANGED <<finished, sent, acked, received, retx_event, network, faults, early>>

Sending(h) == active_flow[h] # None /\ active_flow[h] \notin finished

UnderWay(f) == data[f] + Cardinality(acks[f])

TimerSetNot(f) == retx_event                       \* fault: what is lost is not missed
TimerSet(f) == retx_event \union {f}

\* send_pending_data: it has sent all only the first time round, for after a timeout, or
\* with a last packet that is short, sent goes past the size.
SendPendingData(f) ==
  /\ sent' = [sent EXCEPT ![f] = @ + Mss]
  /\ data' = [data EXCEPT ![f] = @ + 1]
  /\ IF sent'[f] = Size[f]
     THEN retx_event' = TimerSet(f) /\ FlowFinished(f)
     ELSE UNCHANGED <<retx_event, arbiter>>
  /\ UNCHANGED <<arrived, finished, acked, received, acks, faults, early>>

\* HostProcessingEvent, IdealHost::send: nothing wakes a host that has nothing to send.
Send(h) ==
  /\ h \in host_proc_event
  /\ IF Sending(h)
     THEN UnderWay(active_flow[h]) < MaxInFlight /\ SendPendingData(active_flow[h])
     ELSE /\ host_proc_event' = host_proc_event \ {h}
          /\ UNCHANGED <<flow, active_flows, active_flow, network, faults, early>>

Fault == faults < MaxFaults /\ faults' = faults + 1

\* handle_timeout, start_flow
Timeout(f) ==
  /\ f \in retx_event
  /\ retx_event' = retx_event \ {f}
  /\ IF f \in finished THEN UNCHANGED arbiter ELSE FlowArrival(f)
  /\ IF UnderWay(f) > 0 THEN Fault /\ early' = early \union {f}
                        ELSE UNCHANGED <<faults, early>>
  /\ UNCHANGED <<arrived, finished, sent, acked, received, network>>

\* receive, at the destination
ReceiveData(f) ==
  /\ data[f] > 0
  /\ data' = [data EXCEPT ![f] = @ - 1]
  /\ IF f \in finished
     THEN UNCHANGED <<received, acks>>
     ELSE /\ received' = [received EXCEPT ![f] = @ + Mss]
          /\ acks' = [acks EXCEPT ![f] = @ \union {received'[f]}]
  /\ UNCHANGED <<arrived, finished, sent, acked, retx_event, arbiter, faults, early>>

\* receive, at the source: a flow that has sent more than its size is still in the list.
\* One that has sent just its size leaves the list alone, queued again or not.
Complete(f) ==
  /\ retx_event' = retx_event \ {f}
  /\ finished' = finished \union {f}
  /\ IF sent[f] > Size[f]
     THEN FlowFinished(f)
     ELSE /\ active_flow' = [h \in Hosts |-> IF h = Src[f] /\ active_flow[h] = f
                                             THEN None ELSE active_flow[h]]
          /\ UNCHANGED <<active_flows, host_proc_event>>

ReceiveAck(f, ack) ==
  /\ acks' = [acks EXCEPT ![f] = @ \ {ack}]
  /\ IF f \in finished \/ ack < acked[f]
     THEN UNCHANGED <<acked, finished, retx_event, arbiter>>
     ELSE /\ acked' = [acked EXCEPT ![f] = ack]
          /\ IF ack >= Size[f] THEN Complete(f)
                               ELSE UNCHANGED <<finished, retx_event, arbiter>>
  /\ UNCHANGED <<arrived, sent, received, data, faults, early>>

\* Queue::drop
LoseData(f) ==
  /\ data[f] > 0 /\ Fault
  /\ data' = [data EXCEPT ![f] = @ - 1]
  /\ UNCHANGED <<flow, arbiter, acks, early>>

LoseAck(f, ack) ==
  /\ Fault
  /\ acks' = [acks EXCEPT ![f] = @ \ {ack}]
  /\ UNCHANGED <<flow, arbiter, data, early>>

Next ==
  \/ \E h \in Hosts : Send(h)
  \/ \E f \in Flows :
       \/ StartFlow(f) \/ Timeout(f) \/ ReceiveData(f) \/ LoseData(f)
       \/ \E ack \in acks[f] : ReceiveAck(f, ack) \/ LoseAck(f, ack)

Spec == Init /\ [][Next]_vars

\* run_scenario takes the next event as long as there is one.
FairSpec == Spec /\ WF_vars(Next)

(***************************************************************************)
(* Properties.                                                             *)
(***************************************************************************)

\* Every variable has its type (one invariant for the module).
TypeOK ==
  /\ finished \subseteq arrived /\ arrived \subseteq Flows /\ retx_event \subseteq Flows
  /\ \A c \in {sent, acked, received} : c \in [Flows -> Nat]
  /\ active_flows \in Seq(Flows) /\ active_flow \in [Hosts -> Flows \union {None}]
  /\ \A h \in Hosts : active_flow[h] # None => Src[active_flow[h]] = h
  /\ host_proc_event \subseteq Hosts
  /\ data \in [Flows -> Nat] /\ acks \in [Flows -> SUBSET Nat]
  /\ faults \in 0 .. MaxFaults /\ early \subseteq Flows

InList(f) == PlacesOf(f) # {}

\* A flow is in the arbiter's list at most once, and not while its timer is pending,
\* though a late acknowledgement and the timer of one flow, in either order, each put it
\* in or take it out: what the assertions at ideal.cpp:29, 39 and 143 take for granted.
ListedOnce ==
  /\ \A i, j \in DOMAIN active_flows : active_flows[i] = active_flows[j] => i = j
  /\ \A f \in retx_event : ~InList(f) /\ sent[f] = Size[f]

\* A source with a flow to send has an event pending, whatever was cancelled when flows
\* took over from each other, finished or were queued again.
ActiveHostsAwake == \A h \in Hosts : Sending(h) => h \in host_proc_event

\* No flow waits in the list while both its hosts are idle, unless a timer fired too
\* early: an acknowledgement may then finish a flow in the list, and the pass that erases
\* it goes past the next one.
Served(f) ==
  \E h \in Hosts : Sending(h) /\ (h = Src[f] \/ Dst[active_flow[h]] = Dst[f])

NoPairIdle ==
  early = {} => \A f \in Flows : InList(f) => f \in finished \/ Served(f)

\* Each flow is finished in the end, whatever is lost, unless a timer fired too early.
FinishedUnlessEarly == \A f \in Flows : <>(f \in finished \/ early # {})

=============================================================================
