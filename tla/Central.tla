------------------------------ MODULE Central ------------------------------
(***************************************************************************)
(* The two transports with a central arbiter, Fastpass and Ideal, of which *)
(* a simulation runs one (Factory::get_flow and get_host make its flows    *)
(* and hosts).                                                             *)
(***************************************************************************)
EXTENDS Fastpass

CONSTANTS Size, Mss, Word, MaxInFlight, None   \* of Ideal

VARIABLES
  flow_type,
  arrived, finished, sent, acked, received, retx_event, active_flows, active_flow,
  host_proc_event, data, acks                  \* of Ideal; faults and early of either

Ideal == INSTANCE Ideal

ASSUME CentralAssumption == Ideal!IdealAssumption

fastpass == <<started, sending, acking, timeouts, arbiter, net, failed, lost>>
ideal == <<arrived, finished, sent, acked, received, retx_event, active_flows,
           active_flow, host_proc_event, data, acks>>

CentralInit ==
  /\ flow_type \in {"FASTPASS_FLOW", "IDEAL_FLOW"}
  /\ Init /\ Ideal!Init

FastpassNext == flow_type = "FASTPASS_FLOW" /\ Next /\ UNCHANGED ideal
IdealNext == flow_type = "IDEAL_FLOW" /\ Ideal!Next /\ UNCHANGED fastpass

CentralNext == (FastpassNext \/ IdealNext) /\ UNCHANGED flow_type

\* run_scenario takes the next event as long as there is one.
CentralSpec ==
  /\ CentralInit /\ [][CentralNext]_<<flow_type, vars, ideal>>
  /\ WF_<<flow_type, vars, ideal>>(CentralNext)

\* Every variable of both has its type.
AllTypesOK == TypeOK /\ Ideal!TypeOK

\* Ideal's arbiter and its hosts agree, whatever order timers, arrivals and
\* cancellations come in: a flow is listed at most once, and not while its timer is
\* pending, and a source with a flow to send has an event pending.
ArbiterConsistent == Ideal!ListedOnce /\ Ideal!ActiveHostsAwake

\* No Ideal flow waits while both its hosts are idle, unless a timer fired too early.
NoPairIdle == Ideal!NoPairIdle

\* Every flow is finished in the end, unless a timer fires early, or a control packet
\* of Fastpass (an RTS or a SCHEDULE) is lost.
AllFinish ==
  /\ flow_type = "FASTPASS_FLOW" => FinishedUnlessControlLost
  /\ flow_type = "IDEAL_FLOW" => Ideal!FinishedUnlessEarly

=============================================================================
