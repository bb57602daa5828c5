------------------------------ MODULE TimeSync ------------------------------
(***************************************************************************)
(* The time synchronisation that starts a run (coresim/node.cpp): the      *)
(* global arbiter sends each local arbiter a SyncMessage, the local        *)
(* arbiter answers with a DelayRequest, gets a DelayResponse and corrects  *)
(* its local_time_bias; then it is the master of the hosts of its pod in   *)
(* the same exchange.  Messages wait in the two queues of their way for as *)
(* long as the other traffic makes them; a SyncMessage and a DelayRequest  *)
(* add up that time (innetwork_delay), for the receiver to take it off.    *)
(***************************************************************************)
EXTENDS Integers, FiniteSets

CONSTANTS
  GA,            \* the global arbiter
  LA,            \* local arbiters
  Hosts,         \* [LA -> the hosts of the pod]
  Biases,        \* what a local_time_bias may be drawn to be
  CtrlTime,      \* header and propagation time of a link between arbiters and
  DataTime,      \*   control switches, and of one at a host (queue.cpp:50-56)
  MaxWait        \* bound: how long a message waits in one queue

AllHosts == UNION {Hosts[l] : l \in LA}
Slave == LA \union AllHosts
Node == Slave \union {GA}

ASSUME SyncAssumption ==
  /\ GA \notin Slave /\ LA \intersect AllHosts = {}
  /\ \A l, m \in LA : l # m => Hosts[l] \intersect Hosts[m] = {}
  /\ Biases \subseteq Int
  /\ CtrlTime \in Nat /\ DataTime \in Nat /\ MaxWait \in Nat

VARIABLES
  now,
  local_time_bias,    \* [Node -> Int]
  T3_time,            \* [Slave -> Int]
  master_slave_diff,  \* [Slave -> Int]
  messages,           \* packets of the exchange
  synced              \* history: nodes that have corrected their bias

vars == <<now, local_time_bias, T3_time, master_slave_diff, messages, synced>>

\* A message of which "stamp" is T1_time or T4_time.  It enters the queue of its
\* hop (1 or 2) at time "enqueue", or the node dst at that time when hop is 3.
Message(type, src, dst, stamp) ==
  [type |-> type, src |-> src, dst |-> dst, stamp |-> stamp,
   innetwork_delay |-> 0, hop |-> 1, enqueue |-> now]

Local(n) == now + local_time_bias[n]

\* GlobalArbiter::send_sync_message_to_la, at time 0, before the event loop.
Init ==
  /\ now = 0
  /\ local_time_bias \in {b \in [Node -> Biases \union {0}] : b[GA] = 0}
  /\ T3_time = [n \in Slave |-> 0]
  /\ master_slave_diff = [n \in Slave |-> 0]
  /\ messages = {Message("SYNC_MSG", GA, l, 0) : l \in LA}
  /\ synced = {}

\* The links of the way there and back have the same times, in reverse order.
LinkTime(m) ==
  CASE m.src \in AllHosts /\ m.hop = 1 -> DataTime
    [] m.dst \in AllHosts /\ m.hop = 2 -> DataTime
    [] OTHER -> CtrlTime

\* Definitions marked "fault" are wrong on purpose and used nowhere.
DelayOfLastQueue(m) == now - m.enqueue             \* fault: = in place of +=
DelaySoFar(m) == m.innetwork_delay + (now - m.enqueue)

\* QueueProcessingEvent::process_event: the message leaves a queue.
Dequeue(m) ==
  /\ m \in messages /\ m.hop < 3 /\ m.enqueue <= now
  /\ messages' = (messages \ {m}) \union
       {[m EXCEPT !.innetwork_delay =
                     IF m.type = "DELAY_RES_MSG" THEN @ ELSE DelaySoFar(m),
                  !.hop = @ + 1,
                  !.enqueue = now + LinkTime(m)]}
  /\ UNCHANGED <<now, local_time_bias, T3_time, master_slave_diff, synced>>

Arrives(m, type) == m \in messages /\ m.hop = 3 /\ m.enqueue = now /\ m.type = type
Replace(m, new) == messages' = (messages \ {m}) \union new

\* receive_sync_message, of LocalArbiter and of HeirScheduleHost
ReceiveSync(m) ==
  /\ Arrives(m, "SYNC_MSG")
  /\ LET T2_time == Local(m.dst) - m.innetwork_delay
     IN master_slave_diff' = [master_slave_diff EXCEPT ![m.dst] = T2_time - m.stamp]
  /\ T3_time' = [T3_time EXCEPT ![m.dst] = Local(m.dst)]
  /\ Replace(m, {Message("DELAY_REQ_MSG", m.dst, m.src, 0)})
  /\ UNCHANGED <<now, local_time_bias, synced>>

\* receive_delay_request_message, of GlobalArbiter; ..._from_host, of LocalArbiter
ReceiveDelayRequest(m) ==
  /\ Arrives(m, "DELAY_REQ_MSG")
  /\ Replace(m, {Message("DELAY_RES_MSG", m.dst, m.src, Local(m.dst) - m.innetwork_delay)})
  /\ UNCHANGED <<now, local_time_bias, T3_time, master_slave_diff, synced>>

SecondLevelNone(l, bias) == {}                     \* fault: hosts are not synced
\* LocalArbiter::send_sync_message_to_host, with the bias as corrected.
SecondLevel(l, bias) ==
  IF l \in LA THEN {Message("SYNC_MSG", l, h, now + bias) : h \in Hosts[l]} ELSE {}

\* receive_delay_response_message, of LocalArbiter and of HeirScheduleHost
ReceiveDelayResponse(m) ==
  /\ Arrives(m, "DELAY_RES_MSG")
  /\ LET n == m.dst
         slave_master_diff == m.stamp - T3_time[n]
         one_way_delay == (master_slave_diff[n] + slave_master_diff) \div 2
         offset == master_slave_diff[n] - one_way_delay
         bias == local_time_bias[n] - offset
     IN /\ local_time_bias' = [local_time_bias EXCEPT ![n] = bias]
        /\ Replace(m, SecondLevel(n, bias))
        /\ synced' = synced \union {n}
  /\ UNCHANGED <<now, T3_time, master_slave_diff>>

Tick ==
  /\ messages # {}
  /\ \A m \in messages :
       now < m.enqueue + (IF m.hop = 3 THEN 0 ELSE MaxWait)
  /\ now' = now + 1
  /\ UNCHANGED <<local_time_bias, T3_time, master_slave_diff, messages, synced>>

Handle(m) ==
  \/ Dequeue(m)
  \/ ReceiveSync(m) \/ ReceiveDelayRequest(m) \/ ReceiveDelayResponse(m)

Next == (\E m \in messages : Handle(m)) \/ Tick

Spec == Init /\ [][Next]_vars

\* run_scenario processes the events as long as there are any.
FairSpec == Spec /\ WF_vars(Next)

(***************************************************************************)
(* Properties.                                                             *)
(***************************************************************************)

\* A node that has corrected its clock agrees with the global arbiter exactly,
\* whatever its bias was, however long each message of either level waited in
\* either queue, and although its master's clock was wrong shortly before.
SyncedExactly == \A n \in synced : local_time_bias[n] = local_time_bias[GA]

\* Both levels come to an end: every local arbiter and every host is synchronised.
AllSynced == <>(synced = Slave)

=============================================================================
