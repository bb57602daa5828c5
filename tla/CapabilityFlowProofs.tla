------------------------- MODULE CapabilityFlowProofs -------------------------
(***************************************************************************)
(* pHost for any flows, hosts, windows and faults: a receiver never gives  *)
(* more capabilities than its goal, waits for its timer just when it has   *)
(* given them all, and neither side goes to sleep with work left.          *)
(***************************************************************************)
EXTENDS CapabilityFlow, FiniteFacts

(***************************************************************************)
(* The inductive invariant.                                                *)
(***************************************************************************)

\* A capability numbered n has been given to flow f, at the start or since.
Given(f, n) == n \in Nat /\ (n < InitCapaSize(f) \/ n < at_receiver[f].capability_count)

ReceiverState ==
  [rts_received : BOOLEAN, finished : BOOLEAN, packets_received : SUBSET Nat,
   capability_count : Nat, capability_goal : Nat, largest_cap_seq_received : Int,
   last_capa_data_seq_num_sent : Int, redundancy_ctrl_timeout : {"none", "ahead", "past"},
   window_timeout : {"ahead", "past"}]

\* What a receiver knows of a flow it has not heard of, and of one it has.
Unheard(f, r) ==
  /\ r.capability_count = 0 /\ r.capability_goal = SizeInPkt[f]
  /\ r.largest_cap_seq_received = -1 /\ r.redundancy_ctrl_timeout = "none"
  /\ r.packets_received = {} /\ ~r.finished

\* What it is missing, has given and waits for.
KnowsOK(f, r) ==
  /\ r.packets_received \subseteq 0 .. SizeInPkt[f] - 1
  /\ r.last_capa_data_seq_num_sent \in -1 .. SizeInPkt[f] - 1
  /\ IF r.rts_received THEN InitCapaSize(f) <= r.capability_count ELSE Unheard(f, r)
  /\ r.finished <=> Missing(f, r) = {}
  /\ r.largest_cap_seq_received <= r.capability_count
  /\ r.capability_count <= r.capability_goal
  /\ r.capability_count = r.capability_goal <=> r.redundancy_ctrl_timeout # "none"

ReceiverOK ==
  /\ at_receiver \in [Flows -> ReceiverState]
  /\ \A f \in Flows : KnowsOK(f, at_receiver[f])
  /\ hold_on \in [Hosts -> Nat]
  /\ capa_proc_evt \in [Hosts -> {"none", "normal", "timeout"}]

\* A sender uses each capability for a packet of the flow.
SenderOK ==
  /\ started \subseteq Flows /\ finished \subseteq started
  /\ capabilities \in [Flows -> SUBSET Capability]
  /\ \A f \in Flows : \A c \in capabilities[f] :
       f \in started /\ c.data_seq_num \in 0 .. SizeInPkt[f] - 1 /\ Given(f, c.seq_num)
  /\ remaining_pkts_at_sender \in [Flows -> Nat]
  /\ host_proc_event \subseteq Hosts

\* A packet under way asks for, or is, a packet of its flow, by a capability given.
PacketOK(m) ==
  /\ m.flow \in started
  /\ m.type = "DATA" => m.data_seq \in 0 .. SizeInPkt[m.flow] - 1 /\ Given(m.flow, m.seq_num)
  /\ m.type = "CAPA" => /\ m.data_seq_num \in 0 .. SizeInPkt[m.flow] - 1
                        /\ Given(m.flow, m.seq_num) /\ m.remaining \in Nat

\* What is under way, lost or heard of is of flows that have started.
NetOK ==
  /\ \A m \in net : PacketOK(m)
  /\ \A f \in Flows : at_receiver[f].rts_received => f \in started
  /\ \A m \in lost : m.flow \in started
  /\ faults \in 0 .. MaxFaults

\* The two halves of HostsAwake.
ReceiversAwake == \A f \in Flows : f \in Receiving(Dst[f]) => capa_proc_evt[Dst[f]] # "none"

SendersAwake ==
  \A f \in Flows : f \notin finished /\ capabilities[f] # {} => Src[f] \in host_proc_event

Inv == SenderOK /\ SendersAwake /\ ReceiverOK /\ ReceiversAwake /\ NetOK

(***************************************************************************)
(* What a receiver misses, and which flow is served.                       *)
(***************************************************************************)

\* The constants' types.
LEMMA ConstantFacts ==
  /\ Flows \subseteq Nat
  /\ \A f \in Flows : /\ Src[f] \in Hosts /\ Dst[f] \in Hosts
                      /\ SizeInPkt[f] \in Nat /\ SizeInPkt[f] >= 1
                      /\ InitCapaSize(f) \in Nat /\ InitCapaSize(f) <= SizeInPkt[f]
  /\ CapabilityWindow \in Nat /\ CapabilityWindow >= 1 /\ MaxFaults \in Nat
  BY CapabilityAssumption DEF Flows, InitCapaSize

\* The packets missing can be counted.
LEMMA MissingFacts ==
  ASSUME NEW f \in Flows, NEW r
  PROVE  /\ Missing(f, r) \subseteq 0 .. SizeInPkt[f] - 1 /\ Missing(f, r) \subseteq Nat
         /\ Cardinality(Missing(f, r)) \in Nat
         /\ Missing(f, r) # {} => Cardinality(Missing(f, r)) >= 1
  <1>1. SizeInPkt[f] - 1 \in Int
    BY ConstantFacts
  <1>2. IsFiniteSet(0 .. SizeInPkt[f] - 1)
    BY <1>1, FS_Interval
  <1>3. Missing(f, r) \subseteq 0 .. SizeInPkt[f] - 1
    BY DEF Missing
  <1>4. IsFiniteSet(Missing(f, r))
    BY <1>2, <1>3, FS_Subset
  <1>5. Cardinality(Missing(f, r)) \in Nat
    BY <1>4, FS_CardinalityType
  <1>6. Missing(f, r) # {} => Cardinality(Missing(f, r)) # 0
    BY <1>4, FS_EmptySet
  <1> QED
    BY <1>1, <1>3, <1>5, <1>6

\* get_next_capa_seq_num asks for a packet that is missing.
LEMMA NextCapaFacts ==
  ASSUME NEW f \in Flows, NEW r, Missing(f, r) # {}
  PROVE  NextCapaSeqNum(f, r) \in Missing(f, r)
  <1>1. Missing(f, r) \subseteq Nat
    BY MissingFacts
  <1>2. PICK from : from = (r.last_capa_data_seq_num_sent + 1) % SizeInPkt[f]
    OBVIOUS
  <1>3. PICK later : later = {s \in Missing(f, r) : s >= from}
    OBVIOUS
  <1>4. later # {} => Min(later) \in later
    BY <1>1, <1>3, MinFacts
  <1>5. Min(Missing(f, r)) \in Missing(f, r)
    BY <1>1, MinFacts
  <1>6. NextCapaSeqNum(f, r) = IF later # {} THEN Min(later) ELSE Min(Missing(f, r))
    BY <1>2, <1>3 DEF NextCapaSeqNum
  <1> QED
    BY <1>3, <1>4, <1>5, <1>6

\* The top of a queue that is not empty is one of its flows.
LEMMA TopFacts ==
  ASSUME NEW S, S \subseteq Flows, S # {}, NEW key, \A f \in S : key[f] \in Nat
  PROVE  Top(S, key) \in S
  <1>1. PICK K : K = {key[f] : f \in S}
    OBVIOUS
  <1>2. K \subseteq Nat /\ K # {}
    BY <1>1
  <1>3. PICK k \in K : \A n \in K : k <= n
    BY <1>2, LeastNatural
  <1>4. PICK L : L = {f \in S : key[f] = k}
    OBVIOUS
  <1>5. L \subseteq Nat /\ L # {}
    BY <1>1, <1>4, ConstantFacts
  <1>6. PICK f \in L : \A g \in L : f <= g
    BY <1>5, LeastNatural
  <1>7. f \in S /\ key[f] = k
    BY <1>4
  <1>8. ASSUME NEW g \in S PROVE key[f] < key[g] \/ (key[f] = key[g] /\ f <= g)
    <2>1. key[g] \in K /\ key[g] \in Nat /\ k \in Nat
      BY <1>1, <1>2
    <2>2. k <= key[g]
      BY <1>3, <2>1
    <2>3. key[g] = k => f <= g
      BY <1>4, <1>6
    <2> QED
      BY <1>7, <2>1, <2>2, <2>3
  <1>9. \E h \in S : \A g \in S : key[h] < key[g] \/ (key[h] = key[g] /\ h <= g)
    BY <1>7, <1>8
  <1> QED
    BY <1>9 DEF Top

\* The greater of two numbers.
LEMMA MaxOfTwo ==
  ASSUME NEW a \in Int, NEW b \in Int
  PROVE  Max({a, b}) \in {a, b} /\ Max({a, b}) >= a /\ Max({a, b}) >= b
  <1>1. \E x \in {a, b} : \A y \in {a, b} : x >= y
    OBVIOUS
  <1> QED
    BY <1>1 DEF Max

(***************************************************************************)
(* What the receiver's handlers make of a flow.                            *)
(***************************************************************************)

\* The types of the members.
LEMMA StateTypes ==
  ASSUME NEW r \in ReceiverState
  PROVE  /\ r.rts_received \in BOOLEAN /\ r.finished \in BOOLEAN
         /\ r.capability_count \in Nat /\ r.capability_goal \in Nat
         /\ r.largest_cap_seq_received \in Int /\ r.packets_received \subseteq Nat
         /\ r.redundancy_ctrl_timeout \in {"none", "ahead", "past"}
         /\ r.window_timeout \in {"ahead", "past"}
  BY DEF ReceiverState

\* A flow heard of has the capabilities of its start.
LEMMA HeardFacts ==
  ASSUME NEW f \in Flows, NEW r \in ReceiverState, KnowsOK(f, r)
  PROVE  /\ HeardOf(f, r) \in ReceiverState /\ KnowsOK(f, HeardOf(f, r))
         /\ HeardOf(f, r).rts_received
         /\ HeardOf(f, r).capability_count >= r.capability_count
         /\ HeardOf(f, r).finished = r.finished
  <1>1. CASE r.rts_received
    BY <1>1 DEF HeardOf, ReceiverState
  <1>2. CASE ~r.rts_received
    <2>0. PICK h, t, c, l :
            /\ h = HeardOf(f, r) /\ c = InitCapaSize(f) /\ l = InitCapaSize(f) - 1
            /\ t = IF InitCapaSize(f) = r.capability_goal THEN "ahead"
                   ELSE r.redundancy_ctrl_timeout
      OBVIOUS
    <2>1. /\ h = [r EXCEPT !.rts_received = TRUE, !.capability_count = c,
                           !.last_capa_data_seq_num_sent = l,
                           !.redundancy_ctrl_timeout = t]
          /\ t \in {"none", "ahead", "past"} /\ c \in Nat /\ l \in Int
      BY <1>2, <2>0, StateTypes, ConstantFacts DEF HeardOf
    <2>2. /\ h.rts_received = TRUE /\ h.capability_count = InitCapaSize(f)
          /\ h.last_capa_data_seq_num_sent = InitCapaSize(f) - 1
          /\ h.redundancy_ctrl_timeout = IF InitCapaSize(f) = r.capability_goal THEN "ahead"
                                         ELSE r.redundancy_ctrl_timeout
          /\ h.finished = r.finished /\ h.packets_received = r.packets_received
          /\ h.capability_goal = r.capability_goal
          /\ h.largest_cap_seq_received = r.largest_cap_seq_received
          /\ h.window_timeout = r.window_timeout
      BY <2>0, <2>1 DEF ReceiverState
    <2>3. h \in ReceiverState
      BY <2>1 DEF ReceiverState
    <2>4. Missing(f, h) = Missing(f, r)
      BY <2>2 DEF Missing
    <2>5. KnowsOK(f, h)
      BY <1>2, <2>2, <2>4, ConstantFacts DEF KnowsOK, Unheard
    <2> QED
      BY <1>2, <2>0, <2>2, <2>3, <2>5, ConstantFacts DEF KnowsOK, Unheard
  <1> QED
    BY <1>1, <1>2

\* A packet received is not missing any more.
LEMMA DataFacts ==
  ASSUME NEW f \in Flows, NEW r \in ReceiverState, KnowsOK(f, r), r.rts_received,
         NEW m, m.data_seq \in 0 .. SizeInPkt[f] - 1,
         m.seq_num \in Nat, m.seq_num < r.capability_count
  PROVE  /\ AfterData(f, r, m) \in ReceiverState /\ KnowsOK(f, AfterData(f, r, m))
         /\ AfterData(f, r, m).rts_received
         /\ AfterData(f, r, m).capability_count = r.capability_count
  <1>1. PICK x : x = Max({r.largest_cap_seq_received, m.seq_num})
    OBVIOUS
  <1>2. x \in Int /\ x <= r.capability_count
    <2>1. r.largest_cap_seq_received \in Int /\ m.seq_num \in Int
      BY StateTypes
    <2>2. x = r.largest_cap_seq_received \/ x = m.seq_num
      BY <1>1, <2>1, MaxOfTwo
    <2> QED
      BY <2>1, <2>2, StateTypes DEF KnowsOK
  <1>3. PICK got, P : /\ P = r.packets_received \union {m.data_seq}
                      /\ got = [r EXCEPT !.packets_received = P,
                                         !.largest_cap_seq_received = x]
    OBVIOUS
  <1>4. got \in ReceiverState /\ got.finished = r.finished /\ got.finished \in BOOLEAN
    <2>1. P \in SUBSET Nat
      BY <1>3, StateTypes, ConstantFacts
    <2> QED
      BY <1>2, <1>3, <2>1 DEF ReceiverState
  <1>5. PICK b \in BOOLEAN : b <=> got.finished \/ Missing(f, got) = {}
    OBVIOUS
  <1>6. PICK d : d = [got EXCEPT !.finished = b]
    OBVIOUS
  <1>7. AfterData(f, r, m) = d
    BY <1>1, <1>3, <1>4, <1>5, <1>6 DEF AfterData
  <1>8. /\ d \in ReceiverState /\ d.rts_received = r.rts_received
        /\ d.capability_count = r.capability_count /\ d.capability_goal = r.capability_goal
        /\ d.last_capa_data_seq_num_sent = r.last_capa_data_seq_num_sent
        /\ d.redundancy_ctrl_timeout = r.redundancy_ctrl_timeout
        /\ d.largest_cap_seq_received = x /\ d.finished = b
        /\ d.packets_received = r.packets_received \union {m.data_seq}
        /\ got.packets_received = r.packets_received \union {m.data_seq}
    BY <1>3, <1>4, <1>6 DEF ReceiverState
  <1>9. Missing(f, d) = Missing(f, got) /\ Missing(f, got) \subseteq Missing(f, r)
    BY <1>8 DEF Missing
  <1>10. d.finished <=> Missing(f, d) = {}
    BY <1>4, <1>5, <1>8, <1>9 DEF KnowsOK
  <1>11. KnowsOK(f, d)
    BY <1>2, <1>8, <1>10 DEF KnowsOK
  <1> QED
    BY <1>7, <1>8, <1>11

\* A flow whose timer has passed has a goal again that it has not reached.
LEMMA RenewedFacts ==
  ASSUME NEW f \in Flows, NEW r \in ReceiverState, KnowsOK(f, r), r.rts_received, ~r.finished
  PROVE  /\ Renewed(f, r) \in ReceiverState /\ KnowsOK(f, Renewed(f, r))
         /\ Renewed(f, r).redundancy_ctrl_timeout # "past"
         /\ r.redundancy_ctrl_timeout # "ahead" =>
              Renewed(f, r).redundancy_ctrl_timeout = "none"
         /\ Renewed(f, r).capability_count = r.capability_count
         /\ Renewed(f, r).rts_received /\ ~Renewed(f, r).finished
  <1>1. CASE r.redundancy_ctrl_timeout # "past"
    BY <1>1 DEF Renewed, ReceiverState
  <1>2. CASE r.redundancy_ctrl_timeout = "past"
    <2>1. PICK n : n = Cardinality(Missing(f, r))
      OBVIOUS
    <2>2. n \in Nat /\ n >= 1
      BY <2>1, MissingFacts DEF KnowsOK
    <2>3. PICK d, g : /\ g = r.capability_goal + n
                      /\ d = [r EXCEPT !.redundancy_ctrl_timeout = "none",
                                       !.capability_goal = g]
      OBVIOUS
    <2>4. Renewed(f, r) = d
      BY <1>2, <2>1, <2>3 DEF Renewed
    <2>5. /\ d \in ReceiverState /\ d.rts_received = r.rts_received
          /\ d.finished = r.finished /\ d.packets_received = r.packets_received
          /\ d.capability_count = r.capability_count
          /\ d.capability_goal = r.capability_goal + n
          /\ d.last_capa_data_seq_num_sent = r.last_capa_data_seq_num_sent
          /\ d.redundancy_ctrl_timeout = "none"
          /\ d.largest_cap_seq_received = r.largest_cap_seq_received
      <3>1. g \in Nat
        BY <2>2, <2>3, StateTypes
      <3> QED
        BY <2>3, <3>1 DEF ReceiverState
    <2>6. Missing(f, d) = Missing(f, r)
      BY <2>5 DEF Missing
    <2>7. r.capability_count \in Nat /\ r.capability_goal \in Nat
      BY DEF ReceiverState
    <2>8. KnowsOK(f, d)
      BY <1>2, <2>2, <2>5, <2>6, <2>7 DEF KnowsOK
    <2> QED
      BY <2>4, <2>5, <2>8
  <1> QED
    BY <1>1, <1>2

\* Relaxing the gap leaves it no less than 0.
LEMMA RelaxedFacts ==
  ASSUME NEW f \in Flows, NEW r \in ReceiverState, KnowsOK(f, r), r.rts_received
  PROVE  /\ Relaxed(r) \in ReceiverState /\ KnowsOK(f, Relaxed(r))
         /\ Relaxed(r).redundancy_ctrl_timeout = r.redundancy_ctrl_timeout
         /\ Relaxed(r).capability_count = r.capability_count
         /\ Relaxed(r).packets_received = r.packets_received
         /\ Relaxed(r).rts_received /\ Relaxed(r).finished = r.finished
  <1>0. PICK n \in Int : n = r.capability_count - CapabilityWindow
    BY StateTypes, ConstantFacts
  <1>1. PICK d : d = [r EXCEPT !.largest_cap_seq_received = n]
    OBVIOUS
  <1>2. /\ d \in ReceiverState /\ d.rts_received = r.rts_received
        /\ d.finished = r.finished /\ d.packets_received = r.packets_received
        /\ d.capability_count = r.capability_count /\ r.capability_count \in Nat
        /\ d.capability_goal = r.capability_goal
        /\ d.last_capa_data_seq_num_sent = r.last_capa_data_seq_num_sent
        /\ d.redundancy_ctrl_timeout = r.redundancy_ctrl_timeout
        /\ d.largest_cap_seq_received = r.capability_count - CapabilityWindow
    BY <1>0, <1>1 DEF ReceiverState
  <1>3. Missing(f, d) = Missing(f, r)
    BY <1>2 DEF Missing
  <1>4. KnowsOK(f, d)
    BY <1>2, <1>3, ConstantFacts DEF KnowsOK
  <1> QED
    BY <1>0, <1>1, <1>2, <1>4 DEF Relaxed

\* The last capability of the goal sets the timer.
LEMMA CountedFacts ==
  ASSUME NEW f \in Flows, NEW r \in ReceiverState, KnowsOK(f, r), r.rts_received,
         ~r.finished, r.redundancy_ctrl_timeout = "none"
  PROVE  /\ Counted(f, r) \in ReceiverState /\ KnowsOK(f, Counted(f, r))
         /\ Counted(f, r).capability_count = r.capability_count + 1
         /\ Counted(f, r).rts_received /\ ~Counted(f, r).finished
  <1>1. PICK s : s = NextCapaSeqNum(f, r)
    OBVIOUS
  <1>2. s \in 0 .. SizeInPkt[f] - 1 /\ s \in Int
    BY <1>1, NextCapaFacts, MissingFacts DEF KnowsOK
  <1>3. PICK t : t = IF r.capability_count + 1 = r.capability_goal THEN "ahead" ELSE "none"
    OBVIOUS
  <1>0. PICK n \in Nat : n = r.capability_count + 1
    BY StateTypes
  <1>4. PICK d : d = [r EXCEPT !.last_capa_data_seq_num_sent = s, !.capability_count = n,
                               !.window_timeout = "ahead", !.redundancy_ctrl_timeout = t]
    OBVIOUS
  <1>5. Counted(f, r) = d
    BY <1>0, <1>1, <1>3, <1>4 DEF Counted
  <1>6. /\ d \in ReceiverState /\ d.rts_received = r.rts_received
        /\ d.finished = r.finished /\ d.packets_received = r.packets_received
        /\ d.capability_count = r.capability_count + 1 /\ r.capability_count \in Nat
        /\ d.capability_goal = r.capability_goal /\ r.capability_goal \in Nat
        /\ d.last_capa_data_seq_num_sent = s /\ d.redundancy_ctrl_timeout = t
        /\ d.largest_cap_seq_received = r.largest_cap_seq_received
        /\ r.largest_cap_seq_received \in Int
    BY <1>0, <1>2, <1>3, <1>4 DEF ReceiverState
  <1>7. Missing(f, d) = Missing(f, r)
    BY <1>6 DEF Missing
  <1>8. KnowsOK(f, d)
    BY <1>2, <1>3, <1>6, <1>7, ConstantFacts DEF KnowsOK
  <1> QED
    BY <1>5, <1>6, <1>8

(***************************************************************************)
(* The steps.                                                              *)
(***************************************************************************)

\* What has been given stays given.
GivenKept == \A f \in Flows, n \in Nat : Given(f, n) => Given(f, n)'

\* At the start no flow has been heard of, and nothing is under way.
LEMMA InvInit == Init => Inv
  <1> SUFFICES ASSUME Init PROVE Inv
    OBVIOUS
  <1>1. SenderOK /\ SendersAwake
    BY CapabilityAssumption, ConstantFacts DEF Init, SenderOK, SendersAwake
  <1>2. ASSUME NEW f \in Flows
        PROVE  at_receiver[f] \in ReceiverState /\ KnowsOK(f, at_receiver[f])
               /\ f \notin Receiving(Dst[f])
    <2>1. at_receiver[f] =
            [rts_received |-> FALSE, finished |-> FALSE, packets_received |-> {},
             capability_count |-> 0, capability_goal |-> SizeInPkt[f],
             largest_cap_seq_received |-> -1, last_capa_data_seq_num_sent |-> -1,
             redundancy_ctrl_timeout |-> "none", window_timeout |-> "ahead"]
      BY DEF Init
    <2>2. SizeInPkt[f] \in Nat /\ SizeInPkt[f] >= 1
      BY ConstantFacts
    <2>3. at_receiver[f] \in ReceiverState
      BY <2>1, <2>2 DEF ReceiverState
    <2>4. Missing(f, at_receiver[f]) # {}
      <3>1. Missing(f, at_receiver[f]) = 0 .. SizeInPkt[f] - 1
        BY <2>1 DEF Missing
      <3>2. 0 \in 0 .. SizeInPkt[f] - 1
        BY <2>2
      <3> QED
        BY <3>1, <3>2
    <2>5. KnowsOK(f, at_receiver[f])
      <3>1. PICK r : r = at_receiver[f]
        OBVIOUS
      <3>2. /\ r.rts_received = FALSE /\ r.finished = FALSE /\ r.packets_received = {}
            /\ r.capability_count = 0 /\ r.capability_goal = SizeInPkt[f]
            /\ r.largest_cap_seq_received = -1 /\ r.last_capa_data_seq_num_sent = -1
            /\ r.redundancy_ctrl_timeout = "none"
        BY <2>1, <3>1
      <3>3. KnowsOK(f, r)
        BY <2>2, <2>4, <3>1, <3>2 DEF KnowsOK, Unheard
      <3> QED
        BY <3>1, <3>3
    <2> QED
      BY <2>1, <2>3, <2>5 DEF Receiving
  <1>3. ReceiverOK
    <2>1. /\ DOMAIN at_receiver = Flows
          /\ at_receiver = [f \in Flows |-> at_receiver[f]]
      BY DEF Init
    <2>2. at_receiver \in [Flows -> ReceiverState]
      BY <1>2, <2>1
    <2>3. hold_on \in [Hosts -> Nat] /\ capa_proc_evt \in [Hosts -> {"none", "normal", "timeout"}]
      BY DEF Init
    <2> QED
      BY <1>2, <2>2, <2>3 DEF ReceiverOK
  <1>4. ReceiversAwake
    BY <1>2 DEF ReceiversAwake
  <1>5. NetOK
    <2>1. \A f \in Flows : ~at_receiver[f].rts_received
      BY DEF Init
    <2> QED
      BY <2>1, ConstantFacts DEF Init, NetOK
  <1> QED
    BY <1>1, <1>3, <1>4, <1>5 DEF Inv

\* A step of a sender or of the network leaves the receiver's side alone.
LEMMA ReceiverSide ==
  ASSUME Inv, UNCHANGED receiver
  PROVE  ReceiverOK' /\ ReceiversAwake' /\ GivenKept
  BY DEF Inv, receiver, ReceiverOK, ReceiversAwake, Receiving, KnowsOK, Unheard, Missing,
         GivenKept, Given

\* A step of a receiver or of the network leaves the sender's side alone.
LEMMA SenderSide ==
  ASSUME Inv, UNCHANGED sender, GivenKept
  PROVE  SenderOK' /\ SendersAwake'
  <1>1. UNCHANGED <<started, finished, capabilities, remaining_pkts_at_sender, host_proc_event>>
    BY DEF sender
  <1>2. ASSUME NEW f \in Flows, NEW c \in capabilities[f]
        PROVE  f \in started /\ c.data_seq_num \in 0 .. SizeInPkt[f] - 1 /\ Given(f, c.seq_num)'
    <2>1. f \in started /\ c.data_seq_num \in 0 .. SizeInPkt[f] - 1 /\ Given(f, c.seq_num)
      BY <1>2 DEF Inv, SenderOK
    <2>2. c.seq_num \in Nat
      BY <2>1 DEF Given
    <2> QED
      BY <2>1, <2>2 DEF GivenKept
  <1>3. SenderOK'
    BY <1>1, <1>2 DEF Inv, SenderOK
  <1>4. SendersAwake'
    BY <1>1 DEF Inv, SendersAwake
  <1> QED
    BY <1>3, <1>4

\* The packets that were under way, and those a handler sends.
LEMMA NetSide ==
  ASSUME Inv, GivenKept, started \subseteq started', started' \subseteq Flows,
         \A m \in net' : m \in net \/ PacketOK(m)',
         \A f \in Flows :
           at_receiver'[f].rts_received => at_receiver[f].rts_received \/ f \in started',
         lost' \subseteq lost \union net, faults' \in 0 .. MaxFaults
  PROVE  NetOK'
  <1>1. NetOK
    BY DEF Inv
  <1>2. ASSUME NEW m \in net PROVE PacketOK(m)'
    <2>1. PacketOK(m) /\ m.flow \in Flows
      BY <1>1 DEF NetOK, PacketOK
    <2>2. \A n : Given(m.flow, n) => Given(m.flow, n)'
      BY <2>1 DEF GivenKept, Given
    <2> QED
      BY <2>1, <2>2 DEF PacketOK
  <1>3. \A m \in lost' : m.flow \in started'
    BY <1>1 DEF NetOK, PacketOK
  <1>4. \A f \in Flows : at_receiver'[f].rts_received => f \in started'
    BY <1>1 DEF NetOK
  <1> QED
    BY <1>2, <1>3, <1>4 DEF NetOK

\* The same for a step that leaves the receiver alone.
LEMMA NetSideOnly ==
  ASSUME Inv, UNCHANGED receiver, GivenKept, started \subseteq started',
         started' \subseteq Flows, \A m \in net' : m \in net \/ PacketOK(m)',
         lost' \subseteq lost \union net, faults' \in 0 .. MaxFaults
  PROVE  NetOK'
  <1>1. \A f \in Flows :
          at_receiver'[f].rts_received => at_receiver[f].rts_received \/ f \in started'
    BY DEF receiver
  <1> QED
    BY <1>1, NetSide

\* A flow that starts has one capability for each packet it may send at once.
LEMMA StartStep ==
  ASSUME Inv, NEW f \in Flows, StartFlow(f) PROVE Inv'
  <1>1. /\ started' = started \union {f}
        /\ capabilities' = [capabilities EXCEPT ![f] = InitCapabilities(f)]
        /\ net' = net \union {RtsPkt(f)}
        /\ host_proc_event' = IF capabilities'[f] = {} THEN host_proc_event
                              ELSE host_proc_event \union {Src[f]}
        /\ UNCHANGED <<finished, remaining_pkts_at_sender, receiver, faults, lost>>
    BY DEF StartFlow
  <1>2. ReceiverOK' /\ ReceiversAwake' /\ GivenKept
    BY <1>1, ReceiverSide
  <1>3. SenderOK /\ SendersAwake /\ NetOK
    BY DEF Inv
  <1>4. ASSUME NEW c \in InitCapabilities(f)
        PROVE  /\ c \in Capability /\ c.data_seq_num \in 0 .. SizeInPkt[f] - 1
               /\ Given(f, c.seq_num)'
    <2>1. PICK i \in 0 .. InitCapaSize(f) - 1 : c = [seq_num |-> i, data_seq_num |-> i]
      BY <1>4 DEF InitCapabilities
    <2>2. i \in Nat /\ i < InitCapaSize(f) /\ i \in 0 .. SizeInPkt[f] - 1
      BY <2>1, ConstantFacts
    <2> QED
      BY <2>1, <2>2 DEF Capability, Given
  <1>5. capabilities' \in [Flows -> SUBSET Capability] /\ capabilities'[f] = InitCapabilities(f)
    BY <1>1, <1>3, <1>4 DEF SenderOK
  <1>6. \A g \in Flows : g # f => capabilities'[g] = capabilities[g]
    BY <1>1, <1>3 DEF SenderOK
  <1>7. \A g \in Flows, n \in Nat : Given(g, n) => Given(g, n)'
    BY <1>2 DEF GivenKept
  <1>8. SenderOK'
    <2>1. ASSUME NEW g \in Flows, NEW c \in capabilities'[g]
          PROVE  /\ g \in started' /\ c.data_seq_num \in 0 .. SizeInPkt[g] - 1
                 /\ Given(g, c.seq_num)'
      <3>1. CASE g = f
        BY <1>1, <1>4, <1>5, <2>1, <3>1
      <3>2. CASE g # f
        <4>1. /\ g \in started /\ c.data_seq_num \in 0 .. SizeInPkt[g] - 1
              /\ Given(g, c.seq_num)
          BY <1>3, <1>6, <2>1, <3>2 DEF SenderOK
        <4>2. c.seq_num \in Nat
          BY <4>1 DEF Given
        <4> QED
          BY <1>1, <1>7, <4>1, <4>2
      <3> QED
        BY <3>1, <3>2
    <2> QED
      BY <1>1, <1>3, <1>5, <2>1, ConstantFacts DEF SenderOK
  <1>9. SendersAwake'
    BY <1>1, <1>3, <1>6 DEF SendersAwake
  <1>10. NetOK'
    <2>1. PacketOK(RtsPkt(f))'
      BY <1>1 DEF PacketOK, RtsPkt
    <2> QED
      BY <1>1, <1>2, <1>3, <2>1, NetSideOnly DEF SenderOK, NetOK
  <1> QED
    BY <1>2, <1>8, <1>9, <1>10 DEF Inv

\* A capability of a flow is gone, used or expired; the sender stays awake.
LEMMA LessCapability ==
  ASSUME SenderOK, NEW f \in Flows, NEW c \in capabilities[f],
         capabilities' = [capabilities EXCEPT ![f] = @ \ {c}]
  PROVE  /\ capabilities' \in [Flows -> SUBSET Capability]
         /\ \A g \in Flows : capabilities'[g] \subseteq capabilities[g]
  BY DEF SenderOK

\* The host uses a capability of a flow, or has none.
LEMMA SendStep ==
  ASSUME Inv, NEW h \in Hosts, Send(h) PROVE Inv'
  <1>1. UNCHANGED <<started, finished, remaining_pkts_at_sender, receiver, faults, lost>>
    BY DEF Send
  <1>2. ReceiverOK' /\ ReceiversAwake' /\ GivenKept
    BY <1>1, ReceiverSide
  <1>3. SenderOK /\ SendersAwake /\ NetOK
    BY DEF Inv
  <1>4. \A g \in Flows : \A n : Given(g, n) <=> Given(g, n)'
    BY <1>1 DEF Given, receiver
  <1>5. CASE MaySend(h) = {}
    <2>1. host_proc_event' = host_proc_event \ {h} /\ UNCHANGED <<capabilities, net>>
      BY <1>5 DEF Send
    <2>2. SenderOK'
      BY <1>1, <1>3, <1>4, <2>1 DEF SenderOK
    <2>3. SendersAwake'
      <3> SUFFICES ASSUME NEW g \in Flows, g \notin finished, capabilities[g] # {}
                   PROVE  Src[g] \in host_proc_event'
        BY <1>1, <2>1 DEF SendersAwake
      <3>1. g \in started
        BY <1>3 DEF SenderOK
      <3>2. Src[g] # h
        BY <1>5, <3>1 DEF MaySend
      <3> QED
        BY <1>3, <2>1, <3>2 DEF SendersAwake
    <2>4. NetOK'
      BY <1>1, <1>2, <1>3, <2>1, NetSideOnly DEF SenderOK, NetOK
    <2> QED
      BY <1>2, <2>2, <2>3, <2>4 DEF Inv
  <1>6. CASE MaySend(h) # {}
    <2>1. PICK f : f = Top(MaySend(h), remaining_pkts_at_sender)
      OBVIOUS
    <2>2. MaySend(h) \subseteq Flows /\ \A g \in Flows : remaining_pkts_at_sender[g] \in Nat
      BY <1>3 DEF MaySend, SenderOK
    <2>3. f \in Flows /\ f \in started
      <3>1. f \in MaySend(h)
        BY <1>6, <2>1, <2>2, TopFacts
      <3> QED
        BY <2>2, <3>1 DEF MaySend
    <2>4. PICK c \in capabilities[f] :
            /\ capabilities' = [capabilities EXCEPT ![f] = @ \ {c}]
            /\ net' = net \union {DataPkt(f, c)} /\ UNCHANGED host_proc_event
      BY <1>6, <2>1 DEF Send, SendPendingData
    <2>5. /\ capabilities' \in [Flows -> SUBSET Capability]
          /\ \A g \in Flows : capabilities'[g] \subseteq capabilities[g]
      BY <1>3, <2>3, <2>4, LessCapability
    <2>6. SenderOK'
      BY <1>1, <1>3, <1>4, <2>4, <2>5 DEF SenderOK
    <2>7. SendersAwake'
      BY <1>1, <1>3, <2>4, <2>5 DEF SendersAwake
    <2>8. NetOK'
      <3>1. /\ c.data_seq_num \in 0 .. SizeInPkt[f] - 1 /\ Given(f, c.seq_num)'
            /\ f \in started'
        BY <1>1, <1>3, <1>4, <2>3, <2>4 DEF SenderOK
      <3>2. PacketOK(DataPkt(f, c))'
        BY <3>1 DEF PacketOK, DataPkt
      <3> QED
        BY <1>1, <1>2, <1>3, <2>4, <3>2, NetSideOnly DEF SenderOK, NetOK
    <2> QED
      BY <1>2, <2>6, <2>7, <2>8 DEF Inv
  <1> QED
    BY <1>5, <1>6

\* A capability comes for a flow that is not finished: its host is woken.
LEMMA CapabilityStep ==
  ASSUME Inv, NEW m \in net, ReceiveCapability(m) PROVE Inv'
  <1>1. /\ m.type = "CAPA" /\ net' = net \ {m}
        /\ UNCHANGED <<started, finished, receiver, faults, lost>>
    BY DEF ReceiveCapability
  <1>2. ReceiverOK' /\ ReceiversAwake' /\ GivenKept
    BY <1>1, ReceiverSide
  <1>3. SenderOK /\ SendersAwake /\ NetOK
    BY DEF Inv
  <1>4. \A g \in Flows : \A n : Given(g, n) <=> Given(g, n)'
    BY <1>1 DEF Given, receiver
  <1>5. NetOK'
    BY <1>1, <1>2, <1>3, NetSideOnly DEF SenderOK, NetOK
  <1>6. CASE m.flow \in finished
    <2>1. UNCHANGED <<capabilities, remaining_pkts_at_sender, host_proc_event>>
      BY <1>6 DEF ReceiveCapability
    <2>2. UNCHANGED sender
      BY <1>1, <2>1 DEF sender
    <2> QED
      BY <1>2, <1>5, <2>2, SenderSide DEF Inv
  <1>7. CASE m.flow \notin finished
    <2>0. PICK f, c : f = m.flow /\ c = [seq_num |-> m.seq_num, data_seq_num |-> m.data_seq_num]
      OBVIOUS
    <2>1. /\ capabilities' = [capabilities EXCEPT ![f] = @ \union {c}]
          /\ remaining_pkts_at_sender' = [remaining_pkts_at_sender EXCEPT ![f] = m.remaining]
          /\ host_proc_event' = host_proc_event \union {Src[f]}
      BY <1>7, <2>0 DEF ReceiveCapability, WakeSender
    <2>2. /\ f \in started /\ f \in Flows /\ m.remaining \in Nat
          /\ m.data_seq_num \in 0 .. SizeInPkt[f] - 1 /\ Given(f, m.seq_num)
      BY <1>1, <1>3, <2>0 DEF NetOK, PacketOK, SenderOK
    <2>3. /\ c \in Capability /\ c.data_seq_num \in 0 .. SizeInPkt[f] - 1
          /\ Given(f, c.seq_num)
      BY <2>0, <2>2, ConstantFacts DEF Capability, Given
    <2>4. /\ capabilities' \in [Flows -> SUBSET Capability]
          /\ capabilities'[f] = capabilities[f] \union {c}
          /\ \A g \in Flows : g # f => capabilities'[g] = capabilities[g]
          /\ remaining_pkts_at_sender' \in [Flows -> Nat]
      BY <1>3, <2>1, <2>2, <2>3 DEF SenderOK
    <2>5. ASSUME NEW g \in Flows, NEW d \in capabilities'[g]
          PROVE  /\ g \in started /\ d.data_seq_num \in 0 .. SizeInPkt[g] - 1
                 /\ Given(g, d.seq_num)
      <3>1. CASE d \in capabilities[g]
        BY <1>3, <3>1 DEF SenderOK
      <3>2. CASE g = f /\ d = c
        BY <2>2, <2>3, <3>2
      <3> QED
        BY <2>4, <2>5, <3>1, <3>2
    <2>6. SenderOK'
      BY <1>1, <1>3, <1>4, <2>1, <2>2, <2>4, <2>5, ConstantFacts DEF SenderOK
    <2>7. SendersAwake'
      BY <1>1, <1>3, <2>1, <2>4 DEF SendersAwake
    <2> QED
      BY <1>2, <1>5, <2>6, <2>7 DEF Inv
  <1> QED
    BY <1>6, <1>7

\* An ACK finishes its flow.
LEMMA AckStep ==
  ASSUME Inv, NEW m \in net, ReceiveAck(m) PROVE Inv'
  <1>1. /\ finished' = finished \union {m.flow} /\ net' = net \ {m}
        /\ UNCHANGED <<started, capabilities, remaining_pkts_at_sender, host_proc_event,
                       receiver, faults, lost>>
    BY DEF ReceiveAck
  <1>2. ReceiverOK' /\ ReceiversAwake' /\ GivenKept
    BY <1>1, ReceiverSide
  <1>3. SenderOK /\ SendersAwake /\ NetOK
    BY DEF Inv
  <1>4. \A g \in Flows : \A n : Given(g, n) <=> Given(g, n)'
    BY <1>1 DEF Given, receiver
  <1>5. SenderOK' /\ SendersAwake'
    BY <1>1, <1>3, <1>4 DEF SenderOK, SendersAwake, NetOK, PacketOK
  <1>6. NetOK'
    BY <1>1, <1>2, <1>3, NetSideOnly DEF SenderOK, NetOK
  <1> QED
    BY <1>2, <1>5, <1>6 DEF Inv

\* Capabilities expire.
LEMMA ExpireStep ==
  ASSUME Inv, NEW f \in Flows, Expire(f) PROVE Inv'
  <1>1. /\ Fault
        /\ UNCHANGED <<started, finished, remaining_pkts_at_sender, host_proc_event,
                       receiver, net, lost>>
    BY DEF Expire
  <1>2. ReceiverOK' /\ ReceiversAwake' /\ GivenKept
    BY <1>1, ReceiverSide
  <1>3. SenderOK /\ SendersAwake /\ NetOK
    BY DEF Inv
  <1>4. \A g \in Flows : \A n : Given(g, n) <=> Given(g, n)'
    BY <1>1 DEF Given, receiver
  <1>5. PICK c \in capabilities[f] : capabilities' = [capabilities EXCEPT ![f] = @ \ {c}]
    BY DEF Expire
  <1>6. /\ capabilities' \in [Flows -> SUBSET Capability]
        /\ \A g \in Flows : capabilities'[g] \subseteq capabilities[g]
    BY <1>3, <1>5, LessCapability
  <1>7. SenderOK' /\ SendersAwake'
    BY <1>1, <1>3, <1>4, <1>6 DEF SenderOK, SendersAwake
  <1>8. faults' \in 0 .. MaxFaults
    BY <1>1, <1>3, ConstantFacts DEF Fault, NetOK
  <1>9. NetOK'
    BY <1>1, <1>2, <1>3, <1>8, NetSideOnly DEF SenderOK
  <1> QED
    BY <1>2, <1>7, <1>9 DEF Inv

\* A packet is lost.
LEMMA LoseStep ==
  ASSUME Inv, NEW m \in net, Lose(m) PROVE Inv'
  <1>1. /\ net' = net \ {m} /\ lost' \subseteq lost \union {m} /\ Fault
        /\ UNCHANGED <<sender, receiver>>
    BY DEF Lose
  <1>2. ReceiverOK' /\ ReceiversAwake' /\ GivenKept
    BY <1>1, ReceiverSide
  <1>3. SenderOK' /\ SendersAwake'
    BY <1>1, <1>2, SenderSide
  <1>4. faults' \in 0 .. MaxFaults
    BY <1>1, ConstantFacts DEF Inv, Fault, NetOK
  <1>5. started' = started /\ started \subseteq Flows
    BY <1>1 DEF sender, Inv, SenderOK
  <1>6. NetOK'
    BY <1>1, <1>2, <1>4, <1>5, NetSideOnly
  <1> QED
    BY <1>2, <1>3, <1>6 DEF Inv

\* What a handler of the receiver makes of its flows: each still knows what it has
\* given, and none that was not to receive packets is now, but those whose host is awake.
LEMMA ReceiverStep ==
  ASSUME Inv, at_receiver' \in [Flows -> ReceiverState],
         \A f \in Flows :
           /\ KnowsOK(f, at_receiver'[f])
           /\ at_receiver'[f].capability_count >= at_receiver[f].capability_count,
         hold_on' \in [Hosts -> Nat],
         capa_proc_evt' \in [Hosts -> {"none", "normal", "timeout"}],
         \A f \in Flows : f \in Receiving(Dst[f])' => capa_proc_evt'[Dst[f]] # "none"
  PROVE  ReceiverOK' /\ ReceiversAwake' /\ GivenKept
  <1>1. ReceiverOK'
    BY DEF ReceiverOK, KnowsOK, Unheard, Missing
  <1>2. ReceiversAwake'
    BY DEF ReceiversAwake
  <1>3. \A f \in Flows : /\ at_receiver[f].capability_count \in Nat
                         /\ at_receiver'[f].capability_count \in Nat
    BY StateTypes DEF Inv, ReceiverOK
  <1>4. GivenKept
    BY <1>3 DEF GivenKept, Given
  <1> QED
    BY <1>1, <1>2, <1>4

\* A timer passes.
LEMMA PassStep ==
  ASSUME Inv, NEW f \in Flows, NEW timer \in {"redundancy_ctrl_timeout", "window_timeout"},
         Pass(f, timer)
  PROVE  Inv'
  <1>1. /\ f \in Receiving(Dst[f]) /\ at_receiver[f][timer] = "ahead"
        /\ at_receiver' = [at_receiver EXCEPT ![f][timer] = "past"]
        /\ UNCHANGED <<sender, hold_on, capa_proc_evt, net, lost>>
    BY DEF Pass
  <1>2. ReceiverOK /\ ReceiversAwake /\ NetOK
    BY DEF Inv
  <1>3. PICK r, d : r = at_receiver[f] /\ d = [r EXCEPT ![timer] = "past"]
    OBVIOUS
  <1>4. /\ r \in ReceiverState /\ KnowsOK(f, r)
        /\ at_receiver' = [at_receiver EXCEPT ![f] = d]
    BY <1>1, <1>2, <1>3 DEF ReceiverOK
  <1>5. /\ d \in ReceiverState /\ d.rts_received = r.rts_received
        /\ d.finished = r.finished /\ d.packets_received = r.packets_received
        /\ d.capability_count = r.capability_count /\ d.capability_goal = r.capability_goal
        /\ d.last_capa_data_seq_num_sent = r.last_capa_data_seq_num_sent
        /\ d.largest_cap_seq_received = r.largest_cap_seq_received
        /\ d.redundancy_ctrl_timeout # "none" <=> r.redundancy_ctrl_timeout # "none"
    <2>1. CASE timer = "window_timeout"
      <3>1. d = [r EXCEPT !.window_timeout = "past"]
        BY <1>3, <2>1
      <3> QED
        BY <1>4, <3>1 DEF ReceiverState
    <2>2. CASE timer = "redundancy_ctrl_timeout"
      <3>1. /\ d = [r EXCEPT !.redundancy_ctrl_timeout = "past"]
            /\ r.redundancy_ctrl_timeout = "ahead"
        BY <1>1, <1>3, <2>2
      <3> QED
        BY <1>4, <3>1 DEF ReceiverState
    <2> QED
      BY <2>1, <2>2
  <1>6. Missing(f, d) = Missing(f, r)
    BY <1>5 DEF Missing
  <1>7. r.rts_received
    BY <1>1, <1>3 DEF Receiving
  <1>8. KnowsOK(f, d)
    BY <1>4, <1>5, <1>6, <1>7 DEF KnowsOK
  <1>9. /\ at_receiver' \in [Flows -> ReceiverState] /\ at_receiver'[f] = d
        /\ \A g \in Flows : g # f => at_receiver'[g] = at_receiver[g]
    BY <1>2, <1>4, <1>5 DEF ReceiverOK
  <1>10. \A g \in Flows :
           /\ KnowsOK(g, at_receiver'[g])
           /\ at_receiver'[g].capability_count >= at_receiver[g].capability_count
    <2> SUFFICES ASSUME NEW g \in Flows
                 PROVE  /\ KnowsOK(g, at_receiver'[g])
                        /\ at_receiver'[g].capability_count >= at_receiver[g].capability_count
      OBVIOUS
    <2>1. KnowsOK(g, at_receiver[g]) /\ at_receiver[g].capability_count \in Nat
      BY <1>2, StateTypes DEF ReceiverOK
    <2>2. CASE g = f
      <3>1. at_receiver'[g] = d /\ d.capability_count = at_receiver[g].capability_count
        BY <1>3, <1>5, <1>9, <2>2
      <3>2. KnowsOK(g, at_receiver'[g])
        BY <1>8, <2>2, <3>1
      <3> QED
        BY <2>1, <3>1, <3>2
    <2>3. CASE g # f
      BY <1>9, <2>1, <2>3
    <2> QED
      BY <2>2, <2>3
  <1>11. \A g \in Flows : g \in Receiving(Dst[g])' => capa_proc_evt'[Dst[g]] # "none"
    <2>1. \A g \in Flows : g \in Receiving(Dst[g])' => g \in Receiving(Dst[g])
      BY <1>3, <1>5, <1>9 DEF Receiving
    <2> QED
      BY <1>1, <1>2, <2>1 DEF ReceiversAwake
  <1>12. ReceiverOK' /\ ReceiversAwake' /\ GivenKept
    BY <1>1, <1>2, <1>9, <1>10, <1>11, ReceiverStep DEF ReceiverOK
  <1>13. SenderOK' /\ SendersAwake'
    BY <1>1, <1>12, SenderSide
  <1>14. faults' \in 0 .. MaxFaults
    BY <1>2, ConstantFacts DEF Pass, Fault, NetOK
  <1>15. NetOK'
    <2>1. started' = started /\ started \subseteq Flows
      BY <1>1 DEF sender, Inv, SenderOK
    <2>2. \A g \in Flows : at_receiver'[g].rts_received => at_receiver[g].rts_received
      BY <1>3, <1>5, <1>9
    <2> QED
      BY <1>1, <1>12, <1>14, <2>1, <2>2, NetSide
  <1> QED
    BY <1>12, <1>13, <1>15 DEF Inv

\* A host hears of a flow, and what it makes of it, d, is right.
LEMMA HearStep ==
  ASSUME Inv, NEW f \in Flows, NEW d \in ReceiverState, KnowsOK(f, d), d.rts_received,
         d.capability_count >= at_receiver[f].capability_count,
         at_receiver[f].finished => d.finished,
         at_receiver' = [at_receiver EXCEPT ![f] = d], HostHears(f)
  PROVE  /\ ReceiverOK' /\ ReceiversAwake' /\ GivenKept
         /\ \A g \in Flows :
              at_receiver'[g].rts_received => at_receiver[g].rts_received \/ g = f
  <1>1. ReceiverOK /\ ReceiversAwake /\ Dst[f] \in Hosts /\ InitCapaSize(f) \in Nat
    BY ConstantFacts DEF Inv
  <1>2. /\ at_receiver' \in [Flows -> ReceiverState] /\ at_receiver'[f] = d
        /\ \A g \in Flows : g # f => at_receiver'[g] = at_receiver[g]
    BY <1>1 DEF ReceiverOK
  <1>3. \A g \in Flows :
          /\ KnowsOK(g, at_receiver'[g])
          /\ at_receiver'[g].capability_count >= at_receiver[g].capability_count
    <2> SUFFICES ASSUME NEW g \in Flows
                 PROVE  /\ KnowsOK(g, at_receiver'[g])
                        /\ at_receiver'[g].capability_count >= at_receiver[g].capability_count
      OBVIOUS
    <2>1. KnowsOK(g, at_receiver[g]) /\ at_receiver[g].capability_count \in Nat
      BY <1>1, StateTypes DEF ReceiverOK
    <2>2. CASE g = f
      BY <1>2, <2>2
    <2>3. CASE g # f
      BY <1>2, <2>1, <2>3
    <2> QED
      BY <2>2, <2>3
  <1>4. /\ hold_on' \in [Hosts -> Nat]
        /\ capa_proc_evt' \in [Hosts -> {"none", "normal", "timeout"}]
        /\ \A h \in Hosts : capa_proc_evt'[h] = capa_proc_evt[h] \/ capa_proc_evt'[h] = "normal"
        /\ ~at_receiver[f].rts_received => capa_proc_evt'[Dst[f]] = "normal"
    BY <1>1 DEF HostHears, AfterRts, ReceiverOK
  <1>5. \A g \in Flows : g \in Receiving(Dst[g])' => capa_proc_evt'[Dst[g]] # "none"
    <2> SUFFICES ASSUME NEW g \in Flows, g \in Receiving(Dst[g])'
                 PROVE  capa_proc_evt'[Dst[g]] # "none"
      OBVIOUS
    <2>1. Dst[g] \in Hosts
      BY ConstantFacts
    <2>2. CASE g \in Receiving(Dst[g])
      BY <1>1, <1>4, <2>1, <2>2 DEF ReceiversAwake
    <2>3. CASE g \notin Receiving(Dst[g])
      <3>1. g = f /\ ~at_receiver[f].rts_received
        BY <1>2, <2>3 DEF Receiving
      <3> QED
        BY <1>4, <3>1
    <2> QED
      BY <2>2, <2>3
  <1> QED
    BY <1>2, <1>3, <1>4, <1>5, ReceiverStep

\* A receiver hears of a flow by its RTS.
LEMMA RtsStep ==
  ASSUME Inv, NEW m \in net, ReceiveRts(m) PROVE Inv'
  <1>1. net' = net \ {m} /\ UNCHANGED <<sender, faults, lost>>
    BY DEF ReceiveRts
  <1>2. SenderOK /\ ReceiverOK /\ NetOK
    BY DEF Inv
  <1>3. /\ ReceiverOK' /\ ReceiversAwake' /\ GivenKept
        /\ \A g \in Flows :
             at_receiver'[g].rts_received => at_receiver[g].rts_received \/ g \in started
    <2>1. CASE m.flow \in finished
      BY <2>1, ReceiverSide DEF ReceiveRts, receiver
    <2>2. CASE m.flow \notin finished
      <3>1. PICK f, d : f = m.flow /\ d = HeardOf(f, at_receiver[f])
        OBVIOUS
      <3>2. f \in Flows /\ f \in started
        BY <1>2, <3>1 DEF NetOK, PacketOK, SenderOK
      <3>3. at_receiver' = [at_receiver EXCEPT ![f] = d] /\ HostHears(f)
        BY <1>2, <2>2, <3>1, <3>2 DEF ReceiveRts, ReceiverOK
      <3>4. at_receiver[f] \in ReceiverState /\ KnowsOK(f, at_receiver[f])
        BY <1>2, <3>2 DEF ReceiverOK
      <3>5. /\ d \in ReceiverState /\ KnowsOK(f, d) /\ d.rts_received
            /\ d.capability_count >= at_receiver[f].capability_count
            /\ d.finished = at_receiver[f].finished
        BY <3>1, <3>2, <3>4, HeardFacts
      <3> QED
        BY <3>2, <3>3, <3>5, HearStep
    <2> QED
      BY <2>1, <2>2
  <1>4. SenderOK' /\ SendersAwake'
    BY <1>1, <1>3, SenderSide
  <1>5. started' = started /\ started \subseteq Flows
    BY <1>1, <1>2 DEF sender, SenderOK
  <1>6. NetOK'
    BY <1>1, <1>2, <1>3, <1>5, NetSide DEF NetOK
  <1> QED
    BY <1>3, <1>4, <1>6 DEF Inv

\* A receiver takes a data packet, the first it hears of the flow or not.
LEMMA DataStep ==
  ASSUME Inv, NEW m \in net, ReceiveData(m) PROVE Inv'
  <1>1. m.type = "DATA" /\ UNCHANGED <<sender, faults, lost>>
    BY DEF ReceiveData
  <1>2. SenderOK /\ ReceiverOK /\ NetOK
    BY DEF Inv
  <1>3. PICK f, h, d :
          f = m.flow /\ h = HeardOf(f, at_receiver[f]) /\ d = AfterData(f, h, m)
    OBVIOUS
  <1>4. /\ f \in Flows /\ f \in started /\ m.data_seq \in 0 .. SizeInPkt[f] - 1
        /\ Given(f, m.seq_num)
    BY <1>1, <1>2, <1>3 DEF NetOK, PacketOK, SenderOK
  <1>5. /\ ReceiverOK' /\ ReceiversAwake' /\ GivenKept
        /\ \A g \in Flows :
             at_receiver'[g].rts_received => at_receiver[g].rts_received \/ g \in started
    <2>1. CASE m.flow \in finished
      BY <2>1, ReceiverSide DEF ReceiveData, receiver
    <2>2. CASE m.flow \notin finished
      <3>1. at_receiver' = [at_receiver EXCEPT ![f] = d] /\ HostHears(f)
        BY <1>3, <2>2 DEF ReceiveData
      <3>2. at_receiver[f] \in ReceiverState /\ KnowsOK(f, at_receiver[f])
        BY <1>2, <1>4 DEF ReceiverOK
      <3>3. /\ h \in ReceiverState /\ KnowsOK(f, h) /\ h.rts_received
            /\ h.capability_count >= at_receiver[f].capability_count
            /\ h.finished = at_receiver[f].finished
        BY <1>3, <1>4, <3>2, HeardFacts
      <3>4. m.seq_num \in Nat /\ m.seq_num < h.capability_count
        <4>1. InitCapaSize(f) <= h.capability_count
          BY <3>3 DEF KnowsOK
        <4>2. /\ at_receiver[f].capability_count \in Nat /\ h.capability_count \in Nat
              /\ InitCapaSize(f) \in Nat
          BY <1>4, <3>2, <3>3, StateTypes, ConstantFacts
        <4>3. m.seq_num \in Nat /\ (m.seq_num < InitCapaSize(f)
                                    \/ m.seq_num < at_receiver[f].capability_count)
          BY <1>4 DEF Given
        <4> QED
          BY <3>3, <4>1, <4>2, <4>3
      <3>5. /\ d \in ReceiverState /\ KnowsOK(f, d) /\ d.rts_received
            /\ d.capability_count = h.capability_count
        BY <1>3, <1>4, <3>3, <3>4, DataFacts
      <3>6. h.finished => d.finished
        <4>1. h.finished => Missing(f, h) = {}
          BY <3>3 DEF KnowsOK
        <4>2. d.packets_received = h.packets_received \union {m.data_seq}
          BY <1>3, <3>3 DEF AfterData, ReceiverState
        <4>3. Missing(f, d) \subseteq Missing(f, h)
          BY <4>2 DEF Missing
        <4> QED
          BY <3>5, <4>1, <4>3 DEF KnowsOK
      <3> QED
        BY <1>4, <3>1, <3>3, <3>5, <3>6, HearStep
    <2> QED
      BY <2>1, <2>2
  <1>6. SenderOK' /\ SendersAwake'
    BY <1>1, <1>5, SenderSide
  <1>7. started' = started /\ started \subseteq Flows
    BY <1>1, <1>2 DEF sender, SenderOK
  <1>8. NetOK'
    <2>1. PacketOK(AckPkt(f))'
      BY <1>4, <1>7 DEF PacketOK, AckPkt
    <2>2. \A x \in net' : x \in net \/ x = AckPkt(f)
      BY <1>3 DEF ReceiveData
    <2> QED
      BY <1>1, <1>2, <1>5, <1>7, <2>1, <2>2, NetSide DEF NetOK
  <1> QED
    BY <1>5, <1>6, <1>8 DEF Inv

\* A host that still gives its flows time counts down, and stays awake.
LEMMA HoldOnStep ==
  ASSUME Inv, NEW h \in Hosts, HoldOn(h)
  PROVE  ReceiverOK' /\ ReceiversAwake' /\ GivenKept
  <1>1. ReceiverOK /\ ReceiversAwake
    BY DEF Inv
  <1>2. /\ hold_on[h] > 0 /\ hold_on' = [hold_on EXCEPT ![h] = @ - 1]
        /\ capa_proc_evt' = [capa_proc_evt EXCEPT ![h] = "normal"]
        /\ at_receiver' = at_receiver
    BY DEF HoldOn, NextCapaEvent
  <1>3. hold_on' \in [Hosts -> Nat] /\ capa_proc_evt' \in [Hosts -> {"none", "normal", "timeout"}]
    BY <1>1, <1>2 DEF ReceiverOK
  <1>4. \A f \in Flows : f \in Receiving(Dst[f])' => capa_proc_evt'[Dst[f]] # "none"
    <2> SUFFICES ASSUME NEW f \in Flows, f \in Receiving(Dst[f])'
                 PROVE  capa_proc_evt'[Dst[f]] # "none"
      OBVIOUS
    <2>1. f \in Receiving(Dst[f]) /\ Dst[f] \in Hosts
      BY <1>2, ConstantFacts DEF Receiving
    <2> QED
      BY <1>1, <1>2, <2>1 DEF ReceiverOK, ReceiversAwake
  <1>5. \A f \in Flows :
          /\ KnowsOK(f, at_receiver'[f])
          /\ at_receiver'[f].capability_count >= at_receiver[f].capability_count
    BY <1>1, <1>2, StateTypes DEF ReceiverOK
  <1> QED
    BY <1>1, <1>2, <1>3, <1>4, <1>5, ReceiverStep DEF ReceiverOK

\* A host gives a capability to the flow that may have one and misses the fewest
\* packets, and renews the goals of those it tries first.
LEMMA GiveStep ==
  ASSUME Inv, NEW h \in Hosts, GiveCapability(h)
  PROVE  /\ ReceiverOK' /\ ReceiversAwake' /\ GivenKept
         /\ \A f \in Flows : at_receiver'[f].rts_received => at_receiver[f].rts_received
         /\ \A m \in net' : m \in net \/
              /\ m.type = "CAPA" /\ m.flow \in Flows /\ at_receiver[m.flow].rts_received
              /\ m.data_seq_num \in 0 .. SizeInPkt[m.flow] - 1
              /\ m.remaining \in Nat /\ Given(m.flow, m.seq_num)'
  <1>0. PICK able, top, ready :
          /\ able = {f \in Receiving(h) : MayHave(at_receiver[f])}
          /\ top = Top(able, remaining_pkts)
          /\ ready = Relaxed(Renewed(top, at_receiver[top]))
    OBVIOUS
  <1>1. PICK tried : /\ tried \subseteq Receiving(h)
                     /\ at_receiver' = [f \in Flows |->
                          IF able # {} /\ f = top THEN Counted(f, ready)
                          ELSE IF f \in tried THEN Renewed(f, at_receiver[f])
                          ELSE at_receiver[f]]
    <2>1. PICK tried : tried = IF able = {} THEN Receiving(h)
                               ELSE {f \in Receiving(h) : Top({f, top}, remaining_pkts) = f}
      OBVIOUS
    <2> QED
      BY <1>0, <2>1 DEF GiveCapability
  <1>2. /\ net' = IF able = {} THEN net ELSE net \union {CapabilityPkt(top, ready)}
        /\ capa_proc_evt' = [capa_proc_evt EXCEPT ![h] = NextCapaEvent(h, able # {})]
        /\ hold_on' = hold_on
    BY <1>0 DEF GiveCapability
  <1>3. ReceiverOK /\ ReceiversAwake
    BY DEF Inv
  <1>4. \A f \in Flows : /\ at_receiver[f] \in ReceiverState /\ KnowsOK(f, at_receiver[f])
                         /\ at_receiver[f].capability_count \in Nat
    BY <1>3, StateTypes DEF ReceiverOK
  <1>5. able # {} =>
          /\ top \in Flows /\ top \in Receiving(h) /\ at_receiver[top].rts_received
          /\ ready \in ReceiverState /\ KnowsOK(top, ready) /\ ready.rts_received
          /\ ~ready.finished /\ ready.redundancy_ctrl_timeout = "none"
          /\ ready.capability_count = at_receiver[top].capability_count
    <2> SUFFICES ASSUME able # {}
                 PROVE  /\ top \in Flows /\ top \in Receiving(h)
                        /\ at_receiver[top].rts_received
                        /\ ready \in ReceiverState /\ KnowsOK(top, ready)
                        /\ ready.rts_received /\ ~ready.finished
                        /\ ready.redundancy_ctrl_timeout = "none"
                        /\ ready.capability_count = at_receiver[top].capability_count
      OBVIOUS
    <2>1. able \subseteq Flows
      BY <1>0 DEF Receiving
    <2>2. \A f \in Flows : remaining_pkts[f] \in Nat
      BY MissingFacts DEF remaining_pkts
    <2>3. top \in able
      BY <1>0, <2>1, <2>2, TopFacts
    <2>4. /\ top \in Flows /\ top \in Receiving(h) /\ at_receiver[top].rts_received
          /\ ~at_receiver[top].finished /\ at_receiver[top].redundancy_ctrl_timeout # "ahead"
      BY <1>0, <2>3 DEF Receiving, MayHave
    <2>5. PICK r : r = Renewed(top, at_receiver[top])
      OBVIOUS
    <2>6. /\ r \in ReceiverState /\ KnowsOK(top, r) /\ r.rts_received /\ ~r.finished
          /\ r.redundancy_ctrl_timeout = "none"
          /\ r.capability_count = at_receiver[top].capability_count
      BY <1>4, <2>4, <2>5, RenewedFacts
    <2>7. ready = Relaxed(r)
      BY <1>0, <2>5
    <2> QED
      BY <2>4, <2>6, <2>7, RelaxedFacts
  <1>6. ASSUME NEW f \in Flows
        PROVE  /\ at_receiver'[f] \in ReceiverState /\ KnowsOK(f, at_receiver'[f])
               /\ at_receiver'[f].capability_count >= at_receiver[f].capability_count
               /\ at_receiver'[f].rts_received => at_receiver[f].rts_received
               /\ at_receiver'[f].rts_received /\ ~at_receiver'[f].finished =>
                    at_receiver[f].rts_received /\ ~at_receiver[f].finished
    <2>1. CASE able # {} /\ f = top
      <3>1. at_receiver'[f] = Counted(f, ready)
        BY <1>1, <2>1
      <3>2. f \in Receiving(h)
        BY <1>5, <2>1
      <3> QED
        BY <1>4, <1>5, <2>1, <3>1, <3>2, CountedFacts DEF Receiving
    <2>2. CASE ~(able # {} /\ f = top) /\ f \in tried
      <3>1. at_receiver'[f] = Renewed(f, at_receiver[f])
        BY <1>1, <2>2
      <3>2. at_receiver[f].rts_received /\ ~at_receiver[f].finished
        BY <1>1, <2>2 DEF Receiving
      <3> QED
        BY <1>4, <3>1, <3>2, RenewedFacts
    <2>3. CASE ~(able # {} /\ f = top) /\ f \notin tried
      <3>1. at_receiver'[f] = at_receiver[f]
        BY <1>1, <2>3
      <3> QED
        BY <1>4, <3>1
    <2> QED
      BY <2>1, <2>2, <2>3
  <1>7. at_receiver' \in [Flows -> ReceiverState]
    BY <1>1, <1>6
  <1>8. /\ capa_proc_evt' \in [Hosts -> {"none", "normal", "timeout"}]
        /\ \A g \in Hosts : g # h => capa_proc_evt'[g] = capa_proc_evt[g]
        /\ Receiving(h) # {} => capa_proc_evt'[h] # "none"
    BY <1>2, <1>3 DEF NextCapaEvent, ReceiverOK
  <1>9. \A f \in Flows : f \in Receiving(Dst[f])' => capa_proc_evt'[Dst[f]] # "none"
    <2> SUFFICES ASSUME NEW f \in Flows, f \in Receiving(Dst[f])'
                 PROVE  capa_proc_evt'[Dst[f]] # "none"
      OBVIOUS
    <2>1. f \in Receiving(Dst[f]) /\ Dst[f] \in Hosts
      BY <1>6, ConstantFacts DEF Receiving
    <2> QED
      BY <1>3, <1>8, <2>1 DEF ReceiversAwake
  <1>10. ReceiverOK' /\ ReceiversAwake' /\ GivenKept
    BY <1>2, <1>3, <1>6, <1>7, <1>8, <1>9, ReceiverStep DEF ReceiverOK
  <1>11. ASSUME NEW m \in net', m \notin net
         PROVE  /\ m.type = "CAPA" /\ m.flow \in Flows /\ at_receiver[m.flow].rts_received
                /\ m.data_seq_num \in 0 .. SizeInPkt[m.flow] - 1
                /\ m.remaining \in Nat /\ Given(m.flow, m.seq_num)'
    <2>1. able # {} /\ m = CapabilityPkt(top, ready)
      BY <1>2, <1>11
    <2>2. /\ m.type = "CAPA" /\ m.flow = top /\ m.seq_num = ready.capability_count
          /\ m.data_seq_num = NextCapaSeqNum(top, ready)
          /\ m.remaining = Cardinality(Missing(top, ready))
      BY <2>1 DEF CapabilityPkt
    <2>3. Missing(top, ready) # {}
      BY <1>5, <2>1 DEF KnowsOK
    <2>4. m.data_seq_num \in 0 .. SizeInPkt[top] - 1 /\ m.remaining \in Nat
      BY <1>5, <2>1, <2>2, <2>3, NextCapaFacts, MissingFacts
    <2>5. at_receiver'[top].capability_count = ready.capability_count + 1
      BY <1>1, <1>5, <2>1, CountedFacts
    <2>6. Given(top, ready.capability_count)'
      BY <1>5, <2>1, <2>5, StateTypes DEF Given
    <2> QED
      BY <1>5, <2>1, <2>2, <2>4, <2>6
  <1> QED
    BY <1>6, <1>10, <1>11

\* The receiver has heard only of flows that have started.
LEMMA SendCapabilityStep ==
  ASSUME Inv, NEW h \in Hosts, SendCapability(h) PROVE Inv'
  <1>1. UNCHANGED <<sender, faults, lost>> /\ (HoldOn(h) \/ GiveCapability(h))
    BY DEF SendCapability
  <1>2. SenderOK /\ ReceiverOK /\ NetOK
    BY DEF Inv
  <1>3. /\ ReceiverOK' /\ ReceiversAwake' /\ GivenKept
        /\ \A f \in Flows : at_receiver'[f].rts_received => at_receiver[f].rts_received
    <2>1. CASE HoldOn(h)
      BY <2>1, HoldOnStep DEF HoldOn
    <2> QED
      BY <1>1, <2>1, GiveStep
  <1>4. SenderOK' /\ SendersAwake'
    BY <1>1, <1>3, SenderSide
  <1>5. started' = started /\ started \subseteq Flows
    BY <1>1, <1>2 DEF sender, SenderOK
  <1>6. NetOK'
    <2>1. ASSUME NEW m \in net', m \notin net PROVE PacketOK(m)'
      <3>1. GiveCapability(h)
        BY <1>1, <2>1 DEF HoldOn
      <3>2. /\ m.type = "CAPA" /\ m.flow \in Flows /\ at_receiver[m.flow].rts_received
            /\ m.data_seq_num \in 0 .. SizeInPkt[m.flow] - 1
            /\ m.remaining \in Nat /\ Given(m.flow, m.seq_num)'
        BY <2>1, <3>1, GiveStep
      <3> QED
        BY <1>2, <1>5, <3>2 DEF PacketOK, NetOK
    <2> QED
      BY <1>1, <1>2, <1>3, <1>5, <2>1, NetSide DEF NetOK
  <1> QED
    BY <1>3, <1>4, <1>6 DEF Inv

\* Every step keeps the invariant.
LEMMA InvStep == Inv /\ [Next]_vars => Inv'
  <1> SUFFICES ASSUME Inv, [Next]_vars PROVE Inv'
    OBVIOUS
  <1>1. ASSUME NEW f \in Flows,
               \/ StartFlow(f) \/ Expire(f)
               \/ Pass(f, "redundancy_ctrl_timeout") \/ Pass(f, "window_timeout")
        PROVE  Inv'
    BY <1>1, StartStep, ExpireStep, PassStep
  <1>2. ASSUME NEW h \in Hosts, Send(h) \/ SendCapability(h) PROVE Inv'
    BY <1>2, SendStep, SendCapabilityStep
  <1>3. ASSUME NEW m \in net,
               \/ ReceiveRts(m) \/ ReceiveData(m) \/ ReceiveCapability(m)
               \/ ReceiveAck(m) \/ Lose(m)
        PROVE  Inv'
    BY <1>3, RtsStep, DataStep, CapabilityStep, AckStep, LoseStep
  <1>4. CASE UNCHANGED vars
    <2>1. UNCHANGED <<sender, receiver, net, faults, lost>>
      BY <1>4 DEF vars
    <2>2. ReceiverOK' /\ ReceiversAwake' /\ GivenKept
      BY <2>1, ReceiverSide
    <2>3. SenderOK' /\ SendersAwake'
      BY <2>1, <2>2, SenderSide
    <2>4. NetOK'
      BY <2>1, <2>2, NetSideOnly DEF Inv, SenderOK, NetOK, sender
    <2> QED
      BY <2>2, <2>3, <2>4 DEF Inv
  <1> QED
    BY <1>1, <1>2, <1>3, <1>4 DEF Next

(***************************************************************************)
(* The theorems.                                                           *)
(***************************************************************************)

LEMMA InvHolds == Spec => []Inv
  BY InvInit, InvStep, PTL DEF Spec

\* The members of the flows and hosts keep their types, packets their flows: every
\* packet under way or lost is of a flow that has started.
THEOREM CapabilityTypesOK == Spec => []TypeOK
  <1>1. Inv => TypeOK
    <2> SUFFICES ASSUME Inv PROVE TypeOK
      OBVIOUS
    <2>1. SenderOK /\ ReceiverOK /\ NetOK
      BY DEF Inv
    <2>2. \A f \in Flows :
            /\ at_receiver[f].packets_received \subseteq 0 .. SizeInPkt[f] - 1
            /\ at_receiver[f].last_capa_data_seq_num_sent \in -1 .. SizeInPkt[f] - 1
            /\ at_receiver[f].capability_count \in Nat /\ at_receiver[f].capability_goal \in Nat
            /\ at_receiver[f].redundancy_ctrl_timeout \in {"none", "ahead", "past"}
            /\ at_receiver[f].window_timeout \in {"ahead", "past"}
      BY <2>1, StateTypes DEF ReceiverOK, KnowsOK
    <2>3. {m.flow : m \in net \union lost} \subseteq started
      BY <2>1 DEF NetOK, PacketOK
    <2> QED
      BY <2>1, <2>2, <2>3 DEF TypeOK, SenderOK, ReceiverOK, NetOK
  <1> QED
    BY <1>1, InvHolds, PTL

\* A receiver never gives a flow more capabilities than its goal, and has the redundancy
\* timer run, or passed, for just the flows that have had them all.
THEOREM GoalsHaveTimers == Spec => []GoalHasTimer
  <1>1. Inv => GoalHasTimer
    BY DEF Inv, ReceiverOK, KnowsOK, GoalHasTimer
  <1> QED
    BY <1>1, InvHolds, PTL

\* No receiver of a flow that lacks packets, and no sender that may use a capability, is
\* ever without a processing event.
THEOREM BothSidesAwake == Spec => []HostsAwake
  <1>1. Inv => HostsAwake
    BY DEF Inv, ReceiversAwake, SendersAwake, HostsAwake
  <1> QED
    BY <1>1, InvHolds, PTL

=============================================================================
