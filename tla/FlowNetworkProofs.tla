-------------------------- MODULE FlowNetworkProofs --------------------------
(***************************************************************************)
(* Flows and the queues between their hosts, for any packet size, windows, *)
(* sizes of flows and queues and for each class of flow.  A flow over any  *)
(* network that loses packets and reorders them: what is acknowledged has  *)
(* been received, and one timer is pending as long as something is not.    *)
(* The queues are such a network for each flow; a PFabricQueue that holds  *)
(* the acknowledgements that there may be loses none.                      *)
(***************************************************************************)
EXTENDS FlowNetwork, PacketBag, FiniteFacts

(***************************************************************************)
(* Packets and bytes.                                                      *)
(***************************************************************************)

\* Every byte is in the packet that begins at the multiple of Mss before it.
LEMMA PacketOfByte ==
  ASSUME NEW b \in Nat
  PROVE  \E s \in 0 .. b : s % Mss = 0 /\ b < s + Mss
  <1>1. Mss \in Nat /\ Mss >= 1
    BY WindowAssumption
  <1>2. PICK q, r : q = b \div Mss /\ r = b % Mss
    OBVIOUS
  <1>3. q \in Nat /\ r \in 0 .. Mss - 1 /\ b = q * Mss + r
    BY <1>1, <1>2
  <1>4. (q * Mss) % Mss = 0 /\ q * Mss \in Nat
    BY <1>1, <1>3
  <1> QED
    BY <1>1, <1>3, <1>4

\* Packets do not overlap.
LEMMA PacketsApart ==
  ASSUME NEW s \in Nat, NEW t \in Nat, s % Mss = 0, t % Mss = 0, s < t
  PROVE  s + Mss <= t
  <1>1. Mss \in Nat /\ Mss >= 1
    BY WindowAssumption
  <1>2. PICK i, j : i = s \div Mss /\ j = t \div Mss
    OBVIOUS
  <1>3. i \in Nat /\ j \in Nat /\ s = i * Mss /\ t = j * Mss
    BY <1>1, <1>2
  <1>4. i < j
    BY <1>1, <1>3
  <1>5. (i + 1) * Mss <= j * Mss
    BY <1>1, <1>3, <1>4
  <1> QED
    BY <1>1, <1>3, <1>5

\* A size rounded up to whole packets.
LEMMA RoundedUp ==
  ASSUME NEW n \in Nat
  PROVE  /\ ((n + Mss - 1) \div Mss) * Mss \in Nat
         /\ ((n + Mss - 1) \div Mss) * Mss >= n
  <1>1. Mss \in Nat /\ Mss >= 1
    BY WindowAssumption
  <1>2. PICK q, r : q = (n + Mss - 1) \div Mss /\ r = (n + Mss - 1) % Mss
    OBVIOUS
  <1>3. q \in Nat /\ r \in 0 .. Mss - 1 /\ n + Mss - 1 = q * Mss + r
    BY <1>1, <1>2
  <1>4. q * Mss \in Nat
    BY <1>1, <1>3
  <1> QED
    BY <1>1, <1>2, <1>3, <1>4

(***************************************************************************)
(* The inductive invariant.                                                *)
(***************************************************************************)
Timer == [event : BOOLEAN, live : Nat]

FlowState ==
  [class : FlowClass, size : Nat \ {0}, started : BOOLEAN, finished : BOOLEAN,
   next_seq_no : Nat, last_unacked_seq : Nat, cwnd_mss : 1 .. MaxCwnd,
   ssthresh : Nat \ {0, 1}, count_ack_additive_increase : 0 .. MaxCwnd,
   scoreboard_sack_bytes : Nat, retx : Timer, received : SUBSET Nat, received_bytes : Nat]

\* The packets before a have been received.
Got(f, a) == \A s \in Seqs(f) : s < a => s \in f.received

\* Where recv_till ends when nothing is missing.
End(f) == IF f.class = "DctcpFlow" THEN ((f.size + Mss - 1) \div Mss) * Mss ELSE f.size

AckNumbers(f) == Seqs(f) \union {f.size, End(f)}

\* What the flow holds to be received has been, and the last byte ends it.
ReceivedOK(f) ==
  /\ f.received \subseteq Seqs(f)
  /\ f.last_unacked_seq \in AckNumbers(f)
  /\ f.finished <=> f.last_unacked_seq = f.size
  /\ IF f.finished THEN f.received_bytes = f.size
     ELSE f.received_bytes = Cardinality(BytesIn(f)) /\ Got(f, f.last_unacked_seq)

\* A packet of an open flow.
OpenPacket(f, m) ==
  \/ \E s \in Seqs(f) : m = DataPkt(s)
  \/ \E a \in AckNumbers(f), n \in 0 .. Cardinality(Seqs(f)) :
       m = AckPkt(a, n) /\ (~f.finished => Got(f, a))

Pending == [event |-> TRUE, live |-> 1]
None == [event |-> FALSE, live |-> 0]

TimerOK(f) == f.retx = IF f.last_unacked_seq < f.size THEN Pending ELSE None

\* A flow f of which n is under way and packets of the types l have been lost is new ...
Starting(f, n, l) == f = New(f.class, f.size) /\ n = NoPackets /\ l = {}

\* ... or a TCPFlow waits for the answer to its RTS: one packet is under way, or lost ...
Waiting(f, n, l) ==
  /\ f.class = "TCPFlow"
  /\ f = [New(f.class, f.size) EXCEPT !.started = TRUE]
  /\ \E p \in {RtsPkt, CtsPkt} : \/ n = Single(p) /\ l = {}
                                 \/ n = NoPackets /\ l = {p.type}

\* ... or it is open.
Open(f, n, l) ==
  /\ f.started /\ TimerOK(f)
  /\ \A m \in DOMAIN n : OpenPacket(f, m)
  /\ l \subseteq {"DATA", "ACK"}

FlowInv(f, n, l) ==
  /\ f \in FlowState /\ ReceivedOK(f)
  /\ IsBag(n)
  /\ Starting(f, n, l) \/ Waiting(f, n, l) \/ Open(f, n, l)

\* A network loses some of all, what is left of them is n, and k are the types lost by then.
Carried(all, n, l, k) ==
  PartOf(n, all) /\ k = l \union {m.type : m \in Missing(n, all)}

(***************************************************************************)
(* What the handlers make of a flow.                                       *)
(***************************************************************************)

\* The types of the members.
LEMMA StateTypes ==
  ASSUME NEW f \in FlowState
  PROVE  /\ f.class \in FlowClass /\ f.size \in Nat /\ f.size >= 1
         /\ f.started \in BOOLEAN /\ f.finished \in BOOLEAN
         /\ f.next_seq_no \in Nat /\ f.last_unacked_seq \in Nat
         /\ f.cwnd_mss \in 1 .. MaxCwnd /\ f.ssthresh \in Nat \ {0, 1}
         /\ f.count_ack_additive_increase \in 0 .. MaxCwnd
         /\ f.scoreboard_sack_bytes \in Nat
         /\ f.retx \in Timer /\ f.retx.event \in BOOLEAN /\ f.retx.live \in Nat
         /\ f.received \subseteq Nat /\ f.received_bytes \in Nat
  BY DEF FlowState, Timer

\* The packets of a flow.
LEMMA SeqsFacts ==
  ASSUME NEW f \in FlowState
  PROVE  /\ Seqs(f) \subseteq 0 .. f.size - 1 /\ Seqs(f) \subseteq Nat /\ 0 \in Seqs(f)
         /\ IsFiniteSet(Seqs(f)) /\ Cardinality(Seqs(f)) \in Nat
  <1>1. f.size \in Nat /\ f.size >= 1 /\ Mss \in Nat /\ Mss >= 1
    BY StateTypes, WindowAssumption
  <1>2. Seqs(f) \subseteq 0 .. f.size - 1 /\ 0 \in Seqs(f)
    <2>1. 0 % Mss = 0
      BY <1>1
    <2> QED
      BY <1>1, <2>1 DEF Seqs
  <1>3. IsFiniteSet(0 .. f.size - 1)
    BY <1>1, FS_Interval
  <1>4. IsFiniteSet(Seqs(f))
    BY <1>2, <1>3, FS_Subset
  <1> QED
    BY <1>1, <1>2, <1>4, FS_CardinalityType

\* The numbers that acknowledgements may have.
LEMMA AckFacts ==
  ASSUME NEW f \in FlowState
  PROVE  /\ End(f) \in Nat /\ End(f) >= f.size /\ AckNumbers(f) \subseteq Nat
         /\ \A a \in AckNumbers(f) : a <= End(f) /\ (a < f.size \/ a = f.size \/ a = End(f))
  <1>1. f.size \in Nat /\ Seqs(f) \subseteq 0 .. f.size - 1
    BY StateTypes, SeqsFacts
  <1>2. End(f) \in Nat /\ End(f) >= f.size
    BY <1>1, RoundedUp DEF End
  <1> QED
    BY <1>1, <1>2 DEF AckNumbers

\* set_timeout and cancel_retx_event.
LEMMA TimerFacts ==
  ASSUME NEW f \in FlowState, NEW t \in Timer
  PROVE  /\ WithTimer(f, t) \in Timer
         /\ f.last_unacked_seq < f.size => WithTimer(f, t) = [event |-> TRUE, live |-> t.live + 1]
         /\ ~(f.last_unacked_seq < f.size) => WithTimer(f, t) = t
  BY DEF WithTimer, Timer

\* The timer's two states between handlers.
LEMMA TwoTimers ==
  /\ Pending \in Timer /\ Pending.event = TRUE /\ Pending.live = 1
  /\ None \in Timer /\ None.event = FALSE /\ None.live = 0
  BY DEF Pending, None, Timer

\* A timer with one of its members changed.
LEMMA TimerParts ==
  ASSUME NEW t \in Timer, NEW x
  PROVE  /\ [t EXCEPT !.live = x] = [event |-> t.event, live |-> x]
         /\ [t EXCEPT !.event = x] = [event |-> x, live |-> t.live]
  BY DEF Timer

\* send_pending_data changes next_seq_no and the timer, if none is set, and sends data.
LEMMA SendFacts ==
  ASSUME NEW f \in FlowState
  PROVE  \E n \in Nat, t \in Timer :
           /\ SendPendingData(f).flow = [f EXCEPT !.next_seq_no = n, !.retx = t]
           /\ f.retx.event => t = f.retx
           /\ 0 \in InWindow(f) /\ ~f.retx.event => t = WithTimer(f, f.retx)
           /\ SendPendingData(f).sent \subseteq {DataPkt(s) : s \in Seqs(f)}
  <1>1. PICK W : W = InWindow(f)
    OBVIOUS
  <1>2. W \subseteq Seqs(f)
    BY <1>1 DEF InWindow
  <1>3. PICK n, t : n = PassedTo(f, W) /\ t = SetIfNone(f, W)
    OBVIOUS
  <1>4. n \in Nat
    <2>1. f.next_seq_no \in Nat /\ f.size \in Nat /\ f.size >= 1 /\ Mss \in Nat
      BY StateTypes, WindowAssumption
    <2>2. W # {} => Max(W) \in Nat
      BY <1>2, <2>1, SeqsFacts, MaxFacts
    <2> QED
      BY <1>3, <2>1, <2>2 DEF PassedTo, MinOf
  <1>5. /\ t \in Timer /\ (f.retx.event => t = f.retx)
        /\ W # {} /\ ~f.retx.event => t = WithTimer(f, f.retx)
    BY <1>3, StateTypes, TimerFacts DEF SetIfNone
  <1>6. /\ SendPendingData(f).flow = [f EXCEPT !.next_seq_no = n, !.retx = t]
        /\ SendPendingData(f).sent = {DataPkt(s) : s \in W \ f.received}
    BY <1>1, <1>3 DEF SendPendingData, After
  <1> QED
    BY <1>1, <1>2, <1>4, <1>5, <1>6

\* A member of a flow that what it has received does not depend on may change.
LEMMA SameReceived ==
  ASSUME NEW f, NEW g, g.class = f.class, g.size = f.size, g.received = f.received,
         g.received_bytes = f.received_bytes, g.finished = f.finished,
         g.last_unacked_seq = f.last_unacked_seq, ReceivedOK(f)
  PROVE  ReceivedOK(g)
  BY DEF ReceivedOK, AckNumbers, End, Seqs, BytesIn, Got

\* The first n numbers are n.
LEMMA FirstNumbers ==
  ASSUME NEW n \in Nat
  PROVE  IsFiniteSet(0 .. n - 1) /\ Cardinality(0 .. n - 1) = n
  <1>1. 0 \in Int /\ n - 1 \in Int
    OBVIOUS
  <1>2. IsFiniteSet(0 .. n - 1)
    BY ONLY <1>1, FS_Interval
  <1>3. Cardinality(0 .. n - 1) = IF 0 > n - 1 THEN 0 ELSE (n - 1) - 0 + 1
    BY ONLY <1>1, FS_Interval
  <1> QED
    BY <1>2, <1>3

\* The bytes received can be counted.
LEMMA BytesFacts ==
  ASSUME NEW f \in FlowState
  PROVE  /\ BytesIn(f) \subseteq 0 .. f.size - 1 /\ IsFiniteSet(BytesIn(f))
         /\ Cardinality(BytesIn(f)) \in Nat
         /\ Seqs(f) \subseteq f.received => Cardinality(BytesIn(f)) = f.size
  <1>1. f.size \in Nat /\ f.size >= 1
    BY StateTypes
  <1>2. IsFiniteSet(0 .. f.size - 1) /\ Cardinality(0 .. f.size - 1) = f.size
    BY ONLY <1>1, FirstNumbers
  <1>3. BytesIn(f) \subseteq 0 .. f.size - 1
    BY DEF BytesIn
  <1>4. IsFiniteSet(BytesIn(f)) /\ Cardinality(BytesIn(f)) \in Nat
    BY <1>2, <1>3, FS_Subset, FS_CardinalityType
  <1>5. ASSUME Seqs(f) \subseteq f.received PROVE 0 .. f.size - 1 \subseteq BytesIn(f)
    <2> SUFFICES ASSUME NEW b \in 0 .. f.size - 1 PROVE b \in BytesIn(f)
      OBVIOUS
    <2>1. PICK s \in 0 .. b : s % Mss = 0 /\ b < s + Mss
      BY <1>1, PacketOfByte
    <2>2. s \in Seqs(f)
      BY <1>1, <2>1 DEF Seqs
    <2> QED
      BY <1>5, <2>1, <2>2 DEF BytesIn
  <1> QED
    BY <1>2, <1>3, <1>4, <1>5

\* A packet received for the first time brings its bytes.
LEMMA NewBytes ==
  ASSUME NEW f \in FlowState, NEW g, f.received \subseteq Seqs(f), NEW s \in Seqs(f),
         s \notin f.received, g.size = f.size, g.received = f.received \union {s}
  PROVE  Cardinality(BytesIn(g)) = Cardinality(BytesIn(f)) + PayloadOf(f, s)
  <1>1. /\ f.size \in Nat /\ f.size >= 1 /\ Mss \in Nat /\ Mss >= 1
        /\ s \in 0 .. f.size - 1 /\ s % Mss = 0
    BY StateTypes, WindowAssumption DEF Seqs
  <1>2. PICK p \in Nat : p = PayloadOf(f, s) /\ p >= 1 /\ p <= Mss /\ p <= f.size - s
                         /\ (p = Mss \/ p = f.size - s)
    BY <1>1 DEF PayloadOf, MinOf
  <1>3. PICK B : B = s .. s + p - 1
    OBVIOUS
  <1>4. IsFiniteSet(B) /\ Cardinality(B) = p
    BY <1>1, <1>2, <1>3, FS_Interval
  <1>5. BytesIn(g) = BytesIn(f) \union B
    <2>1. \A b \in 0 .. f.size - 1 : b \in B <=> s <= b /\ b < s + Mss
      BY <1>1, <1>2, <1>3
    <2>2. B \subseteq 0 .. f.size - 1
      BY <1>1, <1>2, <1>3
    <2> QED
      BY <2>1, <2>2 DEF BytesIn
  <1>6. BytesIn(f) \intersect B = {}
    <2> SUFFICES ASSUME NEW b \in BytesIn(f), b \in B PROVE FALSE
      OBVIOUS
    <2>1. PICK t \in f.received : t <= b /\ b < t + Mss
      BY DEF BytesIn
    <2>2. t \in Nat /\ t % Mss = 0 /\ t # s /\ s \in Nat /\ b \in Nat /\ s <= b /\ b < s + Mss
      BY <1>1, <1>2, <1>3 DEF Seqs
    <2>3. t < s => t + Mss <= s
      BY <1>1, <2>2, PacketsApart
    <2>4. s < t => s + Mss <= t
      BY <1>1, <2>2, PacketsApart
    <2> QED
      BY <1>1, <2>1, <2>2, <2>3, <2>4
  <1>7. IsFiniteSet(BytesIn(f)) /\ Cardinality(BytesIn(f)) \in Nat
    BY BytesFacts
  <1>8. Cardinality(BytesIn(f) \union B) = Cardinality(BytesIn(f)) + Cardinality(B)
    <2>1. Cardinality(BytesIn(f) \intersect B) = 0
      BY <1>6, FS_EmptySet
    <2>2. Cardinality(BytesIn(f) \union B) =
            Cardinality(BytesIn(f)) + Cardinality(B) - Cardinality(BytesIn(f) \intersect B)
      BY <1>4, <1>7, FS_Union
    <2> QED
      BY <1>2, <1>4, <1>7, <2>1, <2>2
  <1> QED
    BY <1>2, <1>4, <1>5, <1>8

\* A flow as it is made, and started.
LEMMA NewFacts ==
  ASSUME NEW c \in FlowClass, NEW n \in Nat \ {0}, NEW f,
         f = New(c, n) \/ f = [New(c, n) EXCEPT !.started = TRUE]
  PROVE  /\ f \in FlowState /\ ReceivedOK(f)
         /\ f.class = c /\ f.size = n /\ ~f.finished
         /\ (f.started <=> f # New(c, n))
         /\ f.next_seq_no = 0 /\ f.last_unacked_seq = 0 /\ f.received_bytes = 0
         /\ f.scoreboard_sack_bytes = 0 /\ f.retx = None
  <1>1. PICK w : w = IF c = "TCPFlow" THEN 1 ELSE InitialCwnd
    OBVIOUS
  <1>2. w \in 1 .. MaxCwnd /\ 0 \in 0 .. MaxCwnd
    BY <1>1, WindowAssumption
  <1>3. 100000 \in Nat \ {0, 1} /\ {} \in SUBSET Nat /\ 0 \in Nat /\ None \in Timer
    BY TwoTimers
  <1>4. New(c, n) =
          [class |-> c, size |-> n, started |-> FALSE, finished |-> FALSE,
           next_seq_no |-> 0, last_unacked_seq |-> 0, cwnd_mss |-> w,
           ssthresh |-> 100000, count_ack_additive_increase |-> 0,
           scoreboard_sack_bytes |-> 0, retx |-> None, received |-> {}, received_bytes |-> 0]
    BY <1>1 DEF New, None
  <1>5. PICK x : x = New(c, n)
    OBVIOUS
  <1>6. /\ x \in FlowState /\ ~x.started /\ x.class = c /\ x.size = n /\ ~x.finished
        /\ x.next_seq_no = 0 /\ x.last_unacked_seq = 0 /\ x.received_bytes = 0
        /\ x.received = {} /\ x.scoreboard_sack_bytes = 0 /\ x.retx = None
    BY <1>2, <1>3, <1>4, <1>5 DEF FlowState
  <1>7. /\ f \in FlowState /\ f.class = c /\ f.size = n /\ ~f.finished
        /\ f.next_seq_no = 0 /\ f.last_unacked_seq = 0 /\ f.received_bytes = 0
        /\ f.received = {} /\ f.scoreboard_sack_bytes = 0 /\ f.retx = None
        /\ f # x => f.started
    <2>1. CASE f = x
      BY <1>6, <2>1
    <2>2. CASE f = [x EXCEPT !.started = TRUE]
      BY <1>6, <2>2 DEF FlowState
    <2> QED
      BY <1>5, <2>1, <2>2
  <1>8. Cardinality(BytesIn(f)) = 0
    <2>1. BytesIn(f) = {}
      BY <1>7 DEF BytesIn
    <2> QED
      BY <2>1, FS_EmptySet
  <1>9. 0 \in Seqs(f) /\ Seqs(f) \subseteq Nat
    BY <1>7, SeqsFacts
  <1>10. ReceivedOK(f)
    BY <1>7, <1>8, <1>9 DEF ReceivedOK, AckNumbers, Got
  <1> QED
    BY <1>5, <1>6, <1>7, <1>10

\* A handler of an open flow leaves it open, and takes back nothing it has received.
Keeps(f, r) ==
  /\ r.flow \in FlowState /\ ReceivedOK(r.flow)
  /\ r.flow.class = f.class /\ r.flow.size = f.size /\ r.flow.started = f.started
  /\ TimerOK(r.flow)
  /\ ~r.flow.finished => ~f.finished /\ f.received \subseteq r.flow.received
  /\ \A m \in r.sent : OpenPacket(r.flow, m)

\* recv_till: what it returns may be acknowledged.
LEMMA RecvTillFacts ==
  ASSUME NEW f \in FlowState
  PROVE  RecvTill(f) \in AckNumbers(f) /\ Got(f, RecvTill(f))
  <1>1. PICK S : S = {End(f)} \union (Seqs(f) \ f.received)
    OBVIOUS
  <1>2. S \subseteq Nat /\ S # {}
    BY <1>1, AckFacts, SeqsFacts
  <1>3. RecvTill(f) = Min(S)
    BY <1>1 DEF RecvTill, End
  <1>4. RecvTill(f) \in S /\ \A s \in S : RecvTill(f) <= s
    BY <1>2, <1>3, MinFacts
  <1>5. RecvTill(f) \in AckNumbers(f)
    BY <1>1, <1>4 DEF AckNumbers
  <1>6. ASSUME NEW s \in Seqs(f), s < RecvTill(f) PROVE s \in f.received
    BY <1>1, <1>2, <1>4, <1>6
  <1> QED
    BY <1>5, <1>6 DEF Got

\* receive_data_pkt: a packet that comes again is not counted again.
LEMMA DataFacts ==
  ASSUME NEW f \in FlowState, ReceivedOK(f), TimerOK(f), NEW s \in Seqs(f)
  PROVE  Keeps(f, ReceiveData(f, s))
  <1>1. CASE f.finished
    BY <1>1 DEF ReceiveData, After, Keeps
  <1>2. CASE ~f.finished
    <2>1. PICK P, n : /\ P = f.received \union {s}
                      /\ n = f.received_bytes + IF s \in f.received THEN 0 ELSE PayloadOf(f, s)
      OBVIOUS
    <2>2. /\ f.size \in Nat /\ f.received_bytes \in Nat /\ Mss \in Nat
          /\ Seqs(f) \subseteq 0 .. f.size - 1 /\ s \in 0 .. f.size - 1
          /\ f.received \subseteq Seqs(f)
      BY StateTypes, SeqsFacts, WindowAssumption DEF ReceivedOK
    <2>3. n \in Nat /\ P \in SUBSET Nat /\ P \subseteq Seqs(f)
      BY <2>1, <2>2 DEF PayloadOf, MinOf
    <2>4. PICK g : g = [f EXCEPT !.received = P, !.received_bytes = n]
      OBVIOUS
    <2>5. /\ g \in FlowState
          /\ g.class = f.class /\ g.size = f.size /\ g.started = f.started
          /\ g.finished = f.finished /\ g.last_unacked_seq = f.last_unacked_seq
          /\ g.retx = f.retx /\ g.received = P /\ g.received_bytes = n
      BY <2>3, <2>4 DEF FlowState
    <2>6. /\ Seqs(g) = Seqs(f) /\ AckNumbers(g) = AckNumbers(f)
      BY <2>5 DEF Seqs, AckNumbers, End
    <2>7. n = Cardinality(BytesIn(g))
      <3>1. f.received_bytes = Cardinality(BytesIn(f))
        BY <1>2 DEF ReceivedOK
      <3>2. CASE s \in f.received
        <4>1. P = f.received /\ n = f.received_bytes
          BY <2>1, <2>2, <3>2
        <4> QED
          BY <2>5, <3>1, <4>1 DEF BytesIn
      <3>3. CASE s \notin f.received
        BY <2>1, <2>2, <2>5, <3>1, <3>3, NewBytes
      <3> QED
        BY <3>2, <3>3
    <2>8. ReceivedOK(g)
      <3>1. Got(g, g.last_unacked_seq)
        BY <1>2, <2>1, <2>5, <2>6 DEF ReceivedOK, Got
      <3> QED
        BY <1>2, <2>3, <2>5, <2>6, <2>7, <3>1 DEF ReceivedOK
    <2>9. TimerOK(g)
      BY <2>5 DEF TimerOK
    <2>10. PICK upto, held : upto = RecvTill(g) /\ held = {r \in g.received : r > upto}
      OBVIOUS
    <2>11. Cardinality(held) \in 0 .. Cardinality(Seqs(g))
      <3>1. held \subseteq Seqs(g) /\ IsFiniteSet(Seqs(g)) /\ Cardinality(Seqs(g)) \in Nat
        BY <2>3, <2>5, <2>6, <2>10, SeqsFacts
      <3>2. IsFiniteSet(held) /\ Cardinality(held) <= Cardinality(Seqs(g))
        BY <3>1, FS_Subset
      <3> QED
        BY <3>1, <3>2, FS_CardinalityType
    <2>12. OpenPacket(g, AckPkt(upto, Cardinality(held)))
      BY <2>5, <2>10, <2>11, RecvTillFacts DEF OpenPacket
    <2>13. ReceiveData(f, s) = After(g, {AckPkt(upto, Cardinality(held))})
      BY <1>2, <2>1, <2>4, <2>10 DEF ReceiveData
    <2> QED
      BY <1>2, <2>1, <2>5, <2>8, <2>9, <2>12, <2>13 DEF After, Keeps
  <1> QED
    BY <1>1, <1>2

\* increase_cwnd keeps the window within its bounds and leaves the rest alone.
LEMMA IncreasedFacts ==
  ASSUME NEW f \in FlowState, NEW g \in Increased(f)
  PROVE  \E c \in 1 .. MaxCwnd, k \in 0 .. MaxCwnd :
           g = [f EXCEPT !.cwnd_mss = c, !.count_ack_additive_increase = k]
  <1>1. /\ f.cwnd_mss \in 1 .. MaxCwnd /\ f.count_ack_additive_increase \in 0 .. MaxCwnd
        /\ MaxCwnd \in Nat /\ MaxCwnd >= 1 /\ f.class \in FlowClass
    BY StateTypes, WindowAssumption
  <1>2. PICK w, k : w = f.cwnd_mss /\ k = f.count_ack_additive_increase
    OBVIOUS
  <1>3. CASE g = Capped([f EXCEPT !.cwnd_mss = @ + 1])
    <2>1. PICK c : c = MinOf(w + 1, MaxCwnd)
      OBVIOUS
    <2>2. c \in 1 .. MaxCwnd
      BY <1>1, <1>2, <2>1 DEF MinOf
    <2>3. g = [f EXCEPT !.cwnd_mss = c, !.count_ack_additive_increase = k]
      BY <1>2, <1>3, <2>1 DEF Capped, FlowState
    <2> QED
      BY <1>1, <1>2, <2>2, <2>3
  <1>4. CASE g = Capped(AdditiveIncrease(f))
    <2>1. CASE k + 1 >= w
      <3>1. PICK c : c = MinOf(w + 1, MaxCwnd)
        OBVIOUS
      <3>2. c \in 1 .. MaxCwnd /\ 0 \in 0 .. MaxCwnd
        BY <1>1, <1>2, <3>1 DEF MinOf
      <3>3. g = [f EXCEPT !.cwnd_mss = c, !.count_ack_additive_increase = 0]
        BY <1>2, <1>4, <2>1, <3>1 DEF Capped, AdditiveIncrease, FlowState
      <3> QED
        BY <3>2, <3>3
    <2>2. CASE ~(k + 1 >= w)
      <3>1. w = MinOf(w, MaxCwnd) /\ k + 1 \in 0 .. MaxCwnd
        BY <1>1, <1>2, <2>2 DEF MinOf
      <3>2. g = [f EXCEPT !.cwnd_mss = w, !.count_ack_additive_increase = k + 1]
        BY <1>2, <1>4, <2>2, <3>1 DEF Capped, AdditiveIncrease, FlowState
      <3> QED
        BY <1>1, <1>2, <3>1, <3>2
    <2> QED
      BY <2>1, <2>2
  <1>5. CASE \E c \in 1 .. f.cwnd_mss : g = [f EXCEPT !.cwnd_mss = c]
    <2>1. PICK c \in 1 .. f.cwnd_mss : g = [f EXCEPT !.cwnd_mss = c]
      BY <1>5
    <2>2. g = [f EXCEPT !.cwnd_mss = c, !.count_ack_additive_increase = k]
      BY <1>2, <2>1 DEF FlowState
    <2>3. c \in 1 .. MaxCwnd /\ k \in 0 .. MaxCwnd
      BY <1>1, <1>2, <2>1
    <2> QED
      BY <2>2, <2>3
  <1>6. g = Capped([f EXCEPT !.cwnd_mss = @ + 1]) \/ g = Capped(AdditiveIncrease(f))
        \/ \E c \in 1 .. f.cwnd_mss : g = [f EXCEPT !.cwnd_mss = c]
    <2>1. CASE f.class \in {"Flow", "TCPFlow"}
      BY <2>1 DEF Increased
    <2>2. CASE f.class = "PFabricFlow"
      <3>1. f.cwnd_mss < f.ssthresh \/ f.cwnd_mss >= f.ssthresh
        BY <1>1, StateTypes
      <3> QED
        BY <2>2, <3>1 DEF Increased
    <2>3. CASE f.class = "DctcpFlow"
      BY <2>3 DEF Increased
    <2> QED
      BY <1>1, <2>1, <2>2, <2>3 DEF FlowClass
  <1> QED
    BY <1>3, <1>4, <1>5, <1>6

\* A new acknowledgement, taken in: data is sent, the timer moved or cancelled, and the
\* flow finished if it is of the last byte.
LEMMA NewAckFacts ==
  ASSUME NEW f \in FlowState, f.retx = Pending, ~f.finished,
         f.received \subseteq Seqs(f), f.received_bytes = Cardinality(BytesIn(f)),
         f.last_unacked_seq \in AckNumbers(f), Got(f, f.last_unacked_seq)
  PROVE  Keeps(f, NewAck(f))
  <1>1. PICK n \in Nat, t \in Timer :
           /\ SendPendingData(f).flow = [f EXCEPT !.next_seq_no = n, !.retx = t]
           /\ f.retx.event => t = f.retx
           /\ 0 \in InWindow(f) /\ ~f.retx.event => t = WithTimer(f, f.retx)
           /\ SendPendingData(f).sent \subseteq {DataPkt(s) : s \in Seqs(f)}
    BY SendFacts
  <1>2. PICK h : h = SendPendingData(f).flow
    OBVIOUS
  <1>3. /\ h \in FlowState /\ h.retx = Pending /\ h.size = f.size
        /\ h.last_unacked_seq = f.last_unacked_seq
    <2>1. t = Pending
      BY <1>1, TwoTimers
    <2> QED
      BY <1>1, <1>2, <2>1 DEF FlowState
  <1>4. PICK u : u = TimerMoved(h)
    OBVIOUS
  <1>5. CancelRetx(h.retx) = None /\ u = WithTimer(h, None)
    <2>1. CancelRetx(h.retx) = [event |-> FALSE, live |-> 1 - 1]
      BY <1>3, TwoTimers DEF CancelRetx
    <2>2. CancelRetx(h.retx) = None
      BY <2>1 DEF None
    <2> QED
      BY <1>3, <1>4, <2>2, TwoTimers DEF TimerMoved
  <1>6. /\ u \in Timer
        /\ f.last_unacked_seq < f.size => u = Pending
        /\ ~(f.last_unacked_seq < f.size) => u = None
    <2>1. [event |-> TRUE, live |-> None.live + 1] = Pending
      BY TwoTimers DEF Pending
    <2> QED
      BY <1>3, <1>5, <2>1, TimerFacts, TwoTimers
  <1>7. PICK done \in BOOLEAN : done <=> f.last_unacked_seq = f.size
    OBVIOUS
  <1>8. PICK P : P = IF done THEN {} ELSE f.received
    OBVIOUS
  <1>9. PICK g : g = [[h EXCEPT !.retx = u] EXCEPT !.finished = done, !.received = P]
    OBVIOUS
  <1>10. NewAck(f).flow = g /\ NewAck(f).sent = SendPendingData(f).sent
    <2>1. h.received = f.received
      BY <1>1, <1>2 DEF FlowState
    <2>2. done = (f.last_unacked_seq = f.size)
      BY <1>7
    <2> QED
      BY <1>2, <1>3, <1>4, <1>8, <1>9, <2>1, <2>2 DEF NewAck, After, FlowState
  <1>11. /\ g \in FlowState
         /\ g.class = f.class /\ g.size = f.size /\ g.started = f.started
         /\ g.last_unacked_seq = f.last_unacked_seq /\ g.received_bytes = f.received_bytes
         /\ g.retx = u /\ g.finished = done /\ g.received = P
    <2>1. P \in SUBSET Nat
      BY <1>8, StateTypes
    <2> QED
      BY <1>1, <1>2, <1>6, <1>9, <2>1 DEF FlowState
  <1>12. Seqs(g) = Seqs(f) /\ AckNumbers(g) = AckNumbers(f)
    BY <1>11 DEF Seqs, AckNumbers, End
  <1>13. ReceivedOK(g)
    <2>1. CASE done
      <3>1. Seqs(f) \subseteq f.received
        BY <1>7, <2>1, SeqsFacts, StateTypes DEF Got
      <3>2. f.received_bytes = f.size
        BY <3>1, BytesFacts
      <3> QED
        BY <1>7, <1>8, <1>11, <1>12, <2>1, <3>2 DEF ReceivedOK
    <2>2. CASE ~done
      BY <1>7, <1>8, <1>11, <1>12, <2>2 DEF ReceivedOK, Got, BytesIn
    <2> QED
      BY <2>1, <2>2
  <1>14. TimerOK(g)
    BY <1>6, <1>11 DEF TimerOK
  <1>15. \A m \in NewAck(f).sent : OpenPacket(g, m)
    BY <1>1, <1>10, <1>12 DEF OpenPacket
  <1>16. ~g.finished => f.received \subseteq g.received
    BY <1>8, <1>11
  <1> QED
    BY <1>10, <1>11, <1>13, <1>14, <1>15, <1>16 DEF Keeps

\* receive_ack
LEMMA AckHandled ==
  ASSUME NEW f \in FlowState, ReceivedOK(f), TimerOK(f), NEW a, NEW n,
         OpenPacket(f, AckPkt(a, n)), NEW r \in ReceiveAck(f, AckPkt(a, n))
  PROVE  Keeps(f, r)
  <1>0. PICK m : m = AckPkt(a, n)
    OBVIOUS
  <1>1. /\ m.ack = a /\ m.sack = n
        /\ a \in AckNumbers(f) /\ n \in 0 .. Cardinality(Seqs(f)) /\ (~f.finished => Got(f, a))
    BY <1>0 DEF OpenPacket, AckPkt, DataPkt
  <1>2. CASE f.finished
    BY <1>2 DEF ReceiveAck, After, Keeps
  <1>3. CASE ~f.finished
    <2>1. PICK b, q, u : /\ b = n * Mss /\ q = MaxOf(f.next_seq_no, a)
                         /\ u = MaxOf(f.last_unacked_seq, a)
      OBVIOUS
    <2>2. /\ f.next_seq_no \in Nat /\ f.last_unacked_seq \in Nat /\ f.size \in Nat
          /\ a \in Nat /\ n \in Nat /\ Mss \in Nat
          /\ f.last_unacked_seq \in AckNumbers(f)
      BY <1>1, StateTypes, SeqsFacts, AckFacts, WindowAssumption DEF ReceivedOK
    <2>3. b \in Nat /\ q \in Nat /\ u \in Nat
      BY <2>1, <2>2 DEF MaxOf
    <2>4. PICK h : h = [f EXCEPT !.scoreboard_sack_bytes = b, !.next_seq_no = q,
                                 !.last_unacked_seq = u]
      OBVIOUS
    <2>5. Acked(f, m) = h
      BY <1>1, <2>1, <2>4 DEF Acked
    <2>6. /\ h \in FlowState /\ h.last_unacked_seq = u
          /\ h.class = f.class /\ h.size = f.size /\ h.started = f.started
          /\ h.finished = f.finished /\ h.retx = f.retx
          /\ h.received = f.received /\ h.received_bytes = f.received_bytes
      BY <2>3, <2>4 DEF FlowState
    <2>7. CASE a <= f.last_unacked_seq
      <3>1. u = f.last_unacked_seq
        BY <2>1, <2>2, <2>7 DEF MaxOf
      <3>2. r = After(h, {})
        BY <1>0, <1>1, <1>3, <2>5, <2>7 DEF ReceiveAck
      <3>3. ReceivedOK(h)
        BY <2>6, <3>1, SameReceived
      <3> QED
        BY <1>3, <2>6, <3>1, <3>2, <3>3 DEF After, Keeps, TimerOK
    <2>8. CASE ~(a <= f.last_unacked_seq)
      <3>1. u = a
        BY <2>1, <2>2, <2>8 DEF MaxOf
      <3>2. PICK g \in Increased(h) : r = NewAck(g)
        BY <1>0, <1>1, <1>3, <2>5, <2>8 DEF ReceiveAck
      <3>3. PICK c \in 1 .. MaxCwnd, k \in 0 .. MaxCwnd :
              g = [h EXCEPT !.cwnd_mss = c, !.count_ack_additive_increase = k]
        BY <2>6, <3>2, IncreasedFacts
      <3>4. /\ g \in FlowState /\ g.last_unacked_seq = a
            /\ g.class = f.class /\ g.size = f.size /\ g.started = f.started
            /\ g.finished = f.finished /\ g.retx = f.retx
            /\ g.received = f.received /\ g.received_bytes = f.received_bytes
        BY <2>6, <3>1, <3>3 DEF FlowState
      <3>5. f.last_unacked_seq < f.size
        <4>1. f.last_unacked_seq # f.size
          BY <1>3 DEF ReceivedOK
        <4>2. a <= End(f) /\ End(f) \in Nat
          BY <1>1, AckFacts
        <4> QED
          BY <2>2, <2>8, <4>1, <4>2, AckFacts
      <3>6. g.retx = Pending
        BY <3>4, <3>5 DEF TimerOK
      <3>7. Seqs(g) = Seqs(f) /\ AckNumbers(g) = AckNumbers(f) /\ BytesIn(g) = BytesIn(f)
        BY <3>4 DEF Seqs, AckNumbers, End, BytesIn
      <3>8. /\ g.received \subseteq Seqs(g) /\ g.received_bytes = Cardinality(BytesIn(g))
            /\ g.last_unacked_seq \in AckNumbers(g) /\ Got(g, g.last_unacked_seq)
        BY <1>1, <1>3, <3>4, <3>7 DEF ReceivedOK, Got
      <3>9. Keeps(g, NewAck(g))
        BY <1>3, <3>4, <3>6, <3>8, NewAckFacts
      <3> QED
        BY <3>2, <3>4, <3>9 DEF Keeps
    <2> QED
      BY <2>7, <2>8
  <1> QED
    BY <1>2, <1>3

\* The flow when its timer has fired, before it sends.
LEMMA FiredIs ==
  ASSUME NEW f \in FlowState, TimerOK(f), f.retx.live > 0, NEW w,
         w = [GoBack(HalfWindow(f)) EXCEPT !.cwnd_mss = 1, !.retx.live = @ - 1]
  PROVE  /\ w \in FlowState /\ f.last_unacked_seq < f.size
         /\ w.class = f.class /\ w.size = f.size /\ w.started = f.started
         /\ w.finished = f.finished /\ w.last_unacked_seq = f.last_unacked_seq
         /\ w.received = f.received /\ w.received_bytes = f.received_bytes
         /\ w.scoreboard_sack_bytes = f.scoreboard_sack_bytes
         /\ w.retx = [event |-> TRUE, live |-> 0]
  <1>1. f.last_unacked_seq < f.size /\ f.retx = Pending
    BY TwoTimers DEF TimerOK
  <1>2. PICK h \in Nat \ {0, 1} :
          HalfWindow(f) = [f EXCEPT !.ssthresh = h]
    <2>1. f.cwnd_mss \in Nat /\ f.ssthresh \in Nat \ {0, 1}
      BY StateTypes, WindowAssumption
    <2>2. MaxOf(2, f.cwnd_mss \div 2) \in Nat \ {0, 1}
      BY <2>1 DEF MaxOf
    <2>3. f = [f EXCEPT !.ssthresh = f.ssthresh]
      BY DEF FlowState
    <2> QED
      BY <2>1, <2>2, <2>3 DEF HalfWindow
  <1>3. PICK e : e = [event |-> TRUE, live |-> 0]
    OBVIOUS
  <1>4. e \in Timer /\ e.event = TRUE /\ e.live = 0
    BY <1>3 DEF Timer
  <1>5. w = [f EXCEPT !.ssthresh = h, !.next_seq_no = f.last_unacked_seq,
                      !.cwnd_mss = 1, !.retx = e]
    <2>1. PICK x : x = HalfWindow(f)
      OBVIOUS
    <2>2. x.last_unacked_seq = f.last_unacked_seq /\ x.retx = Pending /\ x \in FlowState
      BY <1>1, <1>2, <2>1 DEF FlowState
    <2>3. [Pending EXCEPT !.live = @ - 1] = e
      <3>1. [Pending EXCEPT !.live = @ - 1] = [event |-> Pending.event, live |-> Pending.live - 1]
        BY TwoTimers, TimerParts
      <3>2. Pending.live - 1 = 0 /\ Pending.event = TRUE
        BY TwoTimers
      <3> QED
        BY <1>3, <3>1, <3>2
    <2>4. w = [x EXCEPT !.next_seq_no = x.last_unacked_seq, !.cwnd_mss = 1,
                        !.retx = [Pending EXCEPT !.live = @ - 1]]
      BY <2>1, <2>2 DEF GoBack, FlowState
    <2> QED
      BY <1>2, <2>1, <2>2, <2>3, <2>4 DEF FlowState
  <1> QED
    <2>1. PICK n : n = f.last_unacked_seq
      OBVIOUS
    <2>2. n \in Nat /\ 1 \in 1 .. MaxCwnd
      BY <2>1, StateTypes, WindowAssumption
    <2>3. w = [f EXCEPT !.ssthresh = h, !.next_seq_no = n, !.cwnd_mss = 1, !.retx = e]
      BY <1>5, <2>1
    <2>4. w \in FlowState
      BY <1>4, <2>2, <2>3 DEF FlowState
    <2>5. /\ w.class = f.class /\ w.size = f.size /\ w.started = f.started
          /\ w.finished = f.finished /\ w.last_unacked_seq = f.last_unacked_seq
          /\ w.received = f.received /\ w.received_bytes = f.received_bytes
          /\ w.scoreboard_sack_bytes = f.scoreboard_sack_bytes /\ w.retx = e
      BY <2>3 DEF FlowState
    <2> QED
      BY <1>1, <1>3, <2>4, <2>5

\* handle_timeout: the timer that fired is followed by another.
LEMMA TimeoutFacts ==
  ASSUME NEW f \in FlowState, ReceivedOK(f), TimerOK(f), f.retx.live > 0
  PROVE  Keeps(f, HandleTimeout(f))
  <1>1. PICK e : e = [event |-> TRUE, live |-> 0]
    OBVIOUS
  <1>2. e \in Timer /\ e.event = TRUE /\ e.live = 0
    BY <1>1 DEF Timer
  <1>3. PICK w : w = [GoBack(HalfWindow(f)) EXCEPT !.cwnd_mss = 1, !.retx.live = @ - 1]
    OBVIOUS
  <1>4. /\ w \in FlowState /\ f.last_unacked_seq < f.size
        /\ w.class = f.class /\ w.size = f.size /\ w.started = f.started
        /\ w.finished = f.finished /\ w.last_unacked_seq = f.last_unacked_seq
        /\ w.received = f.received /\ w.received_bytes = f.received_bytes
        /\ w.retx = e
    BY <1>1, <1>3, FiredIs
  <1>5. PICK n \in Nat, t \in Timer :
           /\ SendPendingData(w).flow = [w EXCEPT !.next_seq_no = n, !.retx = t]
           /\ w.retx.event => t = w.retx
           /\ 0 \in InWindow(w) /\ ~w.retx.event => t = WithTimer(w, w.retx)
           /\ SendPendingData(w).sent \subseteq {DataPkt(s) : s \in Seqs(w)}
    BY <1>4, SendFacts
  <1>6. PICK y : y = SendPendingData(w).flow
    OBVIOUS
  <1>7. /\ y \in FlowState
         /\ y.class = f.class /\ y.size = f.size /\ y.started = f.started
         /\ y.finished = f.finished /\ y.last_unacked_seq = f.last_unacked_seq
         /\ y.received = f.received /\ y.received_bytes = f.received_bytes
         /\ y.retx = e
    <2>1. t = e
      BY <1>2, <1>4, <1>5
    <2> QED
      BY <1>4, <1>5, <1>6, <2>1 DEF FlowState
  <1>8. WithTimer(y, [y.retx EXCEPT !.event = FALSE]) = Pending
    <2>1. [y.retx EXCEPT !.event = FALSE] = None
      BY <1>2, <1>7, TimerParts DEF None
    <2>2. [event |-> TRUE, live |-> None.live + 1] = Pending
      BY TwoTimers DEF Pending
    <2> QED
      BY <1>4, <1>7, <2>1, <2>2, TimerFacts, TwoTimers
  <1>9. PICK g : g = [y EXCEPT !.retx = Pending]
    OBVIOUS
  <1>10. HandleTimeout(f).flow = g /\ HandleTimeout(f).sent = SendPendingData(w).sent
    BY <1>3, <1>6, <1>8, <1>9 DEF HandleTimeout, After
  <1>11. /\ g \in FlowState
         /\ g.class = f.class /\ g.size = f.size /\ g.started = f.started
         /\ g.finished = f.finished /\ g.last_unacked_seq = f.last_unacked_seq
         /\ g.received = f.received /\ g.received_bytes = f.received_bytes
         /\ g.retx = Pending
    BY <1>7, <1>9, TwoTimers DEF FlowState
  <1>12. ReceivedOK(g)
    BY <1>11, SameReceived
  <1>13. \A m \in SendPendingData(w).sent : OpenPacket(g, m)
    <2>1. Seqs(g) = Seqs(w)
      BY <1>4, <1>11 DEF Seqs
    <2> QED
      BY <1>5, <2>1 DEF OpenPacket
  <1>14. TimerOK(g)
    BY <1>4, <1>11 DEF TimerOK
  <1> QED
    BY <1>10, <1>11, <1>12, <1>13, <1>14 DEF Keeps

\* The first data that a flow sends sets its timer.
LEMMA FirstSend ==
  ASSUME NEW f \in FlowState, ReceivedOK(f), ~f.finished,
         f.next_seq_no = 0, f.last_unacked_seq = 0, f.received_bytes = 0,
         f.scoreboard_sack_bytes = 0, f.retx = None
  PROVE  Keeps(f, SendPendingData(f))
  <1>1. f.size \in Nat /\ f.size >= 1
    BY StateTypes
  <1>2. 0 \in InWindow(f)
    <2>1. f.cwnd_mss \in Nat /\ f.cwnd_mss >= 1 /\ Mss \in Nat
      BY <1>1, StateTypes, WindowAssumption
    <2>2. Mss <= f.cwnd_mss * Mss
      BY <2>1
    <2>3. 0 + Mss <= f.last_unacked_seq + Window(f)
      BY <1>1, <2>1, <2>2 DEF Window
    <2>4. 0 \in Seqs(f)
      BY <1>1, SeqsFacts
    <2> QED
      BY <1>1, <2>1, <2>3, <2>4 DEF InWindow
  <1>3. PICK k \in Nat, t \in Timer :
           /\ SendPendingData(f).flow = [f EXCEPT !.next_seq_no = k, !.retx = t]
           /\ f.retx.event => t = f.retx
           /\ 0 \in InWindow(f) /\ ~f.retx.event => t = WithTimer(f, f.retx)
           /\ SendPendingData(f).sent \subseteq {DataPkt(s) : s \in Seqs(f)}
    BY <1>1, SendFacts
  <1>4. t = Pending
    <2>1. [event |-> TRUE, live |-> None.live + 1] = Pending
      BY TwoTimers DEF Pending
    <2>2. f.last_unacked_seq < f.size
      BY <1>1
    <2> QED
      BY <1>1, <1>2, <1>3, <2>1, <2>2, TimerFacts, TwoTimers
  <1>5. PICK g : g = SendPendingData(f).flow
    OBVIOUS
  <1>6. /\ g \in FlowState
        /\ g.class = f.class /\ g.size = f.size /\ g.started = f.started
        /\ g.finished = f.finished /\ g.last_unacked_seq = f.last_unacked_seq
        /\ g.received = f.received /\ g.received_bytes = f.received_bytes
        /\ g.retx = Pending
    BY <1>1, <1>3, <1>4, <1>5 DEF FlowState
  <1>7. ReceivedOK(g)
    BY <1>1, <1>6, SameReceived
  <1>8. TimerOK(g)
    BY <1>1, <1>6 DEF TimerOK
  <1>9. \A m \in SendPendingData(f).sent : OpenPacket(g, m)
    <2>1. Seqs(g) = Seqs(f)
      BY <1>6 DEF Seqs
    <2> QED
      BY <1>3, <2>1 DEF OpenPacket
  <1> QED
    BY <1>1, <1>5, <1>6, <1>7, <1>8, <1>9 DEF Keeps

(***************************************************************************)
(* The network.                                                            *)
(***************************************************************************)

\* The bags that a step makes of the packets under way.
LEMMA BagFacts ==
  ASSUME NEW B, IsBag(B), NEW S, NEW m
  PROVE  /\ IsBag(With(B, S)) /\ DOMAIN With(B, S) = DOMAIN B \union S
         /\ IsBag(Less(B, m)) /\ DOMAIN Less(B, m) \subseteq DOMAIN B
  BY DEF IsBag, With, Less, Copies

\* One packet alone.
LEMMA OnePacket ==
  ASSUME NEW p
  PROVE  /\ IsBag(Single(p)) /\ DOMAIN Single(p) = {p}
         /\ IsBag(NoPackets) /\ DOMAIN NoPackets = {}
         /\ Less(Single(p), p) = NoPackets
         /\ With(NoPackets, {p}) = Single(p)
  BY DEF IsBag, NoPackets, Single, Less, With, Copies

\* A bag without packets.
LEMMA EmptyIsNoPackets ==
  ASSUME NEW B, IsBag(B), DOMAIN B = {} PROVE B = NoPackets
  BY DEF IsBag, NoPackets

\* What is under way after a step was, or was sent; so is what has been lost.
LEMMA CarryFacts ==
  ASSUME NEW all, IsBag(all), NEW n, NEW l, NEW k, Carried(all, n, l, k)
  PROVE  /\ IsBag(n) /\ DOMAIN n \subseteq DOMAIN all
         /\ k \subseteq l \union {m.type : m \in DOMAIN all}
  BY DEF Carried, PartOf, Missing, Copies, IsBag

\* A packet alone, and not lost yet, is under way or lost.
LEMMA CarryOne ==
  ASSUME NEW p, NEW n, NEW k, Carried(Single(p), n, {}, k)
  PROVE  \/ n = Single(p) /\ k = {}
         \/ n = NoPackets /\ k = {p.type}
  <1>1. /\ IsBag(n) /\ DOMAIN n \subseteq {p}
        /\ \A e \in DOMAIN n : n[e] <= 1
        /\ k = {m.type : m \in Missing(n, Single(p))}
    BY DEF Carried, PartOf, Single, Copies, IsBag
  <1>2. CASE DOMAIN n = {p}
    <2>1. n[p] = 1 /\ n = [e \in {p} |-> n[e]]
      BY <1>1, <1>2 DEF IsBag
    <2>2. n = Single(p)
      BY <2>1 DEF Single
    <2>3. Missing(n, Single(p)) = {}
      BY <2>2 DEF Missing, Copies, Single
    <2> QED
      BY <1>1, <2>2, <2>3
  <1>3. CASE DOMAIN n = {}
    <2>1. n = NoPackets
      BY <1>1, <1>3, EmptyIsNoPackets
    <2>2. Missing(n, Single(p)) = {p}
      BY <1>3 DEF Single, Missing, Copies
    <2> QED
      BY <1>1, <2>1, <2>2
  <1> QED
    BY <1>1, <1>2, <1>3

\* Nothing comes of nothing.
LEMMA CarryNone ==
  ASSUME NEW n, NEW l, NEW k, Carried(NoPackets, n, l, k) PROVE n = NoPackets /\ k = l
  <1>1. IsBag(n) /\ DOMAIN n = {}
    BY CarryFacts, OnePacket
  <1>2. Missing(n, NoPackets) = {}
    BY OnePacket DEF Missing
  <1> QED
    BY <1>1, <1>2, EmptyIsNoPackets DEF Carried

(***************************************************************************)
(* Every step of a flow and its network keeps the invariant.               *)
(***************************************************************************)

\* A flow is made of a class and a size, and has no packet yet.
LEMMA NewFits ==
  ASSUME NEW c \in FlowClass, NEW s \in Nat \ {0}
  PROVE  FlowInv(New(c, s), NoPackets, {})
  <1>1. PICK f : f = New(c, s)
    OBVIOUS
  <1>2. f \in FlowState /\ ReceivedOK(f) /\ f.class = c /\ f.size = s
    BY <1>1, NewFacts
  <1> QED
    BY <1>1, <1>2, OnePacket DEF FlowInv, Starting

\* What holds of a packet holds when the flow has received more.
LEMMA StillOpen ==
  ASSUME NEW f, NEW g, g.class = f.class, g.size = f.size,
         ~g.finished => ~f.finished /\ f.received \subseteq g.received,
         NEW m, OpenPacket(f, m)
  PROVE  OpenPacket(g, m)
  <1>1. Seqs(g) = Seqs(f) /\ AckNumbers(g) = AckNumbers(f)
    BY DEF Seqs, AckNumbers, End
  <1>2. \A a : ~g.finished /\ Got(f, a) => Got(g, a)
    BY <1>1 DEF Got
  <1>3. CASE \E s \in Seqs(f) : m = DataPkt(s)
    BY <1>1, <1>3 DEF OpenPacket
  <1>4. CASE \E a \in AckNumbers(f), n \in 0 .. Cardinality(Seqs(f)) :
               m = AckPkt(a, n) /\ (~f.finished => Got(f, a))
    <2>1. PICK a \in AckNumbers(f), n \in 0 .. Cardinality(Seqs(f)) :
            m = AckPkt(a, n) /\ (~f.finished => Got(f, a))
      BY <1>4
    <2>2. ~g.finished => Got(g, a)
      BY <1>2, <2>1
    <2> QED
      BY <1>1, <2>1, <2>2 DEF OpenPacket
  <1> QED
    BY <1>3, <1>4 DEF OpenPacket

\* An open flow e, or one that opens, stays open.
LEMMA OpenStep ==
  ASSUME NEW e \in FlowState, NEW f, f.class = e.class, f.size = e.size,
         f.finished = e.finished, f.received = e.received, f.started = TRUE,
         NEW r, Keeps(f, r), NEW rest, IsBag(rest),
         \A m \in DOMAIN rest : OpenPacket(e, m),
         NEW l, l \subseteq {"DATA", "ACK"}, NEW n, NEW k, Carried(With(rest, r.sent), n, l, k)
  PROVE  FlowInv(r.flow, n, k)
  <1>1. PICK g, all : g = r.flow /\ all = With(rest, r.sent)
    OBVIOUS
  <1>2. /\ g \in FlowState /\ ReceivedOK(g) /\ g.started = TRUE /\ TimerOK(g)
        /\ g.class = e.class /\ g.size = e.size
        /\ ~g.finished => ~e.finished /\ e.received \subseteq g.received
        /\ \A m \in r.sent : OpenPacket(g, m)
    BY <1>1 DEF Keeps
  <1>3. IsBag(all) /\ DOMAIN all = DOMAIN rest \union r.sent
    BY <1>1, BagFacts
  <1>4. \A m \in DOMAIN all : OpenPacket(g, m)
    BY <1>2, <1>3, StillOpen
  <1>5. \A m \in DOMAIN all : m.type \in {"DATA", "ACK"}
    BY <1>4 DEF OpenPacket, DataPkt, AckPkt
  <1>6. /\ IsBag(n) /\ DOMAIN n \subseteq DOMAIN all
        /\ k \subseteq l \union {m.type : m \in DOMAIN all}
    BY <1>1, <1>3, CarryFacts
  <1>7. Open(g, n, k)
    <2>1. \A m \in DOMAIN n : OpenPacket(g, m)
      BY <1>4, <1>6
    <2>2. k \subseteq {"DATA", "ACK"}
      BY <1>5, <1>6
    <2> QED
      BY <1>2, <2>1, <2>2 DEF Open
  <1> QED
    BY <1>1, <1>2, <1>6, <1>7 DEF FlowInv

\* A flow that has been made waits for nothing.
LEMMA StartingFacts ==
  ASSUME NEW f, NEW n, NEW l, FlowInv(f, n, l), Starting(f, n, l)
  PROVE  /\ ~f.started /\ f.retx.live = 0 /\ ~f.finished /\ DOMAIN n = {}
         /\ f.class \in FlowClass /\ f.size \in Nat \ {0}
  <1>1. f.class \in FlowClass /\ f.size \in Nat \ {0}
    BY DEF FlowInv, FlowState
  <1>2. ~f.finished /\ f.retx = None
    BY <1>1, NewFacts DEF Starting
  <1>3. ~New(f.class, f.size).started
    BY DEF New
  <1> QED
    BY <1>1, <1>2, <1>3, OnePacket, TwoTimers DEF Starting

\* A TCPFlow that waits has no timer, and no data under way.
LEMMA WaitingFacts ==
  ASSUME NEW f, NEW n, NEW l, FlowInv(f, n, l), Waiting(f, n, l)
  PROVE  /\ f.started = TRUE /\ f.retx.live = 0 /\ ~f.finished
         /\ f.next_seq_no = 0 /\ f.last_unacked_seq = 0 /\ f.received_bytes = 0
         /\ f.scoreboard_sack_bytes = 0 /\ f.retx = None
         /\ \A m \in DOMAIN n : (m = RtsPkt \/ m = CtsPkt) /\ n = Single(m) /\ l = {}
  <1>1. f.class \in FlowClass /\ f.size \in Nat \ {0}
    BY DEF FlowInv, FlowState
  <1>2. /\ ~f.finished /\ f.retx = None /\ f.next_seq_no = 0
        /\ f.last_unacked_seq = 0 /\ f.received_bytes = 0
        /\ f.scoreboard_sack_bytes = 0
    BY <1>1, NewFacts DEF Waiting
  <1>3. f.started = TRUE
    BY DEF Waiting, New
  <1>4. ASSUME NEW m \in DOMAIN n
        PROVE  (m = RtsPkt \/ m = CtsPkt) /\ n = Single(m) /\ l = {}
    <2>1. PICK p \in {RtsPkt, CtsPkt} : \/ n = Single(p) /\ l = {}
                                        \/ n = NoPackets /\ l = {p.type}
      BY DEF Waiting
    <2>2. DOMAIN NoPackets = {} /\ DOMAIN Single(p) = {p}
      BY OnePacket
    <2>3. CASE n = NoPackets
      BY ONLY <1>4, <2>2, <2>3
    <2>4. CASE n = Single(p) /\ l = {}
      <3>1. m = p
        BY ONLY <1>4, <2>2, <2>4
      <3> QED
        BY ONLY <2>4, <3>1, p \in {RtsPkt, CtsPkt}
    <2> QED
      BY ONLY <2>1, <2>3, <2>4
  <1> QED
    BY <1>2, <1>3, <1>4, TwoTimers

\* start_flow
LEMMA StartStep ==
  ASSUME NEW e, NEW b, NEW l, FlowInv(e, b, l), ~e.started,
         NEW n, NEW k, Carried(With(b, Start(e).sent), n, l, k)
  PROVE  FlowInv(Start(e).flow, n, k)
  <1>1. Starting(e, b, l)
    BY WaitingFacts DEF FlowInv, Open
  <1>2. PICK f : f = [e EXCEPT !.started = TRUE]
    OBVIOUS
  <1>3. e \in FlowState /\ e.class \in FlowClass /\ e.size \in Nat \ {0}
    BY <1>1, StartingFacts DEF FlowInv
  <1>4. f = [New(e.class, e.size) EXCEPT !.started = TRUE]
    BY <1>1, <1>2 DEF Starting
  <1>5. /\ f \in FlowState /\ f.class = e.class /\ f.size = e.size
        /\ f.finished = e.finished /\ f.received = e.received /\ f.started = TRUE
    BY <1>2, <1>3 DEF FlowState
  <1>6. b = NoPackets /\ l = {}
    BY <1>1 DEF Starting
  <1>7. /\ ReceivedOK(f) /\ ~f.finished /\ f.next_seq_no = 0 /\ f.last_unacked_seq = 0
        /\ f.received_bytes = 0 /\ f.scoreboard_sack_bytes = 0 /\ f.retx = None
    BY <1>3, <1>4, NewFacts
  <1>8. CASE e.class = "TCPFlow"
    <2>1. Start(e).flow = f /\ Start(e).sent = {RtsPkt}
      BY <1>2, <1>8 DEF Start, After
    <2>2. Carried(Single(RtsPkt), n, {}, k)
      BY <1>6, <2>1, OnePacket
    <2>3. \/ n = Single(RtsPkt) /\ k = {}
          \/ n = NoPackets /\ k = {RtsPkt.type}
      BY <2>2, CarryOne
    <2>4. IsBag(n)
      BY <2>3, OnePacket
    <2>5. Waiting(f, n, k)
      BY <1>4, <1>5, <1>8, <2>3 DEF Waiting
    <2> QED
      BY <1>5, <1>7, <2>1, <2>4, <2>5 DEF FlowInv
  <1>9. CASE e.class # "TCPFlow"
    <2>1. Start(e) = SendPendingData(f)
      BY <1>2, <1>5, <1>9 DEF Start
    <2>2. Keeps(f, SendPendingData(f))
      BY <1>5, <1>7, FirstSend
    <2>3. IsBag(b) /\ DOMAIN b = {} /\ l \subseteq {"DATA", "ACK"}
      BY <1>6, OnePacket
    <2> QED
      BY <1>3, <1>5, <2>1, <2>2, <2>3, OpenStep
  <1> QED
    BY <1>8, <1>9

\* The timer is that of an open flow.
LEMMA TimeoutStep ==
  ASSUME NEW f, NEW b, NEW l, FlowInv(f, b, l), f.retx.live > 0,
         NEW n, NEW k, Carried(With(b, HandleTimeout(f).sent), n, l, k)
  PROVE  FlowInv(HandleTimeout(f).flow, n, k)
  <1>1. Open(f, b, l)
    <2>1. f.retx.live # 0
      OBVIOUS
    <2> QED
      BY <2>1, StartingFacts, WaitingFacts DEF FlowInv
  <1>2. f \in FlowState /\ ReceivedOK(f) /\ IsBag(b)
    BY DEF FlowInv
  <1>3. Keeps(f, HandleTimeout(f))
    BY <1>1, <1>2, TimeoutFacts DEF Open
  <1>4. f.started = TRUE
    BY <1>1, <1>2 DEF Open, FlowState
  <1>5. l \subseteq {"DATA", "ACK"} /\ \A m \in DOMAIN b : OpenPacket(f, m)
    BY <1>1 DEF Open
  <1> QED
    BY <1>2, <1>3, <1>4, <1>5, OpenStep

\* A packet arrives: data or an acknowledgement at an open flow, the RTS or its answer
\* at one that waits.
LEMMA ArrivalStep ==
  ASSUME NEW f, NEW b, NEW l, FlowInv(f, b, l), NEW m \in DOMAIN b,
         NEW r \in Receive(f, m), NEW n, NEW k, Carried(With(Less(b, m), r.sent), n, l, k)
  PROVE  FlowInv(r.flow, n, k)
  <1>1. f \in FlowState /\ ReceivedOK(f) /\ IsBag(b)
    BY DEF FlowInv
  <1>2. PICK rest : rest = Less(b, m)
    OBVIOUS
  <1>3. IsBag(rest) /\ DOMAIN rest \subseteq DOMAIN b
    BY <1>1, <1>2, BagFacts
  <1>4. CASE Open(f, b, l)
    <2>1. OpenPacket(f, m) /\ TimerOK(f) /\ f.started = TRUE
      BY <1>1, <1>4 DEF Open, FlowState
    <2>2. l \subseteq {"DATA", "ACK"} /\ \A x \in DOMAIN rest : OpenPacket(f, x)
      BY <1>3, <1>4 DEF Open
    <2>3. Keeps(f, r)
      <3>1. CASE \E s \in Seqs(f) : m = DataPkt(s)
        <4>1. PICK s \in Seqs(f) : m = DataPkt(s)
          BY <3>1
        <4>2. r = ReceiveData(f, s)
          BY <4>1 DEF Receive, DataPkt
        <4> QED
          BY <1>1, <2>1, <4>2, DataFacts
      <3>2. CASE \E a, h : m = AckPkt(a, h)
        <4>1. PICK a, h : m = AckPkt(a, h)
          BY <3>2
        <4>2. r \in ReceiveAck(f, m)
          BY <4>1 DEF Receive, AckPkt
        <4> QED
          BY <1>1, <2>1, <4>1, <4>2, AckHandled
      <3> QED
        BY <2>1, <3>1, <3>2 DEF OpenPacket
    <2> QED
      BY <1>1, <1>2, <1>3, <2>1, <2>2, <2>3, OpenStep
  <1>5. CASE Waiting(f, b, l)
    <2>1. /\ f.started = TRUE /\ ~f.finished /\ f.next_seq_no = 0
          /\ f.last_unacked_seq = 0 /\ f.received_bytes = 0
          /\ f.scoreboard_sack_bytes = 0 /\ f.retx = None
          /\ m = RtsPkt \/ m = CtsPkt
          /\ b = Single(m) /\ l = {}
      BY <1>5, WaitingFacts
    <2>2. rest = NoPackets /\ DOMAIN rest = {}
      BY <1>2, <2>1, OnePacket
    <2>3. CASE m = RtsPkt
      <3>1. r.flow = f /\ r.sent = {CtsPkt}
        BY <2>3 DEF Receive, RtsPkt, After
      <3>2. Carried(Single(CtsPkt), n, {}, k)
        BY <1>2, <2>1, <2>2, <3>1, OnePacket
      <3>3. \/ n = Single(CtsPkt) /\ k = {}
            \/ n = NoPackets /\ k = {CtsPkt.type}
        BY <3>2, CarryOne
      <3>4. IsBag(n)
        BY <3>3, OnePacket
      <3>5. Waiting(f, n, k)
        BY <1>5, <3>3 DEF Waiting
      <3> QED
        BY <1>1, <3>1, <3>4, <3>5 DEF FlowInv
    <2>4. CASE m = CtsPkt
      <3>1. r = SendPendingData(f)
        BY <2>4 DEF Receive, CtsPkt
      <3>2. Keeps(f, r)
        BY <1>1, <2>1, <3>1, FirstSend
      <3> QED
        BY <1>1, <1>2, <1>3, <2>1, <2>2, <3>2, OpenStep
    <2> QED
      BY <2>1, <2>3, <2>4
  <1>6. CASE Starting(f, b, l)
    BY <1>6, StartingFacts
  <1> QED
    BY <1>4, <1>5, <1>6 DEF FlowInv

\* A packet is lost.
LEMMA LoseStep ==
  ASSUME NEW f, NEW b, NEW l, FlowInv(f, b, l), NEW n, NEW k, Carried(b, n, l, k)
  PROVE  FlowInv(f, n, k)
  <1>1. f \in FlowState /\ ReceivedOK(f) /\ IsBag(b)
    BY DEF FlowInv
  <1>2. /\ IsBag(n) /\ DOMAIN n \subseteq DOMAIN b
        /\ k \subseteq l \union {m.type : m \in DOMAIN b}
    BY <1>1, CarryFacts
  <1>3. CASE Open(f, b, l)
    <2>1. \A m \in DOMAIN b : m.type \in {"DATA", "ACK"}
      BY <1>3 DEF Open, OpenPacket, DataPkt, AckPkt
    <2>2. Open(f, n, k)
      BY <1>2, <1>3, <2>1 DEF Open
    <2> QED
      BY <1>1, <1>2, <2>2 DEF FlowInv
  <1>4. CASE Waiting(f, b, l)
    <2>1. PICK p \in {RtsPkt, CtsPkt} : \/ b = Single(p) /\ l = {}
                                        \/ b = NoPackets /\ l = {p.type}
      BY <1>4 DEF Waiting
    <2>2. \/ n = Single(p) /\ k = {}
          \/ n = NoPackets /\ k = {p.type}
      BY <2>1, CarryOne, CarryNone
    <2>3. Waiting(f, n, k)
      BY <1>4, <2>2 DEF Waiting
    <2> QED
      BY <1>1, <1>2, <2>3 DEF FlowInv
  <1>5. CASE Starting(f, b, l)
    BY <1>1, <1>2, <1>5, CarryNone DEF FlowInv, Starting
  <1> QED
    BY <1>3, <1>4, <1>5 DEF FlowInv

(***************************************************************************)
(* FlowTransport has a copy of each operator of Flow.                      *)
(***************************************************************************)

\* The copies are the operators.
LEMMA SameOperators ==
  ASSUME NEW f
  PROVE  /\ \A n, m : AnyNetwork(f)!Copies(n, m) = Copies(n, m)
         /\ \A n, S : AnyNetwork(f)!With(n, S) = With(n, S)
         /\ \A n, m : AnyNetwork(f)!Less(n, m) = Less(n, m)
         /\ \A n, all : AnyNetwork(f)!PartOf(n, all) = PartOf(n, all)
         /\ \A n, all : AnyNetwork(f)!Missing(n, all) = Missing(n, all)
         /\ \A n : AnyNetwork(f)!IsBag(n) = IsBag(n)
         /\ AnyNetwork(f)!NoPackets = NoPackets
         /\ AnyNetwork(f)!FlowClass = FlowClass
         /\ \A c, s : AnyNetwork(f)!New(c, s) = New(c, s)
         /\ \A g : AnyNetwork(f)!Seqs(g) = Seqs(g)
         /\ \A s : AnyNetwork(f)!DataPkt(s) = DataPkt(s)
         /\ \A a, n : AnyNetwork(f)!AckPkt(a, n) = AckPkt(a, n)
         /\ AnyNetwork(f)!RtsPkt = RtsPkt
         /\ AnyNetwork(f)!CtsPkt = CtsPkt
         /\ \A g : AnyNetwork(f)!BytesIn(g) = BytesIn(g)
         /\ \A g : AnyNetwork(f)!RecvTill(g) = RecvTill(g)
         /\ \A S : AnyNetwork(f)!Cardinality(S) = Cardinality(S)
         /\ \A g : AnyNetwork(f)!Start(g) = Start(g)
         /\ \A g : AnyNetwork(f)!HandleTimeout(g) = HandleTimeout(g)
         /\ \A g, m : AnyNetwork(f)!Receive(g, m) = Receive(g, m)
  <1>1. \A S : AnyNetwork(f)!Cardinality(S) = Cardinality(S)
    BY DEF AnyNetwork!Cardinality, Cardinality
  <1>2. \A S : AnyNetwork(f)!Min(S) = Min(S)
    BY DEF AnyNetwork!Min, Min
  <1>3. \A S : AnyNetwork(f)!Max(S) = Max(S)
    BY DEF AnyNetwork!Max, Max
  <1>4. \A n : AnyNetwork(f)!IsBag(n) = IsBag(n)
    BY DEF AnyNetwork!IsBag, IsBag
  <1>5. AnyNetwork(f)!NoPackets = NoPackets
    BY DEF AnyNetwork!NoPackets, NoPackets
  <1>6. \A n, m : AnyNetwork(f)!Copies(n, m) = Copies(n, m)
    BY DEF AnyNetwork!Copies, Copies
  <1>7. \A n, S : AnyNetwork(f)!With(n, S) = With(n, S)
    BY <1>6 DEF AnyNetwork!With, With
  <1>8. \A n, m : AnyNetwork(f)!Less(n, m) = Less(n, m)
    BY DEF AnyNetwork!Less, Less
  <1>9. \A n, all : AnyNetwork(f)!PartOf(n, all) = PartOf(n, all)
    BY <1>4, <1>6 DEF AnyNetwork!PartOf, PartOf
  <1>10. \A n, all : AnyNetwork(f)!Missing(n, all) = Missing(n, all)
    BY <1>6 DEF AnyNetwork!Missing, Missing
  <1>11. AnyNetwork(f)!FlowClass = FlowClass
    BY DEF AnyNetwork!FlowClass, FlowClass
  <1>12. \A c, s : AnyNetwork(f)!New(c, s) = New(c, s)
    BY DEF AnyNetwork!New, New
  <1>13. \A g : AnyNetwork(f)!Seqs(g) = Seqs(g)
    BY DEF AnyNetwork!Seqs, Seqs
  <1>14. \A s : AnyNetwork(f)!DataPkt(s) = DataPkt(s)
    BY DEF AnyNetwork!DataPkt, DataPkt
  <1>15. \A a, n : AnyNetwork(f)!AckPkt(a, n) = AckPkt(a, n)
    BY DEF AnyNetwork!AckPkt, AckPkt
  <1>16. AnyNetwork(f)!RtsPkt = RtsPkt
    BY DEF AnyNetwork!RtsPkt, RtsPkt
  <1>17. AnyNetwork(f)!CtsPkt = CtsPkt
    BY DEF AnyNetwork!CtsPkt, CtsPkt
  <1>18. \A g, S : AnyNetwork(f)!After(g, S) = After(g, S)
    BY DEF AnyNetwork!After, After
  <1>19. \A a, b : AnyNetwork(f)!MinOf(a, b) = MinOf(a, b)
    BY DEF AnyNetwork!MinOf, MinOf
  <1>20. \A a, b : AnyNetwork(f)!MaxOf(a, b) = MaxOf(a, b)
    BY DEF AnyNetwork!MaxOf, MaxOf
  <1>21. \A g, t : AnyNetwork(f)!WithTimer(g, t) = WithTimer(g, t)
    BY DEF AnyNetwork!WithTimer, WithTimer
  <1>22. \A t : AnyNetwork(f)!CancelRetx(t) = CancelRetx(t)
    BY DEF AnyNetwork!CancelRetx, CancelRetx
  <1>23. \A g : AnyNetwork(f)!Window(g) = Window(g)
    BY DEF AnyNetwork!Window, Window
  <1>24. \A g : AnyNetwork(f)!InWindow(g) = InWindow(g)
    BY <1>13, <1>23 DEF AnyNetwork!InWindow, InWindow
  <1>25. \A g, W : AnyNetwork(f)!PassedTo(g, W) = PassedTo(g, W)
    BY <1>19, <1>3 DEF AnyNetwork!PassedTo, PassedTo
  <1>26. \A g, W : AnyNetwork(f)!SetIfNone(g, W) = SetIfNone(g, W)
    BY <1>21 DEF AnyNetwork!SetIfNone, SetIfNone
  <1>27. \A g : AnyNetwork(f)!SendPendingData(g) = SendPendingData(g)
    BY <1>24, <1>18, <1>25, <1>26, <1>14 DEF AnyNetwork!SendPendingData, SendPendingData
  <1>28. \A g : AnyNetwork(f)!Start(g) = Start(g)
    BY <1>18, <1>16, <1>27 DEF AnyNetwork!Start, Start
  <1>29. \A g, s : AnyNetwork(f)!PayloadOf(g, s) = PayloadOf(g, s)
    BY <1>19 DEF AnyNetwork!PayloadOf, PayloadOf
  <1>30. \A g : AnyNetwork(f)!BytesIn(g) = BytesIn(g)
    BY DEF AnyNetwork!BytesIn, BytesIn
  <1>31. \A g : AnyNetwork(f)!RecvTill(g) = RecvTill(g)
    BY <1>2, <1>13 DEF AnyNetwork!RecvTill, RecvTill
  <1>32. \A g, s : AnyNetwork(f)!ReceiveData(g, s) = ReceiveData(g, s)
    <2> SUFFICES ASSUME NEW g, NEW s PROVE AnyNetwork(f)!ReceiveData(g, s) = ReceiveData(g, s)
      OBVIOUS
    <2>1. PICK h : h = [g EXCEPT !.received = @ \union {s},
                                 !.received_bytes = @ + IF s \in g.received THEN 0
                                                        ELSE PayloadOf(g, s)]
      OBVIOUS
    <2>2. PICK H : H = {r \in h.received : r > RecvTill(h)}
      OBVIOUS
    <2>3. ReceiveData(g, s) = IF g.finished THEN After(g, {})
                              ELSE After(h, {AckPkt(RecvTill(h), Cardinality(H))})
      BY <2>1, <2>2 DEF ReceiveData
    <2>4. h = [g EXCEPT !.received = @ \union {s},
                        !.received_bytes = @ + IF s \in g.received THEN 0
                                               ELSE AnyNetwork(f)!PayloadOf(g, s)]
      BY <1>29, <2>1
    <2>5. H = {r \in h.received : r > AnyNetwork(f)!RecvTill(h)}
      BY <1>31, <2>2
    <2>6. AnyNetwork(f)!ReceiveData(g, s) =
            IF g.finished THEN AnyNetwork(f)!After(g, {})
            ELSE AnyNetwork(f)!After(h, {AnyNetwork(f)!AckPkt(AnyNetwork(f)!RecvTill(h),
                                                             AnyNetwork(f)!Cardinality(H))})
      BY <2>4, <2>5 DEF AnyNetwork!ReceiveData
    <2> QED
      BY <1>18, <1>31, <1>15, <1>1, <2>3, <2>6
  <1>33. \A g : AnyNetwork(f)!Capped(g) = Capped(g)
    BY <1>19 DEF AnyNetwork!Capped, Capped
  <1>34. \A g : AnyNetwork(f)!AdditiveIncrease(g) = AdditiveIncrease(g)
    BY DEF AnyNetwork!AdditiveIncrease, AdditiveIncrease
  <1>35. \A g : AnyNetwork(f)!Increased(g) = Increased(g)
    BY <1>33, <1>34 DEF AnyNetwork!Increased, Increased
  <1>36. \A g : AnyNetwork(f)!TimerMoved(g) = TimerMoved(g)
    BY <1>21, <1>22 DEF AnyNetwork!TimerMoved, TimerMoved
  <1>37. \A g, m : AnyNetwork(f)!Acked(g, m) = Acked(g, m)
    BY <1>20 DEF AnyNetwork!Acked, Acked
  <1>38. \A g : AnyNetwork(f)!NewAck(g) = NewAck(g)
    <2> SUFFICES ASSUME NEW g PROVE AnyNetwork(f)!NewAck(g) = NewAck(g)
      OBVIOUS
    <2>1. PICK r : r = SendPendingData(g)
      OBVIOUS
    <2>2. PICK t : t = TimerMoved(r.flow)
      OBVIOUS
    <2>3. AnyNetwork(f)!SendPendingData(g) = r /\ AnyNetwork(f)!TimerMoved(r.flow) = t
      BY <1>27, <1>36, <2>1, <2>2
    <2>4. AnyNetwork(f)!NewAck(g) =
            LET h == [r.flow EXCEPT !.retx = t]
                done == g.last_unacked_seq = g.size
            IN AnyNetwork(f)!After([h EXCEPT !.finished = done,
                                             !.received = IF done THEN {} ELSE @], r.sent)
      BY <2>3 DEF AnyNetwork!NewAck
    <2> QED
      BY <1>18, <2>1, <2>2, <2>4 DEF NewAck
  <1>39. \A g, m : AnyNetwork(f)!ReceiveAck(g, m) = ReceiveAck(g, m)
    BY <1>18, <1>37, <1>38, <1>35 DEF AnyNetwork!ReceiveAck, ReceiveAck
  <1>40. \A g : AnyNetwork(f)!GoBack(g) = GoBack(g)
    BY DEF AnyNetwork!GoBack, GoBack
  <1>41. \A g : AnyNetwork(f)!HalfWindow(g) = HalfWindow(g)
    BY <1>20 DEF AnyNetwork!HalfWindow, HalfWindow
  <1>42. \A g : AnyNetwork(f)!HandleTimeout(g) = HandleTimeout(g)
    BY <1>40, <1>41, <1>27, <1>21, <1>18 DEF AnyNetwork!HandleTimeout, HandleTimeout
  <1>43. \A g, m : AnyNetwork(f)!Receive(g, m) = Receive(g, m)
    BY <1>32, <1>39, <1>18, <1>17, <1>27 DEF AnyNetwork!Receive, Receive
  <1> QED
    BY <1>6, <1>7, <1>8, <1>9, <1>10, <1>4, <1>5, <1>11, <1>12, <1>13, <1>14, <1>15,
       <1>16, <1>17, <1>30, <1>31, <1>1, <1>28, <1>42, <1>43

(***************************************************************************)
(* The queues.                                                             *)
(***************************************************************************)
\* The packets a flow may send, as their records are.
AnyPacket ==
  [type : {"DATA"}, seq : Nat] \union [type : {"ACK"}, ack : Nat, sack : Nat]
  \union {RtsPkt, CtsPkt}

\* What is in a queue.
QueuedPacket == [flow : Users, pkt : AnyPacket, pf_priority : 0 .. Word - 1]

\* The values of queue, and those of lost.
Queues == [Host -> [Paths -> Seq(QueuedPacket)]]
Losses == [Flows -> SUBSET {"DATA", "ACK", "RTS", "CTS"}]

\* Where a flow has copies of a packet.
Spots(q, f, p) == {s \in Places(q, f) : PacketAt(q, s) = p}

\* A bag has a packet more than another.
OneMore(n, less, m) ==
  IsBag(n) /\ \A p : Copies(n, p) = Copies(less, p) + IF p = m THEN 1 ELSE 0

\* Bags are told apart by the numbers of copies.
LEMMA SameBag ==
  ASSUME NEW n, IsBag(n), NEW m, IsBag(m), \A p : Copies(n, p) = Copies(m, p)
  PROVE  n = m
  <1>1. ASSUME NEW p PROVE (p \in DOMAIN n <=> p \in DOMAIN m) /\ (p \in DOMAIN n => n[p] = m[p])
    <2>1. p \in DOMAIN n => n[p] # 0
      BY DEF IsBag
    <2>2. p \in DOMAIN m => m[p] # 0
      BY DEF IsBag
    <2>3. Copies(n, p) = Copies(m, p)
      OBVIOUS
    <2> QED
      BY <2>1, <2>2, <2>3 DEF Copies
  <1>2. n = [p \in DOMAIN n |-> n[p]] /\ m = [p \in DOMAIN m |-> m[p]]
    BY DEF IsBag
  <1>3. DOMAIN n = DOMAIN m
    BY <1>1
  <1> QED
    BY <1>1, <1>2, <1>3

\* Copies are counted in naturals.
LEMMA CopiesFacts ==
  ASSUME NEW n, IsBag(n), NEW p
  PROVE  /\ Copies(n, p) \in Nat /\ (Copies(n, p) > 0 <=> p \in DOMAIN n)
         /\ p \in DOMAIN n => Copies(n, p) = n[p]
  <1>1. p \in DOMAIN n => n[p] \in Nat /\ n[p] > 0
    BY DEF IsBag
  <1> QED
    BY <1>1 DEF Copies

\* A bag with a packet more of each of S.
LEMMA WithFacts ==
  ASSUME NEW n, IsBag(n), NEW S
  PROVE  IsBag(With(n, S)) /\ \A p : Copies(With(n, S), p) = Copies(n, p) + IF p \in S THEN 1 ELSE 0
  <1>1. IsBag(With(n, S))
    BY BagFacts
  <1>2. ASSUME NEW p PROVE Copies(With(n, S), p) = Copies(n, p) + IF p \in S THEN 1 ELSE 0
    <2>1. Copies(n, p) \in Nat /\ (p \notin DOMAIN n => Copies(n, p) = 0)
      BY CopiesFacts DEF Copies
    <2> QED
      BY <2>1 DEF Copies, With
  <1> QED
    BY <1>1, <1>2

\* A bag without one of its packets.
LEMMA LessFacts ==
  ASSUME NEW n, NEW less, IsBag(less), NEW m, OneMore(n, less, m)
  PROVE  m \in DOMAIN n /\ Less(n, m) = less
  <1>1. IsBag(n) /\ \A p : Copies(n, p) = Copies(less, p) + IF p = m THEN 1 ELSE 0
    BY DEF OneMore
  <1>2. m \in DOMAIN n
    BY <1>1, CopiesFacts
  <1>3. ASSUME NEW p PROVE Copies(Less(n, m), p) = Copies(less, p)
    <2>1. Copies(less, p) \in Nat /\ Copies(n, p) \in Nat
      BY <1>1, CopiesFacts
    <2>2. Copies(n, p) = Copies(less, p) + IF p = m THEN 1 ELSE 0
      BY <1>1
    <2>3. p \in DOMAIN n => Copies(n, p) = n[p] /\ n[p] \in Nat /\ n[p] > 0
      BY <1>1, CopiesFacts
    <2>4. p \notin DOMAIN n => Copies(n, p) = 0
      BY DEF Copies
    <2>5. CASE p = m
      BY <2>1, <2>2, <2>3, <2>4, <2>5 DEF Copies, Less
    <2>6. CASE p # m
      BY <2>1, <2>2, <2>3, <2>4, <2>6 DEF Copies, Less
    <2> QED
      BY <2>5, <2>6
  <1> QED
    BY <1>1, <1>2, <1>3, BagFacts, SameBag

\* A network that loses nothing.
LEMMA CarriedAll ==
  ASSUME NEW n, IsBag(n), NEW l
  PROVE  Carried(n, n, l, l)
  <1>1. ASSUME NEW p \in DOMAIN n PROVE n[p] <= Copies(n, p) /\ ~(Copies(n, p) < n[p])
    <2>1. Copies(n, p) = n[p] /\ n[p] \in Nat
      BY CopiesFacts
    <2> QED
      BY <2>1
  <1> QED
    BY <1>1 DEF Carried, PartOf, Missing

\* A packet more is sent, and gets through.
LEMMA CarriedMore ==
  ASSUME NEW all, IsBag(all), NEW n, NEW l, NEW k, Carried(all, n, l, k),
         NEW m, NEW all2, OneMore(all2, all, m), NEW n2, OneMore(n2, n, m)
  PROVE  Carried(all2, n2, l, k)
  <1>1. IsBag(n) /\ k = l \union {p.type : p \in Missing(n, all)}
    BY DEF Carried, PartOf
  <1>2. IsBag(all2) /\ IsBag(n2)
    BY DEF OneMore
  <1>3. \A p : Copies(all, p) \in Nat /\ Copies(n, p) \in Nat
    BY <1>1, CopiesFacts
  <1>4. \A p : Copies(n, p) <= Copies(all, p)
    BY <1>1, <1>3, CopiesFacts DEF Carried, PartOf, Copies
  <1>5. \A p : Copies(n2, p) <= Copies(all2, p)
    BY <1>3, <1>4 DEF OneMore
  <1>6. PartOf(n2, all2)
    <2>1. ASSUME NEW p \in DOMAIN n2 PROVE n2[p] <= Copies(all2, p)
      BY <1>2, <1>5, CopiesFacts
    <2> QED
      BY <1>2, <2>1 DEF PartOf
  <1>7. \A p : p \in Missing(n, all) <=> Copies(n, p) < Copies(all, p)
    BY <1>3, CopiesFacts DEF Missing
  <1>8. \A p : p \in Missing(n2, all2) <=> Copies(n2, p) < Copies(all2, p)
    <2>1. ASSUME NEW p PROVE p \in Missing(n2, all2) <=> Copies(n2, p) < Copies(all2, p)
      <3>1. Copies(n2, p) \in Nat /\ Copies(all2, p) \in Nat
        BY <1>2, CopiesFacts
      <3> QED
        BY <1>2, <3>1, CopiesFacts DEF Missing
    <2> QED
      BY <2>1
  <1>9. \A p : Copies(n2, p) < Copies(all2, p) <=> Copies(n, p) < Copies(all, p)
    BY <1>3 DEF OneMore
  <1>10. Missing(n2, all2) = Missing(n, all)
    BY <1>7, <1>8, <1>9
  <1> QED
    BY <1>1, <1>6, <1>10 DEF Carried

\* A packet more is lost.
LEMMA CarriedLess ==
  ASSUME NEW all, IsBag(all), NEW n, NEW l, NEW k, Carried(all, n, l, k),
         NEW m, NEW less, IsBag(less), OneMore(n, less, m)
  PROVE  Carried(all, less, l, k \union {m.type})
  <1>1. IsBag(n) /\ k = l \union {p.type : p \in Missing(n, all)}
    BY DEF Carried, PartOf
  <1>2. \A p : /\ Copies(all, p) \in Nat /\ Copies(n, p) \in Nat /\ Copies(less, p) \in Nat
               /\ Copies(n, p) = Copies(less, p) + IF p = m THEN 1 ELSE 0
    BY <1>1, CopiesFacts DEF OneMore
  <1>3. \A p : Copies(n, p) <= Copies(all, p)
    BY <1>1, <1>2, CopiesFacts DEF Carried, PartOf, Copies
  <1>4. \A p : Copies(less, p) <= Copies(all, p)
    BY <1>2, <1>3
  <1>5. PartOf(less, all)
    <2>1. ASSUME NEW p \in DOMAIN less PROVE less[p] <= Copies(all, p)
      BY <1>4, CopiesFacts
    <2> QED
      BY <2>1 DEF PartOf
  <1>6. \A p : p \in Missing(n, all) <=> Copies(n, p) < Copies(all, p)
    BY <1>2, CopiesFacts DEF Missing
  <1>7. \A p : p \in Missing(less, all) <=> Copies(less, p) < Copies(all, p)
    BY <1>2, CopiesFacts DEF Missing
  <1>8. ASSUME NEW p PROVE Copies(less, p) < Copies(all, p) <=> p = m \/ Copies(n, p) < Copies(all, p)
    BY <1>2, <1>3
  <1>9. Missing(less, all) = Missing(n, all) \union {m}
    BY <1>6, <1>7, <1>8
  <1> QED
    BY <1>1, <1>5, <1>9 DEF Carried

\* The places of the packets in the queues are finitely many.
LEMMA PlacesFinite ==
  ASSUME config \in Configs, NEW q \in Queues, NEW f
  PROVE  IsFiniteSet(Places(q, f))
  <1>1. PICK P : P = [e \in Host \X Paths |-> {<<e[1], e[2], n>> : n \in {k \in DOMAIN q[e[1]][e[2]] : q[e[1]][e[2]][k].flow = f}}]
    OBVIOUS
  <1>2. IsFiniteSet(Host \X Paths)
    <2>1. IsFiniteSet({"a"}) /\ IsFiniteSet({"a"} \union {"b"})
      BY FS_Singleton, FS_AddElement
    <2>2. 1 \in Int /\ config.paths \in Int
      BY ConfigAssumption
    <2>3. IsFiniteSet(1 .. config.paths)
      BY ONLY <2>2, FS_Interval
    <2>4. Host = {"a"} \union {"b"}
      BY DEF Host
    <2> QED
      BY <2>1, <2>3, <2>4, FS_Product DEF Paths
  <1>3. ASSUME NEW e \in Host \X Paths PROVE IsFiniteSet(P[e])
    <2>1. PICK D : D = {k \in DOMAIN q[e[1]][e[2]] : q[e[1]][e[2]][k].flow = f}
      OBVIOUS
    <2>2. q[e[1]][e[2]] \in Seq(QueuedPacket)
      BY DEF Queues
    <2>3. PICK L : L = Len(q[e[1]][e[2]])
      OBVIOUS
    <2>4. D \subseteq 1 .. L /\ 1 \in Int /\ L \in Int
      BY <2>1, <2>2, <2>3
    <2>5. IsFiniteSet(1 .. L)
      BY ONLY <2>4, FS_Interval
    <2>6. IsFiniteSet(D)
      BY <2>4, <2>5, FS_Subset
    <2>7. PICK T : T = [n \in D |-> <<e[1], e[2], n>>]
      OBVIOUS
    <2>8. P[e] = {T[n] : n \in D}
      BY <1>1, <2>1, <2>7
    <2> QED
      BY <2>6, <2>8, ImageFinite
  <1>4. PICK U : U = {P[e] : e \in Host \X Paths}
    OBVIOUS
  <1>5. ASSUME NEW h \in Host, NEW i \in Paths
        PROVE  P[<<h, i>>] = {<<h, i, n>> : n \in {k \in DOMAIN q[h][i] : q[h][i][k].flow = f}}
    BY <1>1
  <1>6. Places(q, f) \subseteq UNION U
    <2> SUFFICES ASSUME NEW s \in Places(q, f) PROVE \E u \in U : s \in u
      OBVIOUS
    <2>1. PICK h \in Host, i \in Paths :
            s \in {<<h, i, n>> : n \in {k \in DOMAIN q[h][i] : q[h][i][k].flow = f}}
      BY DEF Places
    <2>2. s \in P[<<h, i>>] /\ <<h, i>> \in Host \X Paths
      BY <1>5, <2>1
    <2> QED
      BY <1>4, <2>2
  <1>7. IsFiniteSet(U) /\ \A u \in U : IsFiniteSet(u)
    BY <1>2, <1>3, <1>4, ImageFinite
  <1>8. IsFiniteSet(UNION U)
    BY ONLY <1>7, FS_UNION
  <1> QED
    BY <1>6, <1>8, FS_Subset

\* The bag of a flow's packets in the queues has as many copies of one as it has places.
LEMMA InQueuesFacts ==
  ASSUME config \in Configs, NEW q \in Queues, NEW f
  PROVE  /\ IsBag(InQueues(q, f))
         /\ \A p : IsFiniteSet(Spots(q, f, p)) /\ Copies(InQueues(q, f), p) = Cardinality(Spots(q, f, p))
         /\ \A s \in Places(q, f) : PacketAt(q, s) \in DOMAIN InQueues(q, f)
  <1>1. \A p : IsFiniteSet(Spots(q, f, p)) /\ Cardinality(Spots(q, f, p)) \in Nat
    BY PlacesFinite, FS_Subset, FS_CardinalityType DEF Spots
  <1>2. InQueues(q, f) = [m \in {PacketAt(q, s) : s \in Places(q, f)} |-> Cardinality(Spots(q, f, m))]
    BY DEF InQueues, Spots
  <1>3. \A p : p \in DOMAIN InQueues(q, f) <=> Spots(q, f, p) # {}
    BY <1>2 DEF Spots
  <1>4. \A p : Spots(q, f, p) # {} <=> Cardinality(Spots(q, f, p)) # 0
    BY <1>1, FS_EmptySet
  <1>5. IsBag(InQueues(q, f))
    BY <1>1, <1>2, <1>3, <1>4 DEF IsBag
  <1>6. \A p : Copies(InQueues(q, f), p) = Cardinality(Spots(q, f, p))
    BY <1>1, <1>2, <1>3, <1>4 DEF Copies
  <1> QED
    BY <1>1, <1>2, <1>5, <1>6

\* A copy of packet p of flow f is the k-th of queue i of host h.
At(q, f, p, h, i, k) ==
  h \in Host /\ i \in Paths /\ k \in 1 .. Len(q[h][i]) /\ q[h][i][k].flow = f /\ q[h][i][k].pkt = p

\* The queues q, but that queue i of host h is s.
Put(q, h, i, s) == [q EXCEPT ![h][i] = s]

\* Queues q and r differ in queue i of host h at most.
ElseSame(q, r, h, i) == \A g \in Host, j \in Paths : g # h \/ j # i => r[g][j] = q[g][j]

\* Packet x is put at the end of queue i of host h.
Appended(q, h, i, x, r) ==
  /\ q \in Queues /\ r \in Queues /\ h \in Host /\ i \in Paths /\ x \in QueuedPacket
  /\ r[h][i] = Append(q[h][i], x) /\ ElseSame(q, r, h, i)

\* The k-th packet of the queue, x, is removed.
TakenOut(q, h, i, k, x, r) ==
  /\ q \in Queues /\ r \in Queues /\ h \in Host /\ i \in Paths
  /\ k \in 1 .. Len(q[h][i]) /\ x = q[h][i][k]
  /\ r[h][i] = Removed(q[h][i], k) /\ ElseSame(q, r, h, i)

\* The packets of a queue.
LEMMA QueueTypes ==
  ASSUME NEW q \in Queues, NEW h \in Host, NEW i \in Paths
  PROVE  /\ q[h][i] \in Seq(QueuedPacket) /\ Len(q[h][i]) \in Nat
         /\ DOMAIN q[h][i] = 1 .. Len(q[h][i])
         /\ \A k \in 1 .. Len(q[h][i]) : q[h][i][k] \in QueuedPacket
  BY DEF Queues

\* A queue's new contents.
LEMMA QueueChanged ==
  ASSUME NEW q \in Queues, NEW h \in Host, NEW i \in Paths, NEW s \in Seq(QueuedPacket),
         NEW r, r = Put(q, h, i, s)
  PROVE  r \in Queues /\ r[h][i] = s /\ ElseSame(q, r, h, i)
  <1>1. PICK c : c = [q[h] EXCEPT ![i] = s]
    OBVIOUS
  <1>2. c \in [Paths -> Seq(QueuedPacket)] /\ c[i] = s /\ \A j \in Paths : j # i => c[j] = q[h][j]
    BY <1>1 DEF Queues
  <1>3. r = [q EXCEPT ![h] = c]
    BY <1>1 DEF Put
  <1>4. r \in Queues /\ r[h] = c /\ \A g \in Host : g # h => r[g] = q[g]
    BY <1>2, <1>3 DEF Queues
  <1> QED
    BY <1>2, <1>4 DEF ElseSame

\* Where the copies are.
LEMMA SpotsAre ==
  ASSUME NEW q \in Queues, NEW f, NEW p
  PROVE  /\ \A h, i, k : <<h, i, k>> \in Spots(q, f, p) <=> At(q, f, p, h, i, k)
         /\ \A s \in Spots(q, f, p) : \E h, i, k : s = <<h, i, k>>
  <1> DEFINE T(h, i) == {<<h, i, n>> : n \in {k \in DOMAIN q[h][i] : q[h][i][k].flow = f}}
  <1>1. \A h \in Host, i \in Paths : DOMAIN q[h][i] = 1 .. Len(q[h][i])
    BY QueueTypes
  <1>2. Places(q, f) = UNION {T(h, i) : h \in Host, i \in Paths}
    BY DEF Places
  <1>3. \A h, i, s : s \in T(h, i) <=> \E n \in DOMAIN q[h][i] : q[h][i][n].flow = f /\ s = <<h, i, n>>
    OBVIOUS
  <1> HIDE DEF T
  <1>4. \A s : s \in Places(q, f) <=> \E h \in Host, i \in Paths : s \in T(h, i)
    BY <1>2
  <1>5. ASSUME NEW h, NEW i, NEW k
        PROVE  <<h, i, k>> \in Places(q, f) <=>
                 h \in Host /\ i \in Paths /\ k \in 1 .. Len(q[h][i]) /\ q[h][i][k].flow = f
    <2>1. ASSUME NEW g, NEW j, NEW n, <<h, i, k>> = <<g, j, n>> PROVE g = h /\ j = i /\ n = k
      BY <2>1
    <2>2. \A g, j : <<h, i, k>> \in T(g, j) =>
              g = h /\ j = i /\ k \in DOMAIN q[h][i] /\ q[h][i][k].flow = f
      BY <1>3, <2>1
    <2>3. k \in DOMAIN q[h][i] /\ q[h][i][k].flow = f => <<h, i, k>> \in T(h, i)
      BY <1>3
    <2> QED
      BY <1>1, <1>4, <2>2, <2>3
  <1>6. \A h, i, k : PacketAt(q, <<h, i, k>>) = q[h][i][k].pkt
    BY DEF PacketAt
  <1>7. \A s \in Places(q, f) : \E h, i, k : s = <<h, i, k>>
    BY <1>3, <1>4
  <1> QED
    BY <1>5, <1>6, <1>7 DEF Spots, At

\* What is in the other queues.
LEMMA AtSame ==
  ASSUME NEW q, NEW r, NEW h, NEW i, ElseSame(q, r, h, i), NEW f, NEW p, NEW g, NEW j, NEW k,
         g # h \/ j # i
  PROVE  At(r, f, p, g, j, k) <=> At(q, f, p, g, j, k)
  BY DEF At, ElseSame

\* Triples are told apart by their parts.
LEMMA Triples ==
  ASSUME NEW a, NEW b, NEW c, NEW d, NEW e, NEW f
  PROVE  <<a, b, c>> = <<d, e, f>> <=> a = d /\ b = e /\ c = f
  OBVIOUS

\* A packet put at the end of a queue is one more.
LEMMA AppendFacts ==
  ASSUME config \in Configs, NEW q, NEW h, NEW i, NEW x, NEW r,
         Appended(q, h, i, x, r), NEW f
  PROVE  /\ f = x.flow => OneMore(InQueues(r, f), InQueues(q, f), x.pkt)
         /\ f # x.flow => InQueues(r, f) = InQueues(q, f)
  <1>0. /\ q \in Queues /\ r \in Queues /\ h \in Host /\ i \in Paths /\ x \in QueuedPacket
        /\ r[h][i] = Append(q[h][i], x) /\ ElseSame(q, r, h, i)
    BY DEF Appended
  <1>1. PICK old, new, end : old = q[h][i] /\ new = r[h][i] /\ end = Len(old) + 1
    OBVIOUS
  <1>2. old \in Seq(QueuedPacket) /\ Len(old) \in Nat
    BY <1>0, <1>1, QueueTypes
  <1>3. /\ Len(new) = Len(old) + 1 /\ new[end] = x
        /\ \A k \in 1 .. Len(old) : new[k] = old[k]
    BY <1>0, <1>1, <1>2
  <1>4. ASSUME NEW p, NEW g, NEW j, NEW k
        PROVE  At(r, f, p, g, j, k) <=>
                 At(q, f, p, g, j, k) \/ (f = x.flow /\ p = x.pkt /\ <<g, j, k>> = <<h, i, end>>)
    <2>1. CASE g # h \/ j # i
      BY <1>0, <2>1, AtSame, Triples
    <2>2. CASE g = h /\ j = i
      <3>1. /\ k \in 1 .. Len(new) <=> k \in 1 .. Len(old) \/ k = end
            /\ end \notin 1 .. Len(old)
        BY <1>0, <1>1, <1>2, <1>3
      <3>2. At(r, f, p, g, j, k) <=> k \in 1 .. Len(new) /\ new[k].flow = f /\ new[k].pkt = p
        BY <1>0, <1>1, <2>2 DEF At
      <3>3. At(q, f, p, g, j, k) <=> k \in 1 .. Len(old) /\ old[k].flow = f /\ old[k].pkt = p
        BY <1>0, <1>1, <2>2 DEF At
      <3> QED
        BY <1>0, <1>3, <2>2, <3>1, <3>2, <3>3, Triples
    <2> QED
      BY <1>0, <2>1, <2>2
  <1>5. \A p : ~At(q, f, p, h, i, end)
    BY <1>0, <1>1, <1>2 DEF At
  <1>6. ASSUME NEW p
        PROVE  Spots(r, f, p) = IF f = x.flow /\ p = x.pkt THEN Spots(q, f, p) \union {<<h, i, end>>}
                                ELSE Spots(q, f, p)
    <2>1. ASSUME NEW s PROVE s \in Spots(r, f, p) <=>
             s \in Spots(q, f, p) \/ (f = x.flow /\ p = x.pkt /\ s = <<h, i, end>>)
      <3>1. CASE \E g, j, k : s = <<g, j, k>>
        BY <1>0, <1>4, <3>1, SpotsAre
      <3>2. CASE ~(\E g, j, k : s = <<g, j, k>>)
        BY <1>0, <3>2, SpotsAre
      <3> QED
        BY <1>0, <3>1, <3>2
    <2> QED
      BY <1>0, <2>1
  <1>7. ASSUME NEW p
        PROVE  Copies(InQueues(r, f), p) =
                 Copies(InQueues(q, f), p) + IF f = x.flow /\ p = x.pkt THEN 1 ELSE 0
    <2>1. /\ IsFiniteSet(Spots(q, f, p)) /\ Copies(InQueues(q, f), p) = Cardinality(Spots(q, f, p))
          /\ Copies(InQueues(r, f), p) = Cardinality(Spots(r, f, p))
      BY <1>0, InQueuesFacts
    <2>2. Cardinality(Spots(q, f, p)) \in Nat
      BY <1>0, <2>1, FS_CardinalityType
    <2>3. <<h, i, end>> \notin Spots(q, f, p)
      BY <1>0, <1>5, SpotsAre
    <2>4. Cardinality(Spots(q, f, p) \union {<<h, i, end>>}) = Cardinality(Spots(q, f, p)) + 1
      BY <1>0, <2>1, <2>3, FS_AddElement
    <2>5. CASE f = x.flow /\ p = x.pkt
      BY <1>0, <1>6, <2>1, <2>4, <2>5
    <2>6. CASE ~(f = x.flow /\ p = x.pkt)
      BY <1>0, <1>6, <2>1, <2>2, <2>6
    <2> QED
      BY <1>0, <2>5, <2>6
  <1>8. IsBag(InQueues(r, f)) /\ IsBag(InQueues(q, f))
    BY <1>0, InQueuesFacts
  <1>9. CASE f = x.flow
    BY <1>0, <1>7, <1>8, <1>9 DEF OneMore
  <1>10. CASE f # x.flow
    <2>1. ASSUME NEW p PROVE Copies(InQueues(r, f), p) = Copies(InQueues(q, f), p)
      <3>1. Copies(InQueues(q, f), p) \in Nat
        BY <1>0, <1>8, CopiesFacts
      <3> QED
        BY <1>0, <1>7, <1>10, <3>1
    <2>2. InQueues(r, f) = InQueues(q, f)
      BY <1>0, <1>8, <2>1, SameBag
    <2> QED
      BY <1>0, <1>10, <2>2
  <1> QED
    BY <1>0, <1>9, <1>10

\* The packets that are left when one is removed.
LEMMA RemovedIs ==
  ASSUME NEW s \in Seq(QueuedPacket), NEW k \in 1 .. Len(s)
  PROVE  /\ Removed(s, k) \in Seq(QueuedPacket) /\ Len(Removed(s, k)) = Len(s) - 1
         /\ \A m \in 1 .. Len(s) - 1 : Removed(s, k)[m] = IF m < k THEN s[m] ELSE s[m + 1]
  <1>1. PICK len \in Nat : len = Len(s) - 1
    OBVIOUS
  <1>2. Removed(s, k) = [m \in 1 .. len |-> IF m < k THEN s[m] ELSE s[m + 1]]
    BY <1>1 DEF Removed
  <1>3. ASSUME NEW m \in 1 .. len PROVE (IF m < k THEN s[m] ELSE s[m + 1]) \in QueuedPacket
    <2>1. m \in 1 .. Len(s) /\ m + 1 \in 1 .. Len(s)
      BY <1>1
    <2> QED
      BY <2>1
  <1>4. Removed(s, k) \in [1 .. len -> QueuedPacket]
    BY <1>2, <1>3
  <1> QED
    BY <1>1, <1>2, <1>4

\* A packet removed from a queue is one less.
LEMMA RemovedFacts ==
  ASSUME config \in Configs, NEW q, NEW h, NEW i, NEW k, NEW x, NEW r,
         TakenOut(q, h, i, k, x, r), NEW f
  PROVE  /\ f = x.flow => OneMore(InQueues(q, f), InQueues(r, f), x.pkt)
         /\ f # x.flow => InQueues(r, f) = InQueues(q, f)
  <1>0. /\ q \in Queues /\ r \in Queues /\ h \in Host /\ i \in Paths
        /\ k \in 1 .. Len(q[h][i]) /\ x = q[h][i][k]
        /\ r[h][i] = Removed(q[h][i], k) /\ ElseSame(q, r, h, i)
    BY DEF TakenOut
  <1>1. PICK old, new : old = q[h][i] /\ new = r[h][i]
    OBVIOUS
  <1>2. old \in Seq(QueuedPacket) /\ Len(old) \in Nat /\ k \in 1 .. Len(old) /\ k \in Nat
    BY <1>0, <1>1, QueueTypes
  <1>3. PICK len \in Nat : len = Len(old) - 1
    BY <1>2
  <1>4. Len(new) = len /\ \A m \in 1 .. len : new[m] = IF m < k THEN old[m] ELSE old[m + 1]
    <2>1. new = Removed(old, k)
      BY <1>0, <1>1
    <2> QED
      BY <1>0, <1>2, <1>3, <2>1, RemovedIs
  <1>5. ASSUME NEW p
        PROVE  /\ \A m : At(r, f, p, h, i, m) <=> m \in 1 .. len /\ new[m].flow = f /\ new[m].pkt = p
               /\ \A m : At(q, f, p, h, i, m) <=> m \in 1 .. Len(old) /\ old[m].flow = f /\ old[m].pkt = p
    BY <1>0, <1>1, <1>4 DEF At
  <1>6. ASSUME NEW p, NEW m \in Nat
        PROVE  /\ m >= k => (At(r, f, p, h, i, m) <=> At(q, f, p, h, i, m + 1))
               /\ m < k => (At(r, f, p, h, i, m) <=> At(q, f, p, h, i, m))
    <2>1. CASE m >= k
      <3>1. m \in 1 .. len <=> m + 1 \in 1 .. Len(old)
        BY <1>0, <1>2, <1>3, <2>1
      <3>2. m \in 1 .. len => new[m] = old[m + 1]
        BY <1>0, <1>2, <1>4, <2>1
      <3> QED
        BY <1>0, <1>2, <1>5, <2>1, <3>1, <3>2
    <2>2. CASE m < k
      <3>1. m \in 1 .. len <=> m \in 1 .. Len(old)
        BY <1>0, <1>2, <1>3, <2>2
      <3>2. m \in 1 .. len => new[m] = old[m]
        BY <1>0, <1>2, <1>4, <2>2
      <3> QED
        BY <1>0, <1>2, <1>5, <2>2, <3>1, <3>2
    <2> QED
      BY <1>0, <1>2, <2>1, <2>2
  <1>7. ASSUME NEW p
        PROVE  Cardinality(Spots(r, f, p)) = Cardinality(Spots(q, f, p) \ {<<h, i, k>>})
    <2>1. PICK S, T : S = Spots(r, f, p) /\ T = Spots(q, f, p) \ {<<h, i, k>>}
      OBVIOUS
    <2>2. /\ \A g, j, m : <<g, j, m>> \in S <=> At(r, f, p, g, j, m)
          /\ \A g, j, m : <<g, j, m>> \in T <=> At(q, f, p, g, j, m) /\ ~(g = h /\ j = i /\ m = k)
          /\ \A s \in S \union T : \E g, j, m : s = <<g, j, m>>
      BY <1>0, <2>1, SpotsAre, Triples
    <2>3. \A g, j, m : At(r, f, p, g, j, m) \/ At(q, f, p, g, j, m) => m \in Nat
      <3> SUFFICES ASSUME NEW g \in Host, NEW j \in Paths, NEW m,
                          m \in 1 .. Len(q[g][j]) \/ m \in 1 .. Len(r[g][j])
                   PROVE  m \in Nat
        BY DEF At
      <3> QED
        BY <1>0, QueueTypes
    <2>4. PICK M : M = [s \in S |-> IF s[1] = h /\ s[2] = i /\ s[3] >= k
                                    THEN <<h, i, s[3] + 1>> ELSE s]
      OBVIOUS
    <2>5. ASSUME NEW g, NEW j, NEW m, <<g, j, m>> \in S
          PROVE  M[<<g, j, m>>] = <<g, j, IF g = h /\ j = i /\ m >= k THEN m + 1 ELSE m>>
      BY <1>0, <2>4, <2>5
    <2>6. ASSUME NEW g, NEW j, NEW m, <<g, j, m>> \in S PROVE M[<<g, j, m>>] \in T
      <3>1. At(r, f, p, g, j, m) /\ m \in Nat
        BY <1>0, <2>2, <2>3, <2>6
      <3>2. CASE g # h \/ j # i
        <4>1. M[<<g, j, m>>] = <<g, j, m>>
          BY <1>0, <2>5, <2>6, <3>2
        <4>2. At(q, f, p, g, j, m)
          BY <1>0, <3>1, <3>2, AtSame
        <4> QED
          BY <1>0, <2>2, <3>2, <4>1, <4>2
      <3>3. CASE g = h /\ j = i /\ m >= k
        <4>1. At(q, f, p, h, i, m + 1) /\ m + 1 # k
          BY <1>0, <1>2, <1>6, <3>1, <3>3
        <4> QED
          <5>1. M[<<g, j, m>>] = <<h, i, m + 1>>
            BY <1>0, <2>5, <2>6, <3>3
          <5> QED
            BY <1>0, <2>2, <4>1, <5>1
      <3>4. CASE g = h /\ j = i /\ m < k
        <4>1. At(q, f, p, h, i, m) /\ m # k /\ ~(m >= k)
          BY <1>0, <1>2, <1>6, <3>1, <3>4
        <4> QED
          <5>1. M[<<g, j, m>>] = <<h, i, m>>
            BY <1>0, <2>5, <2>6, <3>4, <4>1
          <5> QED
            BY <1>0, <2>2, <4>1, <5>1
      <3> QED
        BY <1>0, <1>2, <3>1, <3>2, <3>3, <3>4
    <2>7. M \in [S -> T]
      BY <1>0, <2>2, <2>4, <2>6
    <2>8. ASSUME NEW s \in S, NEW t \in S, M[s] = M[t] PROVE s = t
      <3>1. PICK g, j, m : s = <<g, j, m>>
        BY <1>0, <2>2
      <3>2. PICK g2, j2, m2 : t = <<g2, j2, m2>>
        BY <1>0, <2>2
      <3>3. /\ m \in Nat /\ m2 \in Nat
            /\ M[s] = <<g, j, IF g = h /\ j = i /\ m >= k THEN m + 1 ELSE m>>
            /\ M[t] = <<g2, j2, IF g2 = h /\ j2 = i /\ m2 >= k THEN m2 + 1 ELSE m2>>
        BY <1>0, <2>2, <2>3, <2>5, <3>1, <3>2
      <3>4. /\ g = g2 /\ j = j2
            /\ (IF g = h /\ j = i /\ m >= k THEN m + 1 ELSE m) =
                 IF g2 = h /\ j2 = i /\ m2 >= k THEN m2 + 1 ELSE m2
        <4>1. PICK c, c2 : /\ c = (IF g = h /\ j = i /\ m >= k THEN m + 1 ELSE m)
                           /\ c2 = (IF g2 = h /\ j2 = i /\ m2 >= k THEN m2 + 1 ELSE m2)
          OBVIOUS
        <4>2. <<g, j, c>> = <<g2, j2, c2>>
          BY <1>0, <2>8, <3>3, <4>1
        <4> QED
          BY ONLY <4>1, <4>2, Triples
      <3>5. CASE g = h /\ j = i
        <4>1. (IF m >= k THEN m + 1 ELSE m) = (IF m2 >= k THEN m2 + 1 ELSE m2)
          BY <1>0, <3>4, <3>5
        <4>2. m = m2
          BY <1>0, <1>2, <3>3, <4>1
        <4> QED
          BY <1>0, <3>1, <3>2, <3>4, <4>2
      <3>6. CASE ~(g = h /\ j = i)
        BY <1>0, <3>1, <3>2, <3>4, <3>6
      <3> QED
        BY <1>0, <3>5, <3>6
    <2>9. ASSUME NEW t \in T PROVE \E s \in S : M[s] = t
      <3>1. PICK g, j, m : t = <<g, j, m>>
        BY <1>0, <2>2
      <3>2. At(q, f, p, g, j, m) /\ ~(g = h /\ j = i /\ m = k) /\ m \in Nat
        BY <1>0, <2>2, <2>3, <3>1
      <3>3. CASE g # h \/ j # i
        <4>1. <<g, j, m>> \in S
          BY <1>0, <2>2, <3>2, <3>3, AtSame
        <4> QED
          BY <1>0, <2>5, <3>1, <3>3, <4>1
      <3>4. CASE g = h /\ j = i /\ m < k
        <4>1. <<g, j, m>> \in S /\ ~(m >= k)
          BY <1>0, <1>2, <1>6, <2>2, <3>2, <3>4
        <4> QED
          BY <1>0, <2>5, <3>1, <4>1
      <3>5. CASE g = h /\ j = i /\ m > k
        <4>1. PICK n \in Nat : n + 1 = m /\ n >= k
          <5>1. m - 1 \in Nat /\ m - 1 + 1 = m /\ m - 1 >= k
            BY <1>0, <1>2, <3>2, <3>5
          <5> QED
            BY <1>0, <5>1
        <4>2. <<h, i, n>> \in S
          BY <1>0, <1>6, <2>2, <3>2, <3>5, <4>1
        <4>3. M[<<h, i, n>>] = <<h, i, m>>
          BY <1>0, <2>5, <4>1, <4>2
        <4> QED
          BY <1>0, <3>1, <3>5, <4>2, <4>3
      <3> QED
        BY <1>0, <1>2, <3>2, <3>3, <3>4, <3>5
    <2>10. IsFiniteSet(S)
      BY <1>0, <2>1, InQueuesFacts
    <2> QED
      BY <1>0, <2>1, <2>7, <2>8, <2>9, <2>10, SameSize
  <1>8. ASSUME NEW p
        PROVE  Copies(InQueues(q, f), p) =
                 Copies(InQueues(r, f), p) + IF f = x.flow /\ p = x.pkt THEN 1 ELSE 0
    <2>1. /\ IsFiniteSet(Spots(q, f, p)) /\ Copies(InQueues(q, f), p) = Cardinality(Spots(q, f, p))
          /\ Copies(InQueues(r, f), p) = Cardinality(Spots(r, f, p))
      BY <1>0, InQueuesFacts
    <2>2. Cardinality(Spots(q, f, p)) \in Nat
      BY <1>0, <2>1, FS_CardinalityType
    <2>3. <<h, i, k>> \in Spots(q, f, p) <=> f = x.flow /\ p = x.pkt
      <3>1. <<h, i, k>> \in Spots(q, f, p) <=> At(q, f, p, h, i, k)
        BY <1>0, SpotsAre
      <3>2. old[k] = x
        BY <1>0, <1>1
      <3>3. At(q, f, p, h, i, k) <=> k \in 1 .. Len(old) /\ old[k].flow = f /\ old[k].pkt = p
        BY <1>0, <1>1 DEF At
      <3> QED
        BY <1>0, <1>2, <3>1, <3>2, <3>3
    <2>4. <<h, i, k>> \in Spots(q, f, p) =>
             Cardinality(Spots(q, f, p) \ {<<h, i, k>>}) = Cardinality(Spots(q, f, p)) - 1
      BY <1>0, <2>1, FS_RemoveElement
    <2>5. <<h, i, k>> \notin Spots(q, f, p) => Spots(q, f, p) \ {<<h, i, k>>} = Spots(q, f, p)
      OBVIOUS
    <2>6. CASE f = x.flow /\ p = x.pkt
      <3>1. Cardinality(Spots(r, f, p)) = Cardinality(Spots(q, f, p)) - 1
        BY <1>0, <1>7, <2>3, <2>4, <2>6
      <3> QED
        BY <1>0, <2>1, <2>2, <2>6, <3>1
    <2>7. CASE ~(f = x.flow /\ p = x.pkt)
      <3>1. Cardinality(Spots(r, f, p)) = Cardinality(Spots(q, f, p))
        BY <1>0, <1>7, <2>3, <2>5, <2>7
      <3> QED
        BY <1>0, <2>1, <2>2, <2>7, <3>1
    <2> QED
      BY <1>0, <2>6, <2>7
  <1>9. IsBag(InQueues(r, f)) /\ IsBag(InQueues(q, f))
    BY <1>0, InQueuesFacts
  <1>10. CASE f = x.flow
    BY <1>0, <1>8, <1>9, <1>10 DEF OneMore
  <1>11. CASE f # x.flow
    <2>1. ASSUME NEW p PROVE Copies(InQueues(r, f), p) = Copies(InQueues(q, f), p)
      <3>1. Copies(InQueues(r, f), p) \in Nat
        BY <1>0, <1>9, CopiesFacts
      <3> QED
        BY <1>0, <1>8, <1>11, <3>1
    <2>2. InQueues(r, f) = InQueues(q, f)
      BY <1>0, <1>9, <2>1, SameBag
    <2> QED
      BY <1>0, <1>11, <2>2
  <1> QED
    BY <1>0, <1>10, <1>11

\* What the constants and the configuration are.
LEMMA ConfigFacts ==
  ASSUME config \in Configs
  PROVE  /\ Users \subseteq Flows /\ Flows \subseteq Nat /\ 1 \in Paths /\ Word - 1 \in Nat
         /\ \A f \in Users : Src(f) \in Host /\ Other(Src(f)) \in Host /\ Other(Src(f)) # Src(f)
  <1>1. /\ config.users \in Seq([class : FlowClass, size : Nat \ {0}, src : Host])
        /\ Len(config.users) \in 1 .. NumFlows /\ NumFlows \in Nat /\ Word \in Nat \ {0}
        /\ config.paths \in Nat \ {0}
    BY ConfigAssumption DEF Flows
  <1>2. Users \subseteq Flows /\ Flows \subseteq Nat /\ 1 \in Paths /\ Word - 1 \in Nat
    BY <1>1 DEF Users, Flows, Paths
  <1>3. \A f \in Users : Src(f) \in Host
    <2> SUFFICES ASSUME NEW f \in Users PROVE Src(f) \in Host
      OBVIOUS
    <2>1. f \in 1 .. Len(config.users)
      BY <1>1 DEF Users
    <2>2. PICK K : K = [class : FlowClass, size : Nat \ {0}, src : Host]
      OBVIOUS
    <2>3. config.users \in Seq(K)
      BY <1>1, <2>2
    <2>4. config.users[f] \in K
      BY <2>1, <2>3
    <2> QED
      BY <2>2, <2>4 DEF Src
  <1>4. \A h \in Host : Other(h) \in Host /\ Other(h) # h
    BY DEF Other, Host
  <1> QED
    BY <1>2, <1>3, <1>4

\* Which packet is dropped, and which is sent.
LEMMA PriorityFacts ==
  ASSUME config \in Configs, NEW s \in Seq(QueuedPacket), s # <<>>
  PROVE  /\ Worst(s) \in 1 .. Len(s) /\ Best(s) \in 1 .. Len(s) /\ BestPacket(s) \in 1 .. Len(s)
         /\ Out(s) \in 1 .. Len(s)
         /\ \A n \in 1 .. Len(s) : s[n].pf_priority <= s[Worst(s)].pf_priority
         /\ \A n \in 1 .. Len(s) : s[BestPacket(s)].pf_priority <= s[n].pf_priority
         /\ s[Best(s)].flow = s[BestPacket(s)].flow
         /\ \A n \in 1 .. Len(s) : s[n].flow = s[Best(s)].flow => Best(s) <= n
  <1>1. PICK len : len = Len(s)
    OBVIOUS
  <1>2. /\ len \in Nat /\ len >= 1 /\ DOMAIN s = 1 .. len /\ Word - 1 \in Nat
        /\ \A n \in 1 .. len : s[n].pf_priority \in 0 .. Word - 1
    <2>1. \A n \in 1 .. len : s[n] \in QueuedPacket
      BY <1>1
    <2>2. Word - 1 \in Nat
      BY ConfigFacts
    <2>3. len \in Nat /\ len >= 1 /\ DOMAIN s = 1 .. len
      BY <1>1
    <2> QED
      BY <2>1, <2>2, <2>3 DEF QueuedPacket
  <1>3. PICK P : P = Priorities(s)
    OBVIOUS
  <1>4. P \subseteq 0 .. Word - 1 /\ P \subseteq Nat /\ P # {} /\ \A n \in 1 .. len : s[n].pf_priority \in P
    BY <1>2, <1>3 DEF Priorities
  <1>5. /\ Max(P) \in P /\ \A p \in P : p <= Max(P)
        /\ Min(P) \in P /\ \A p \in P : Min(P) <= p
    BY <1>2, <1>4, MaxFacts, MinFacts
  <1>6. PICK W : W = {n \in DOMAIN s : s[n].pf_priority = Max(P)}
    OBVIOUS
  <1>7. W \subseteq 0 .. len /\ W # {}
    <2>1. PICK m \in DOMAIN s : s[m].pf_priority = Max(P)
      BY <1>3, <1>5 DEF Priorities
    <2>2. W \subseteq 1 .. len /\ m \in W
      BY <1>2, <1>6, <2>1
    <2> QED
      BY <1>2, <2>2
  <1>8. Max(W) \in W
    BY <1>2, <1>7, MaxFacts
  <1>9. Worst(s) = Max(W)
    BY <1>3, <1>6 DEF Worst
  <1>10. PICK B : B = {n \in DOMAIN s : s[n].pf_priority = Min(P)}
    OBVIOUS
  <1>11. B \subseteq Nat /\ B # {}
    <2>1. PICK m \in DOMAIN s : s[m].pf_priority = Min(P)
      BY <1>3, <1>5 DEF Priorities
    <2>2. B \subseteq 1 .. len /\ m \in B
      BY <1>2, <1>10, <2>1
    <2> QED
      BY <1>2, <2>2
  <1>12. Min(B) \in B
    BY <1>11, MinFacts
  <1>13. BestPacket(s) = Min(B)
    BY <1>3, <1>10 DEF BestPacket
  <1>14. PICK C : C = {n \in DOMAIN s : s[n].flow = s[BestPacket(s)].flow}
    OBVIOUS
  <1>15. C \subseteq Nat /\ C # {}
    <2>1. C \subseteq 1 .. len /\ BestPacket(s) \in C
      BY <1>2, <1>10, <1>12, <1>13, <1>14
    <2> QED
      BY <1>2, <2>1
  <1>16. Min(C) \in C /\ \A n \in C : Min(C) <= n
    BY <1>15, MinFacts
  <1>17. Best(s) = Min(C)
    BY <1>14 DEF Best
  <1>18. /\ Worst(s) \in 1 .. len /\ \A n \in 1 .. len : s[n].pf_priority <= s[Worst(s)].pf_priority
    BY <1>2, <1>4, <1>5, <1>6, <1>8, <1>9
  <1>19. /\ BestPacket(s) \in 1 .. len
         /\ \A n \in 1 .. len : s[BestPacket(s)].pf_priority <= s[n].pf_priority
    BY <1>2, <1>4, <1>5, <1>10, <1>12, <1>13
  <1>20. /\ Best(s) \in 1 .. len /\ s[Best(s)].flow = s[BestPacket(s)].flow
         /\ \A n \in 1 .. len : s[n].flow = s[Best(s)].flow => Best(s) <= n
    BY <1>2, <1>14, <1>16, <1>17
  <1>21. Out(s) \in 1 .. len
    BY <1>2, <1>20 DEF Out
  <1> QED
    BY <1>1, <1>18, <1>19, <1>20, <1>21

\* The types of packets.
LEMMA PacketTypes ==
  ASSUME config \in Configs, NEW x \in QueuedPacket
  PROVE  /\ x.flow \in Users /\ x.flow \in Flows /\ x.pkt \in AnyPacket
         /\ x.pkt.type \in {"DATA", "ACK", "RTS", "CTS"} /\ Sender(x.flow, x.pkt) \in Host
  <1>1. x.flow \in Users /\ x.pkt \in AnyPacket
    BY DEF QueuedPacket
  <1>2. x.pkt.type \in {"DATA", "ACK", "RTS", "CTS"}
    BY <1>1 DEF AnyPacket, RtsPkt, CtsPkt
  <1> QED
    BY <1>1, <1>2, ConfigFacts DEF Sender

\* A packet comes into a queue: it is under way, unless it is the one that is dropped.
LEMMA EnqueFacts ==
  ASSUME config \in Configs, NEW n, n.queue \in Queues, n.lost \in Losses,
         NEW x \in QueuedPacket, NEW i \in Paths
  PROVE  /\ Enque(n, x, i).queue \in Queues /\ Enque(n, x, i).lost \in Losses
         /\ \A f \in Flows : \A all, all2, l :
              /\ Carried(all, InQueues(n.queue, f), l, n.lost[f]) /\ IsBag(all)
              /\ IF f = x.flow THEN OneMore(all2, all, x.pkt) ELSE all2 = all
              => Carried(all2, InQueues(Enque(n, x, i).queue, f), l, Enque(n, x, i).lost[f])
  <1>1. PICK h, q, e : h = Sender(x.flow, x.pkt) /\ q = Append(n.queue[h][i], x) /\ e = Enque(n, x, i)
    OBVIOUS
  <1>2. PICK old \in Queues, gone \in Losses : old = n.queue /\ gone = n.lost
    OBVIOUS
  <1>3. h \in Host /\ x.flow \in Flows
    BY <1>1, PacketTypes
  <1>4. old[h][i] \in Seq(QueuedPacket) /\ q = Append(old[h][i], x)
    BY <1>1, <1>2, <1>3, QueueTypes
  <1>5. q \in Seq(QueuedPacket) /\ q # <<>>
    BY <1>4
  <1>6. PICK mid : mid = Put(old, h, i, q)
    OBVIOUS
  <1>7. mid \in Queues /\ mid[h][i] = q /\ ElseSame(old, mid, h, i)
    BY <1>3, <1>5, <1>6, QueueChanged
  <1>8. mid[h][i] = Append(old[h][i], x)
    BY <1>4, <1>7
  <1>9. ASSUME NEW f
        PROVE  /\ f = x.flow => OneMore(InQueues(mid, f), InQueues(old, f), x.pkt)
               /\ f # x.flow => InQueues(mid, f) = InQueues(old, f)
    <2>1. Appended(old, h, i, x, mid)
      BY <1>3, <1>7, <1>8 DEF Appended
    <2> QED
      BY <2>1, AppendFacts
  <1>10. ASSUME NEW f \in Flows, NEW all, NEW all2, NEW l, IsBag(all),
               Carried(all, InQueues(old, f), l, gone[f]),
               IF f = x.flow THEN OneMore(all2, all, x.pkt) ELSE all2 = all
        PROVE  Carried(all2, InQueues(mid, f), l, gone[f]) /\ IsBag(all2)
    <2>1. CASE f = x.flow
      <3>1. OneMore(InQueues(mid, f), InQueues(old, f), x.pkt) /\ OneMore(all2, all, x.pkt)
        BY <1>9, <1>10, <2>1
      <3>2. IsBag(all2)
        BY <3>1 DEF OneMore
      <3> QED
        BY <1>10, <3>1, <3>2, CarriedMore
    <2>2. CASE f # x.flow
      <3>1. all2 = all /\ InQueues(mid, f) = InQueues(old, f)
        BY <1>9, <1>10, <2>2
      <3> QED
        BY <1>10, <3>1
    <2> QED
      BY <2>1, <2>2
  <1>11. CASE ~(Ranked /\ BytesInQueue(q) > LimitBytes)
    <2>1. e.queue = mid /\ e.lost = gone
      BY <1>1, <1>2, <1>6, <1>11 DEF Enque, Put
    <2> QED
      BY <1>1, <1>2, <1>7, <1>10, <2>1
  <1>12. CASE Ranked /\ BytesInQueue(q) > LimitBytes
    <2>1. PICK k, y : k = Worst(q) /\ y = q[k]
      OBVIOUS
    <2>2. k \in 1 .. Len(q)
      BY <1>5, <2>1, PriorityFacts
    <2>3. y \in QueuedPacket
      BY <1>5, <2>1, <2>2
    <2>4. y.flow \in Flows /\ y.pkt.type \in {"DATA", "ACK", "RTS", "CTS"}
      BY <2>3, PacketTypes
    <2>5. PICK s, r : s = Removed(q, k) /\ r = Put(old, h, i, s)
      OBVIOUS
    <2>6. s \in Seq(QueuedPacket)
      BY <1>5, <2>2, <2>5, RemovedIs
    <2>7. r \in Queues /\ r[h][i] = s /\ ElseSame(old, r, h, i)
      BY <1>3, <2>5, <2>6, QueueChanged
    <2>8. ElseSame(mid, r, h, i)
      BY <1>7, <2>7 DEF ElseSame
    <2>9. k \in 1 .. Len(mid[h][i]) /\ r[h][i] = Removed(mid[h][i], k) /\ y = mid[h][i][k]
      BY <1>7, <2>1, <2>2, <2>5, <2>7
    <2>10. ASSUME NEW f
           PROVE  /\ f = y.flow => OneMore(InQueues(mid, f), InQueues(r, f), y.pkt)
                  /\ f # y.flow => InQueues(r, f) = InQueues(mid, f)
      <3>1. TakenOut(mid, h, i, k, y, r)
        BY <1>3, <1>7, <2>7, <2>8, <2>9 DEF TakenOut
      <3> QED
        BY <3>1, RemovedFacts
    <2>11. e.queue = r /\ e.lost = [gone EXCEPT ![y.flow] = @ \union {y.pkt.type}]
      BY <1>1, <1>2, <1>12, <2>1, <2>5 DEF Enque, Put
    <2>12. /\ e.lost \in Losses /\ e.lost[y.flow] = gone[y.flow] \union {y.pkt.type}
           /\ \A f \in Flows : f # y.flow => e.lost[f] = gone[f]
      BY <2>4, <2>11 DEF Losses
    <2>13. ASSUME NEW f \in Flows, NEW all, NEW l, Carried(all, InQueues(mid, f), l, gone[f]), IsBag(all)
           PROVE  Carried(all, InQueues(r, f), l, e.lost[f])
      <3>1. CASE f = y.flow
        <4>1. IsBag(InQueues(r, f)) /\ OneMore(InQueues(mid, f), InQueues(r, f), y.pkt)
          BY <2>7, <2>10, <3>1, InQueuesFacts
        <4>2. Carried(all, InQueues(r, f), l, gone[f] \union {y.pkt.type})
          BY <2>13, <4>1, CarriedLess
        <4> QED
          BY <2>12, <3>1, <4>2
      <3>2. CASE f # y.flow
        <4>1. InQueues(r, f) = InQueues(mid, f) /\ e.lost[f] = gone[f]
          BY <2>10, <2>12, <3>2
        <4> QED
          BY <2>13, <4>1
      <3> QED
        BY <3>1, <3>2
    <2> QED
      BY <1>1, <1>2, <1>10, <2>7, <2>11, <2>12, <2>13
  <1> QED
    BY <1>11, <1>12

(***************************************************************************)
(* Sets of packets put in the queues: the function that Enqueued defines.  *)
(***************************************************************************)

\* Packet x is put in one of the queues of its host, after n.
Entered(N, x) == {Enque(n, x, i) : n \in N, i \in Paths}

\* What the packets of T may become, if d has what those of smaller sets may.
Step(d, rest, T) ==
  IF T = {} THEN {[queue |-> rest, lost |-> lost]}
  ELSE UNION {Entered(d[T \ {x}], x) : x \in T}

\* The function that Enqueued defines.
Outcomes(d, S, rest) == d = [T \in SUBSET S |-> Step(d, rest, T)]

\* Enqueued is the value of that function at S.
LEMMA EnqueuedIsChosen ==
  ASSUME NEW S, NEW rest
  PROVE  Enqueued(S, rest) = (CHOOSE d : Outcomes(d, S, rest))[S]
  BY DEF Enqueued, Outcomes, Step, Entered

\* Step looks at the sets that lack an element.
LEMMA StepSame ==
  ASSUME NEW d, NEW e, NEW rest, NEW T, \A x \in T : d[T \ {x}] = e[T \ {x}]
  PROVE  Step(d, rest, T) = Step(e, rest, T)
  <1>1. \A x \in T : Entered(d[T \ {x}], x) = Entered(e[T \ {x}], x)
    OBVIOUS
  <1> QED
    BY <1>1 DEF Step

\* There is one such function.
LEMMA OutcomesExist ==
  ASSUME NEW S, IsFiniteSet(S), NEW rest
  PROVE  \E d : Outcomes(d, S, rest)
  <1> DEFINE Upto(n) == {T \in SUBSET S : Cardinality(T) <= n}
             Good(d, n) == d = [T \in Upto(n) |-> Step(d, rest, T)]
             N == {n \in Nat : \E d : Good(d, n)}
  <1>1. \A T \in SUBSET S : IsFiniteSet(T) /\ Cardinality(T) \in Nat
    BY FS_Subset, FS_CardinalityType
  <1>2. ASSUME NEW n \in Nat, NEW T \in Upto(n + 1), NEW x \in T PROVE T \ {x} \in Upto(n)
    <2>1. Cardinality(T \ {x}) = Cardinality(T) - 1
      BY <1>1, FS_RemoveElement
    <2> QED
      BY <1>1, <2>1
  <1>3. 0 \in N
    <2>1. \A T \in Upto(0) : T = {}
      BY <1>1, FS_EmptySet
    <2>2. PICK d : d = [T \in Upto(0) |-> Step({}, rest, T)]
      OBVIOUS
    <2>3. \A T \in Upto(0) : Step({}, rest, T) = Step(d, rest, T)
      BY <2>1 DEF Step
    <2>4. [T \in Upto(0) |-> Step({}, rest, T)] = [T \in Upto(0) |-> Step(d, rest, T)]
      BY <2>3
    <2>5. Good(d, 0)
      BY <2>2, <2>4
    <2> HIDE DEF Good
    <2> QED
      BY <2>5
  <1>4. ASSUME NEW n \in Nat, n \in N PROVE n + 1 \in N
    <2>1. PICK d : Good(d, n)
      BY <1>4
    <2>2. PICK e : e = [T \in Upto(n + 1) |-> Step(d, rest, T)]
      OBVIOUS
    <2>3. Upto(n) \subseteq Upto(n + 1)
      BY <1>1
    <2>4. \A T \in Upto(n) : e[T] = d[T]
      <3>1. \A T \in Upto(n) : d[T] = Step(d, rest, T)
        BY <2>1
      <3>2. \A T \in Upto(n) : e[T] = Step(d, rest, T)
        BY <2>2, <2>3
      <3> QED
        BY <3>1, <3>2
    <2>5. ASSUME NEW T \in Upto(n + 1) PROVE Step(d, rest, T) = Step(e, rest, T)
      <3> HIDE DEF Upto
      <3>1. \A x \in T : d[T \ {x}] = e[T \ {x}]
        BY <1>2, <2>4
      <3> QED
        BY <3>1, StepSame
    <2>6. [T \in Upto(n + 1) |-> Step(d, rest, T)] = [T \in Upto(n + 1) |-> Step(e, rest, T)]
      <3> HIDE DEF Upto
      <3> QED
        BY <2>5
    <2>7. Good(e, n + 1)
      BY <2>2, <2>6
    <2> HIDE DEF Good
    <2> QED
      BY <2>7
  <1> HIDE DEF N
  <1>5. Cardinality(S) \in N
    BY <1>1, <1>3, <1>4, EveryNatural
  <1>6. Upto(Cardinality(S)) = SUBSET S
    <2>1. \A T \in SUBSET S : Cardinality(T) <= Cardinality(S)
      BY FS_Subset
    <2> QED
      BY <2>1
  <1>7. PICK d : Good(d, Cardinality(S))
    BY <1>5 DEF N
  <1> HIDE DEF Upto
  <1> QED
    BY <1>6, <1>7 DEF Outcomes

\* So what is enqueued is what the recursion says.
LEMMA EnqueuedFacts ==
  ASSUME NEW S, IsFiniteSet(S), NEW rest
  PROVE  \E d : /\ Enqueued(S, rest) = d[S]
                /\ \A T \in SUBSET S : d[T] = Step(d, rest, T)
  <1>1. PICK d : d = CHOOSE e : Outcomes(e, S, rest)
    OBVIOUS
  <1>2. Outcomes(d, S, rest)
    BY <1>1, OutcomesExist
  <1>3. Enqueued(S, rest) = d[S]
    BY <1>1, EnqueuedIsChosen
  <1> QED
    BY <1>2, <1>3 DEF Outcomes

(***************************************************************************)
(* What the network makes of the packets that a handler sends.             *)
(***************************************************************************)

\* The packets of records.
PacketsOf(T) == {x.pkt : x \in T}

\* What is to be carried of flow g when flow f sends the packets of T.
Offered(g, f, T, rest) ==
  IF g = f THEN With(InQueues(rest, g), PacketsOf(T)) ELSE InQueues(rest, g)

\* The queues and losses n are what a network may make of it.
Delivered(n, f, T, rest) ==
  /\ n.queue \in Queues /\ n.lost \in Losses
  /\ \A g \in Flows : Carried(Offered(g, f, T, rest), InQueues(n.queue, g), lost[g], n.lost[g])

\* Records of packets of one flow, no two of the same packet.
Records(S, f) ==
  /\ S \subseteq QueuedPacket /\ \A x \in S : x.flow = f
  /\ \A x, y \in S : x.pkt = y.pkt => x = y

\* A record more is a packet more to be carried.
LEMMA OfferedFacts ==
  ASSUME config \in Configs, NEW rest \in Queues, NEW T, NEW f, Records(T, f),
         NEW y \in T, NEW U, U = T \ {y}, NEW g
  PROVE  /\ IsBag(Offered(g, f, T, rest)) /\ IsBag(Offered(g, f, U, rest))
         /\ g = f => OneMore(Offered(g, f, T, rest), Offered(g, f, U, rest), y.pkt)
         /\ g # f => Offered(g, f, T, rest) = Offered(g, f, U, rest)
  <1>1. PICK B, P, Q : B = InQueues(rest, g) /\ P = PacketsOf(T) /\ Q = PacketsOf(U)
    OBVIOUS
  <1>2. IsBag(B)
    BY <1>1, InQueuesFacts
  <1>3. /\ IsBag(With(B, P)) /\ \A p : Copies(With(B, P), p) = Copies(B, p) + IF p \in P THEN 1 ELSE 0
        /\ IsBag(With(B, Q)) /\ \A p : Copies(With(B, Q), p) = Copies(B, p) + IF p \in Q THEN 1 ELSE 0
    BY <1>2, WithFacts
  <1>4. \A p : Copies(B, p) \in Nat
    BY <1>2, CopiesFacts
  <1>5. y.pkt \notin Q /\ \A p : p \in P <=> p \in Q \/ p = y.pkt
    BY <1>1 DEF PacketsOf, Records
  <1>6. OneMore(With(B, P), With(B, Q), y.pkt)
    <2>1. ASSUME NEW p
          PROVE  Copies(With(B, P), p) = Copies(With(B, Q), p) + IF p = y.pkt THEN 1 ELSE 0
      <3>1. CASE p = y.pkt
        <4>1. p \in P /\ p \notin Q
          BY <1>5, <3>1
        <4> QED
          BY <1>3, <1>4, <3>1, <4>1
      <3>2. CASE p # y.pkt
        <4>1. p \in P <=> p \in Q
          BY <1>5, <3>2
        <4> QED
          BY <1>3, <1>4, <3>2, <4>1
      <3> QED
        BY <3>1, <3>2
    <2> QED
      BY <1>3, <2>1 DEF OneMore
  <1>7. CASE g = f
    BY <1>1, <1>3, <1>6, <1>7 DEF Offered
  <1>8. CASE g # f
    BY <1>1, <1>2, <1>8 DEF Offered
  <1> QED
    BY <1>7, <1>8

\* In whatever order the packets come into the queues, they are delivered later, or lost.
LEMMA OutcomeFacts ==
  ASSUME config \in Configs, NEW S, IsFiniteSet(S), NEW f \in Flows, Records(S, f),
         NEW rest \in Queues, lost \in Losses, NEW n \in Enqueued(S, rest)
  PROVE  Delivered(n, f, S, rest)
  <1>1. PICK d : /\ Enqueued(S, rest) = d[S]
                 /\ \A T \in SUBSET S : d[T] = Step(d, rest, T)
    BY EnqueuedFacts
  <1> DEFINE N == {c \in Nat : \A T \in SUBSET S : Cardinality(T) = c =>
                                 \A m \in d[T] : Delivered(m, f, T, rest)}
  <1>2. \A T \in SUBSET S : IsFiniteSet(T) /\ Cardinality(T) \in Nat
    BY FS_Subset, FS_CardinalityType
  <1>3. 0 \in N
    <2> SUFFICES ASSUME NEW T \in SUBSET S, Cardinality(T) = 0, NEW m \in d[T]
                 PROVE  Delivered(m, f, T, rest)
      OBVIOUS
    <2>1. T = {}
      BY <1>2, FS_EmptySet
    <2>2. m = [queue |-> rest, lost |-> lost]
      BY <1>1, <2>1 DEF Step
    <2>3. PacketsOf(T) = {}
      BY <2>1 DEF PacketsOf
    <2>4. ASSUME NEW g \in Flows
          PROVE  Carried(Offered(g, f, T, rest), InQueues(rest, g), lost[g], lost[g])
      <3>1. PICK B : B = InQueues(rest, g)
        OBVIOUS
      <3>2. IsBag(B)
        BY <3>1, InQueuesFacts
      <3>3. Offered(g, f, T, rest) = B
        <4>1. IsBag(With(B, {}))
          BY <3>2, WithFacts
        <4>2. ASSUME NEW p PROVE Copies(With(B, {}), p) = Copies(B, p)
          <5>1. Copies(With(B, {}), p) = Copies(B, p) + 0 /\ Copies(B, p) \in Nat
            BY <3>2, WithFacts, CopiesFacts
          <5> QED
            BY <5>1
        <4>3. With(B, {}) = B
          BY <3>2, <4>1, <4>2, SameBag
        <4> QED
          BY <2>3, <3>1, <4>3 DEF Offered
      <3> QED
        BY <3>1, <3>2, <3>3, CarriedAll
    <2> QED
      BY <2>2, <2>4 DEF Delivered
  <1>4. ASSUME NEW c \in Nat, c \in N PROVE c + 1 \in N
    <2> SUFFICES ASSUME NEW T \in SUBSET S, Cardinality(T) = c + 1, NEW m \in d[T]
                 PROVE  Delivered(m, f, T, rest)
      OBVIOUS
    <2>1. T # {}
      BY <1>2, FS_EmptySet
    <2>2. PICK y \in T : m \in Entered(d[T \ {y}], y)
      <3>1. m \in Step(d, rest, T)
        BY <1>1
      <3>2. Step(d, rest, T) = UNION {Entered(d[T \ {x}], x) : x \in T}
        BY <2>1 DEF Step
      <3> QED
        BY <3>1, <3>2
    <2>3. PICK o \in d[T \ {y}], i \in Paths : m = Enque(o, y, i)
      <3>1. PICK O : O = d[T \ {y}]
        OBVIOUS
      <3>2. m \in Entered(O, y)
        BY <2>2, <3>1
      <3>3. \E o \in O, i \in Paths : m = Enque(o, y, i)
        BY <3>2 DEF Entered
      <3> QED
        BY <3>1, <3>3
    <2>4. Cardinality(T \ {y}) = c /\ T \ {y} \in SUBSET S
      BY <1>2, OneLess
    <2>5. Delivered(o, f, T \ {y}, rest)
      BY <1>4, <2>3, <2>4
    <2>6. y \in QueuedPacket /\ y.flow = f
      BY DEF Records
    <2>7. o.queue \in Queues /\ o.lost \in Losses
      BY <2>5 DEF Delivered
    <2>8. /\ m.queue \in Queues /\ m.lost \in Losses
          /\ \A g \in Flows : \A all, all2, l :
               /\ Carried(all, InQueues(o.queue, g), l, o.lost[g]) /\ IsBag(all)
               /\ IF g = y.flow THEN OneMore(all2, all, y.pkt) ELSE all2 = all
               => Carried(all2, InQueues(m.queue, g), l, m.lost[g])
      BY <2>3, <2>6, <2>7, EnqueFacts
    <2>9. ASSUME NEW g \in Flows
          PROVE  Carried(Offered(g, f, T, rest), InQueues(m.queue, g), lost[g], m.lost[g])
      <3>1. Carried(Offered(g, f, T \ {y}, rest), InQueues(o.queue, g), lost[g], o.lost[g])
        BY <2>5 DEF Delivered
      <3>2. /\ IsBag(Offered(g, f, T \ {y}, rest))
            /\ g = f => OneMore(Offered(g, f, T, rest), Offered(g, f, T \ {y}, rest), y.pkt)
            /\ g # f => Offered(g, f, T, rest) = Offered(g, f, T \ {y}, rest)
        <4>1. Records(T, f)
          BY DEF Records
        <4>2. PICK U : U = T \ {y}
          OBVIOUS
        <4>3. /\ IsBag(Offered(g, f, U, rest))
              /\ g = f => OneMore(Offered(g, f, T, rest), Offered(g, f, U, rest), y.pkt)
              /\ g # f => Offered(g, f, T, rest) = Offered(g, f, U, rest)
          BY <4>1, <4>2, OfferedFacts
        <4> QED
          BY <4>2, <4>3
      <3>3. IF g = y.flow
            THEN OneMore(Offered(g, f, T, rest), Offered(g, f, T \ {y}, rest), y.pkt)
            ELSE Offered(g, f, T, rest) = Offered(g, f, T \ {y}, rest)
        BY <2>6, <3>2
      <3> QED
        BY <2>8, <3>1, <3>2, <3>3
    <2> QED
      BY <2>8, <2>9 DEF Delivered
  <1> HIDE DEF N
  <1>5. Cardinality(S) \in N
    BY <1>2, <1>3, <1>4, EveryNatural
  <1> QED
    BY <1>1, <1>5 DEF N

\* The packets of a flow are finitely many.
LEMMA PacketsFinite ==
  ASSUME NEW f, NEW n, NEW l, FlowInv(f, n, l)
  PROVE  IsFiniteSet(DOMAIN n) /\ DOMAIN n \subseteq AnyPacket
  <1>1. f \in FlowState
    BY DEF FlowInv
  <1>2. PICK S, A, C : S = Seqs(f) /\ A = AckNumbers(f) /\ C = 0 .. Cardinality(S)
    OBVIOUS
  <1>3. IsFiniteSet(S) /\ S \subseteq Nat /\ A \subseteq Nat /\ Cardinality(S) \in Nat
    BY <1>1, <1>2, SeqsFacts, AckFacts
  <1>4. IsFiniteSet(A) /\ IsFiniteSet(C)
    <2>1. A = (S \union {f.size}) \union {End(f)}
      BY <1>2 DEF AckNumbers
    <2>2. IsFiniteSet(S \union {f.size})
      BY ONLY <1>3, FS_AddElement
    <2>3. IsFiniteSet((S \union {f.size}) \union {End(f)})
      BY ONLY <2>2, FS_AddElement
    <2>4. 0 \in Int /\ Cardinality(S) \in Int
      BY <1>3
    <2>5. IsFiniteSet(0 .. Cardinality(S))
      BY ONLY <2>4, FS_Interval
    <2> QED
      BY <1>2, <2>1, <2>3, <2>5
  <1>5. PICK D, E : /\ D = [s \in S |-> DataPkt(s)]
                    /\ E = [e \in A \X C |-> AckPkt(e[1], e[2])]
    OBVIOUS
  <1>6. PICK I, J : I = {D[s] : s \in S} /\ J = {E[e] : e \in A \X C}
    OBVIOUS
  <1>7. IsFiniteSet(I) /\ IsFiniteSet(J)
    <2>1. IsFiniteSet(A \X C)
      BY <1>4, FS_Product
    <2> QED
      BY <1>3, <1>6, <2>1, ImageFinite
  <1>8. IsFiniteSet({RtsPkt}) /\ IsFiniteSet({RtsPkt} \union {CtsPkt})
    BY FS_Singleton, FS_AddElement
  <1>9. IsFiniteSet((I \union J) \union ({RtsPkt} \union {CtsPkt}))
    BY <1>7, <1>8, FS_Union
  <1>10. ASSUME NEW m, OpenPacket(f, m) PROVE m \in I \union J /\ m \in AnyPacket
    <2>1. CASE \E s \in Seqs(f) : m = DataPkt(s)
      <3>1. PICK s \in S : m = DataPkt(s)
        BY <1>2, <2>1
      <3>2. m = D[s] /\ s \in Nat
        BY <1>3, <1>5, <3>1
      <3> QED
        BY <1>6, <3>1, <3>2 DEF AnyPacket, DataPkt
    <2>2. CASE \E a \in AckNumbers(f), c \in 0 .. Cardinality(Seqs(f)) : m = AckPkt(a, c)
      <3>1. PICK a \in A, c \in C : m = AckPkt(a, c)
        BY <1>2, <2>2
      <3>2. m = E[<<a, c>>] /\ <<a, c>> \in A \X C /\ a \in Nat /\ c \in Nat
        BY <1>2, <1>3, <1>5, <3>1
      <3> QED
        BY <1>6, <3>1, <3>2 DEF AnyPacket, AckPkt
    <2> QED
      BY <1>10, <2>1, <2>2 DEF OpenPacket
  <1>11. RtsPkt \in AnyPacket /\ CtsPkt \in AnyPacket
    BY DEF AnyPacket
  <1>12. \A m \in DOMAIN n : OpenPacket(f, m) \/ m = RtsPkt \/ m = CtsPkt
    <2>1. CASE Starting(f, n, l)
      BY <2>1, StartingFacts
    <2>2. CASE Waiting(f, n, l)
      BY <2>2, WaitingFacts
    <2>3. CASE Open(f, n, l)
      BY <2>3 DEF Open
    <2> QED
      BY <2>1, <2>2, <2>3 DEF FlowInv
  <1>13. DOMAIN n \subseteq (I \union J) \union ({RtsPkt} \union {CtsPkt})
    BY <1>10, <1>12
  <1>14. IsFiniteSet(DOMAIN n)
    BY <1>9, <1>13, FS_Subset
  <1> QED
    BY <1>10, <1>11, <1>12, <1>14

\* What a handler may make of a flow and send, when l has been lost: whatever of it is lost
\* next, the invariant holds.
Sound(r, rest, l) ==
  \A n, k : Carried(With(rest, r.sent), n, l, k) => FlowInv(r.flow, n, k)

\* Its flow is a flow's state, and it sends finitely many packets.
LEMMA SoundFacts ==
  ASSUME NEW r, NEW rest, IsBag(rest), NEW l, Sound(r, rest, l)
  PROVE  r.flow \in FlowState /\ r.sent \subseteq AnyPacket /\ IsFiniteSet(r.sent)
  <1>1. PICK all : all = With(rest, r.sent)
    OBVIOUS
  <1>2. IsBag(all) /\ DOMAIN all = DOMAIN rest \union r.sent
    BY <1>1, BagFacts
  <1>3. Carried(all, all, l, l)
    BY <1>2, CarriedAll
  <1>4. FlowInv(r.flow, all, l)
    BY <1>1, <1>3 DEF Sound
  <1>5. IsFiniteSet(DOMAIN all) /\ DOMAIN all \subseteq AnyPacket
    BY <1>4, PacketsFinite
  <1>6. IsFiniteSet(r.sent)
    BY <1>2, <1>5, FS_Subset
  <1> QED
    BY <1>2, <1>4, <1>5, <1>6 DEF FlowInv

\* What is sent comes into the queues as it should.
LEMMA SentFacts ==
  ASSUME config \in Configs, NEW f \in Users, NEW r, r.flow \in FlowState,
         r.sent \subseteq AnyPacket, IsFiniteSet(r.sent), NEW S, S = Sent(f, r)
  PROVE  /\ Records(S, f) /\ IsFiniteSet(S) /\ PacketsOf(S) = r.sent
         /\ \A x \in S : x.pf_priority = (IF Ranked /\ x.pkt.type = "DATA"
                                          THEN get_priority(r.flow, Word) ELSE 0)
  <1>1. PICK p : p = get_priority(r.flow, Word)
    OBVIOUS
  <1>2. p \in 0 .. Word - 1 /\ 0 \in 0 .. Word - 1
    <2>1. PICK a \in Int : a = r.flow.size - r.flow.last_unacked_seq - r.flow.scoreboard_sack_bytes
      BY StateTypes
    <2>2. p = a % Word
      BY <1>1, <2>1 DEF get_priority
    <2>3. Word \in Nat \ {0}
      BY ConfigAssumption
    <2> QED
      BY <2>2, <2>3
  <1>3. PICK M : M = [m \in r.sent |->
                        [flow |-> f, pkt |-> m,
                         pf_priority |-> IF Ranked /\ m.type = "DATA" THEN p ELSE 0]]
    OBVIOUS
  <1>4. S = {M[m] : m \in r.sent}
    BY <1>1, <1>3 DEF Sent
  <1>5. IsFiniteSet(S)
    BY <1>4, ImageFinite
  <1>6. \A m \in r.sent : /\ M[m] \in QueuedPacket /\ M[m].flow = f /\ M[m].pkt = m
                          /\ M[m].pf_priority = IF Ranked /\ m.type = "DATA" THEN p ELSE 0
    BY <1>2, <1>3 DEF QueuedPacket
  <1>7. Records(S, f)
    BY <1>4, <1>6 DEF Records
  <1>8. PacketsOf(S) = r.sent
    BY <1>4, <1>6 DEF PacketsOf
  <1> QED
    BY <1>1, <1>4, <1>5, <1>6, <1>7, <1>8

(***************************************************************************)
(* The inductive invariant of the network, and its steps.                  *)
(***************************************************************************)
NetworkInv ==
  /\ config \in Configs /\ faults \in 0 .. config.max_faults
  /\ flow \in [Flows -> FlowState] /\ queue \in Queues /\ lost \in Losses
  /\ \A f \in Flows : FlowInv(flow[f], Net(f), lost[f])

\* The network has carried all of flow g.
CarriedNow(all, g) == Carried(all, InQueues(queue', g), lost[g], lost'[g])

\* A handler of flow f has done r, when the queues were rest.
Moved(f, r, rest) ==
  /\ config' = config /\ flow' = [flow EXCEPT ![f] = r.flow]
  /\ queue' \in Queues /\ lost' \in Losses
  /\ CarriedNow(With(InQueues(rest, f), r.sent), f)
  /\ \A g \in Flows \ {f} : CarriedNow(InQueues(rest, g), g)

\* What flow g does in a step of the network.
FlowStarts(g) ==
  /\ ~flow[g].started /\ flow'[g] = Start(flow[g]).flow
  /\ CarriedNow(With(Net(g), Start(flow[g]).sent), g)

FlowTimesOut(g) ==
  /\ flow[g].retx.live > 0 /\ flow'[g] = HandleTimeout(flow[g]).flow
  /\ CarriedNow(With(Net(g), HandleTimeout(flow[g]).sent), g)

FlowReceives(g) ==
  \E m \in DOMAIN Net(g) : \E r \in Receive(flow[g], m) :
    flow'[g] = r.flow /\ CarriedNow(With(Less(Net(g), m), r.sent), g)

FlowLoses(g) == flow'[g] = flow[g] /\ CarriedNow(Net(g), g)

FlowStep(g) == FlowStarts(g) \/ FlowTimesOut(g) \/ FlowReceives(g) \/ FlowLoses(g)

\* All flows do.
NetworkStep ==
  /\ config' = config /\ flow' \in [Flows -> FlowState]
  /\ queue' \in Queues /\ lost' \in Losses
  /\ \A g \in Flows : FlowStep(g)

\* A handler is carried out.
LEMMA BecomesFacts ==
  ASSUME NetworkInv, NEW f \in Users, NEW R, NEW rest, rest \in Queues, Becomes(f, R, rest),
         \A r \in R : Sound(r, InQueues(rest, f), lost[f])
  PROVE  \E r \in R : Moved(f, r, rest) /\ r.flow \in FlowState
  <1>1. config \in Configs /\ lost \in Losses /\ f \in Flows
    BY ConfigFacts DEF NetworkInv
  <1>2. PICK r \in R : /\ flow' = [flow EXCEPT ![f] = r.flow]
                       /\ \E n \in Enqueued(Sent(f, r), rest) : queue' = n.queue /\ lost' = n.lost
    BY DEF Becomes
  <1>3. PICK S : S = Sent(f, r)
    OBVIOUS
  <1>4. PICK n \in Enqueued(S, rest) : queue' = n.queue /\ lost' = n.lost
    BY <1>2, <1>3
  <1>5. PICK B : B = InQueues(rest, f)
    OBVIOUS
  <1>6. IsBag(B) /\ Sound(r, B, lost[f])
    BY <1>1, <1>5, InQueuesFacts
  <1>7. r.flow \in FlowState /\ r.sent \subseteq AnyPacket /\ IsFiniteSet(r.sent)
    BY <1>6, SoundFacts
  <1>8. Records(S, f) /\ IsFiniteSet(S) /\ PacketsOf(S) = r.sent
    BY <1>1, <1>3, <1>7, SentFacts
  <1>9. Delivered(n, f, S, rest)
    BY <1>1, <1>8, OutcomeFacts
  <1>10. \A g \in Flows : Carried(Offered(g, f, S, rest), InQueues(queue', g), lost[g], lost'[g])
    BY <1>4, <1>9 DEF Delivered
  <1>11. queue' \in Queues /\ lost' \in Losses
    BY <1>4, <1>9 DEF Delivered
  <1>12. CarriedNow(With(InQueues(rest, f), r.sent), f)
    BY <1>1, <1>8, <1>10 DEF CarriedNow, Offered
  <1>13. \A g \in Flows \ {f} : CarriedNow(InQueues(rest, g), g)
    BY <1>10 DEF CarriedNow, Offered
  <1>14. config' = config
    BY DEF Becomes
  <1>15. Moved(f, r, rest)
    BY <1>2, <1>11, <1>12, <1>13, <1>14 DEF Moved
  <1> QED
    BY <1>7, <1>15

\* The packets on their way, after a step.
LEMMA NetPrime ==
  ASSUME config' = config, NEW f PROVE Net(f)' = InQueues(queue', f)
  BY DEF Net, InQueues, Places, Paths, PacketAt, Host

\* The other flows lose packets at most.
LEMMA MovedFacts ==
  ASSUME NetworkInv, NEW f \in Users, NEW r, NEW rest, Moved(f, r, rest), r.flow \in FlowState,
         \A g \in Flows \ {f} : InQueues(rest, g) = Net(g), FlowStep(f)
  PROVE  NetworkStep
  <1>1. f \in Flows /\ flow \in [Flows -> FlowState]
    BY ConfigFacts DEF NetworkInv
  <1>2. flow' \in [Flows -> FlowState]
    BY <1>1 DEF Moved
  <1>3. ASSUME NEW g \in Flows \ {f} PROVE FlowStep(g)
    <2>1. flow'[g] = flow[g]
      BY <1>1 DEF Moved
    <2>2. CarriedNow(Net(g), g)
      BY DEF Moved
    <2> QED
      BY <2>1, <2>2 DEF FlowStep, FlowLoses
  <1> QED
    BY <1>2, <1>3 DEF Moved, NetworkStep

\* Each action of the network is a step of every flow and its packets: of the one whose
\* handler runs, and of the others, which may lose some.
LEMMA StartIsStep ==
  ASSUME NetworkInv, NEW f, StartFlow(f) PROVE NetworkStep
  <1>1. f \in Users /\ ~flow[f].started /\ Becomes(f, {Start(flow[f])}, queue)
    BY DEF StartFlow
  <1>2. f \in Flows /\ queue \in Queues /\ FlowInv(flow[f], Net(f), lost[f]) /\ flow \in [Flows -> FlowState]
    BY <1>1, ConfigFacts DEF NetworkInv
  <1>3. PICK r : r = Start(flow[f])
    OBVIOUS
  <1>4. Sound(r, InQueues(queue, f), lost[f])
    BY <1>1, <1>2, <1>3, StartStep DEF Sound, Net
  <1>5. Moved(f, r, queue) /\ r.flow \in FlowState
    BY <1>1, <1>2, <1>3, <1>4, BecomesFacts
  <1>6. FlowStep(f)
    <2>1. flow'[f] = r.flow /\ CarriedNow(With(Net(f), r.sent), f)
      BY <1>2, <1>5 DEF Moved, Net
    <2> QED
      BY <1>1, <1>3, <2>1 DEF FlowStep, FlowStarts
  <1> QED
    BY <1>1, <1>5, <1>6, MovedFacts DEF Net

\* When its timer fires.
LEMMA TimeoutIsStep ==
  ASSUME NetworkInv, NEW f, RetxTimeout(f) PROVE NetworkStep
  <1>1. f \in Users /\ flow[f].retx.live > 0 /\ Becomes(f, {HandleTimeout(flow[f])}, queue)
    BY DEF RetxTimeout
  <1>2. f \in Flows /\ queue \in Queues /\ FlowInv(flow[f], Net(f), lost[f]) /\ flow \in [Flows -> FlowState]
    BY <1>1, ConfigFacts DEF NetworkInv
  <1>3. PICK r : r = HandleTimeout(flow[f])
    OBVIOUS
  <1>4. Sound(r, InQueues(queue, f), lost[f])
    BY <1>1, <1>2, <1>3, TimeoutStep DEF Sound, Net
  <1>5. Moved(f, r, queue) /\ r.flow \in FlowState
    BY <1>1, <1>2, <1>3, <1>4, BecomesFacts
  <1>6. FlowStep(f)
    <2>1. flow'[f] = r.flow /\ CarriedNow(With(Net(f), r.sent), f)
      BY <1>2, <1>5 DEF Moved, Net
    <2> QED
      BY <1>1, <1>3, <2>1 DEF FlowStep, FlowTimesOut
  <1> QED
    BY <1>1, <1>5, <1>6, MovedFacts DEF Net

\* A packet leaves a queue, and its flow's bag.
LEMMA LeavingFacts ==
  ASSUME NetworkInv, NEW h \in Host, NEW i \in Paths, queue[h][i] # <<>>,
         NEW x, x = Leaving(h, i), NEW rest, rest = Without(h, i)
  PROVE  /\ x \in QueuedPacket /\ x.flow \in Users /\ x.flow \in Flows /\ rest \in Queues
         /\ x.pkt \in DOMAIN Net(x.flow) /\ InQueues(rest, x.flow) = Less(Net(x.flow), x.pkt)
         /\ OneMore(Net(x.flow), InQueues(rest, x.flow), x.pkt)
         /\ \A g : g # x.flow => InQueues(rest, g) = Net(g)
  <1>1. config \in Configs /\ queue \in Queues
    BY DEF NetworkInv
  <1>2. PICK s, k : s = queue[h][i] /\ k = Out(s)
    OBVIOUS
  <1>3. s \in Seq(QueuedPacket) /\ s # <<>>
    BY <1>1, <1>2, QueueTypes
  <1>4. k \in 1 .. Len(s)
    BY <1>1, <1>2, <1>3, PriorityFacts
  <1>5. x = s[k] /\ x \in QueuedPacket
    BY <1>2, <1>3, <1>4 DEF Leaving
  <1>6. x.flow \in Users /\ x.flow \in Flows
    BY <1>1, <1>5, PacketTypes
  <1>7. Removed(s, k) \in Seq(QueuedPacket)
    BY <1>3, <1>4, RemovedIs
  <1>8. rest = Put(queue, h, i, Removed(s, k))
    BY <1>2 DEF Without, Put
  <1>9. rest \in Queues /\ rest[h][i] = Removed(s, k) /\ ElseSame(queue, rest, h, i)
    BY <1>1, <1>7, <1>8, QueueChanged
  <1>10. TakenOut(queue, h, i, k, x, rest)
    BY <1>1, <1>2, <1>4, <1>5, <1>9 DEF TakenOut
  <1>11. OneMore(Net(x.flow), InQueues(rest, x.flow), x.pkt)
    BY <1>1, <1>10, RemovedFacts DEF Net
  <1>12. ASSUME NEW g, g # x.flow PROVE InQueues(rest, g) = Net(g)
    BY <1>1, <1>10, <1>12, RemovedFacts DEF Net
  <1>13. IsBag(InQueues(rest, x.flow))
    BY <1>1, <1>9, InQueuesFacts
  <1>14. x.pkt \in DOMAIN Net(x.flow) /\ InQueues(rest, x.flow) = Less(Net(x.flow), x.pkt)
    BY <1>11, <1>13, LessFacts
  <1> QED
    BY <1>5, <1>6, <1>9, <1>11, <1>12, <1>14

\* When a packet arrives.
LEMMA ArrivalIsStep ==
  ASSUME NetworkInv, NEW h \in Host, NEW i, PacketArrival(h, i) PROVE NetworkStep
  <1>1. i \in Paths /\ queue[h][i] # <<>>
    BY DEF PacketArrival
  <1>2. PICK x, rest, f : x = Leaving(h, i) /\ rest = Without(h, i) /\ f = x.flow
    OBVIOUS
  <1>3. Becomes(f, Receive(flow[f], x.pkt), rest)
    BY <1>2 DEF PacketArrival
  <1>4. /\ f \in Users /\ f \in Flows /\ rest \in Queues
        /\ x.pkt \in DOMAIN Net(f) /\ InQueues(rest, f) = Less(Net(f), x.pkt)
        /\ \A g : g # f => InQueues(rest, g) = Net(g)
    BY <1>1, <1>2, LeavingFacts
  <1>5. FlowInv(flow[f], Net(f), lost[f]) /\ flow \in [Flows -> FlowState]
    BY <1>4 DEF NetworkInv
  <1>6. ASSUME NEW r \in Receive(flow[f], x.pkt) PROVE Sound(r, InQueues(rest, f), lost[f])
    BY <1>4, <1>5, ArrivalStep DEF Sound
  <1>7. PICK r \in Receive(flow[f], x.pkt) : Moved(f, r, rest) /\ r.flow \in FlowState
    BY <1>3, <1>4, <1>6, BecomesFacts
  <1>8. FlowStep(f)
    <2>1. flow'[f] = r.flow /\ CarriedNow(With(Less(Net(f), x.pkt), r.sent), f)
      BY <1>4, <1>5, <1>7 DEF Moved
    <2> QED
      BY <1>4, <2>1 DEF FlowStep, FlowReceives
  <1> QED
    BY <1>4, <1>7, <1>8, MovedFacts

\* When a packet is lost.
LEMMA DropIsStep ==
  ASSUME NetworkInv, NEW h \in Host, NEW i, ProbDrop(h, i) PROVE NetworkStep
  <1>1. /\ i \in Paths /\ queue[h][i] # <<>> /\ config' = config /\ flow' = flow
        /\ config \in Configs /\ lost \in Losses /\ flow \in [Flows -> FlowState]
    BY DEF ProbDrop, NetworkInv
  <1>2. PICK x, rest, f : x = Leaving(h, i) /\ rest = Without(h, i) /\ f = x.flow
    OBVIOUS
  <1>3. queue' = rest /\ lost' = [lost EXCEPT ![f] = @ \union {x.pkt.type}]
    BY <1>2 DEF ProbDrop
  <1>4. /\ x \in QueuedPacket /\ f \in Flows /\ rest \in Queues
        /\ OneMore(Net(f), InQueues(rest, f), x.pkt)
        /\ \A g : g # f => InQueues(rest, g) = Net(g)
    BY <1>1, <1>2, LeavingFacts
  <1>5. x.pkt.type \in {"DATA", "ACK", "RTS", "CTS"}
    BY <1>1, <1>4, PacketTypes
  <1>6. /\ lost' \in Losses /\ lost'[f] = lost[f] \union {x.pkt.type}
        /\ \A g \in Flows : g # f => lost'[g] = lost[g]
    BY <1>1, <1>3, <1>4, <1>5 DEF Losses
  <1>7. ASSUME NEW g \in Flows PROVE CarriedNow(Net(g), g)
    <2>1. IsBag(Net(g)) /\ IsBag(InQueues(rest, g))
      BY <1>1, <1>4, InQueuesFacts DEF Net, NetworkInv
    <2>2. Carried(Net(g), Net(g), lost[g], lost[g])
      BY <2>1, CarriedAll
    <2>3. CASE g = f
      <3>1. OneMore(Net(g), InQueues(rest, g), x.pkt)
        BY <1>4, <2>3
      <3>2. Carried(Net(g), InQueues(rest, g), lost[g], lost[g] \union {x.pkt.type})
        BY <2>1, <2>2, <3>1, CarriedLess
      <3> QED
        BY <1>3, <1>6, <2>3, <3>2 DEF CarriedNow
    <2>4. CASE g # f
      <3>1. InQueues(rest, g) = Net(g) /\ lost'[g] = lost[g]
        BY <1>4, <1>6, <2>4
      <3> QED
        BY <1>3, <2>2, <3>1 DEF CarriedNow
    <2> QED
      BY <2>3, <2>4
  <1>8. \A g \in Flows : FlowStep(g)
    BY <1>1, <1>7 DEF FlowStep, FlowLoses
  <1> QED
    BY <1>1, <1>3, <1>4, <1>6, <1>8 DEF NetworkStep

(***************************************************************************)
(* The invariant and the refinement.                                       *)
(***************************************************************************)

\* Every step is one of all flows, and no more faults happen than are allowed.
LEMMA NextIsStep ==
  ASSUME NetworkInv, Next PROVE NetworkStep /\ faults' \in 0 .. config.max_faults
  <1>1. NetworkStep
    <2>1. ASSUME NEW h \in Host, NEW i \in Paths, PacketArrival(h, i) PROVE NetworkStep
      BY <2>1, ArrivalIsStep
    <2>2. ASSUME NEW h \in Host, NEW i \in Paths, ProbDrop(h, i) PROVE NetworkStep
      BY <2>2, DropIsStep
    <2>3. ASSUME NEW f \in Users, StartFlow(f) PROVE NetworkStep
      BY <2>3, StartIsStep
    <2>4. ASSUME NEW f \in Users, RetxTimeout(f) PROVE NetworkStep
      BY <2>4, TimeoutIsStep
    <2> QED
      BY <2>1, <2>2, <2>3, <2>4 DEF Next
  <1>2. faults' = faults \/ (faults < config.max_faults /\ faults' = faults + 1)
    BY DEF Next, PacketArrival, ProbDrop, StartFlow, RetxTimeout, Fault
  <1>3. config.max_faults \in Nat /\ faults \in 0 .. config.max_faults
    BY ConfigAssumption DEF NetworkInv
  <1> QED
    BY <1>1, <1>2, <1>3

\* A step of the flow and its network keeps the flow's invariant.
LEMMA FlowStepKeeps ==
  ASSUME NetworkInv, NEW g \in Flows, FlowStep(g)
  PROVE  FlowInv(flow'[g], InQueues(queue', g), lost'[g])
  <1>1. PICK f, n, l : f = flow[g] /\ n = Net(g) /\ l = lost[g]
    OBVIOUS
  <1>2. FlowInv(f, n, l)
    BY <1>1 DEF NetworkInv
  <1>3. CASE FlowStarts(g)
    BY <1>1, <1>2, <1>3, StartStep DEF FlowStarts, CarriedNow
  <1>4. CASE FlowTimesOut(g)
    BY <1>1, <1>2, <1>4, TimeoutStep DEF FlowTimesOut, CarriedNow
  <1>5. CASE FlowReceives(g)
    BY <1>1, <1>2, <1>5, ArrivalStep DEF FlowReceives, CarriedNow
  <1>6. CASE FlowLoses(g)
    BY <1>1, <1>2, <1>6, LoseStep DEF FlowLoses, CarriedNow
  <1> QED
    BY <1>3, <1>4, <1>5, <1>6 DEF FlowStep

\* So the invariant is kept.
LEMMA StepKeeps ==
  ASSUME NetworkInv, NetworkStep, faults' \in 0 .. config.max_faults PROVE NetworkInv'
  <1>1. config' = config
    BY DEF NetworkStep
  <1>2. config' \in Configs /\ faults' \in 0 .. config'.max_faults /\ flow' \in [Flows -> FlowState]
    BY <1>1 DEF NetworkInv, NetworkStep
  <1>3. (queue \in Queues)'
    BY <1>1 DEF NetworkStep, Queues, QueuedPacket, Paths, Users
  <1>4. lost' \in Losses
    BY DEF NetworkStep
  <1>5. ASSUME NEW f \in Flows PROVE FlowInv(flow'[f], Net(f)', lost'[f])
    <2>1. FlowInv(flow'[f], InQueues(queue', f), lost'[f])
      BY FlowStepKeeps DEF NetworkStep
    <2>2. Net(f)' = InQueues(queue', f)
      BY <1>1, NetPrime
    <2> QED
      BY <2>1, <2>2
  <1> QED
    BY <1>2, <1>3, <1>4, <1>5 DEF NetworkInv

\* The initial state.
LEMMA InitKeeps ==
  ASSUME Init PROVE NetworkInv /\ \A f \in Flows : Net(f) = NoPackets
  <1>1. config \in Configs /\ config.max_faults \in Nat /\ faults = 0
    BY ConfigAssumption DEF Init
  <1>2. queue \in Queues
    <2>1. <<>> \in Seq(QueuedPacket)
      OBVIOUS
    <2> QED
      BY <2>1 DEF Init, Queues
  <1>3. lost \in Losses
    BY DEF Init, Losses
  <1>4. ASSUME NEW f \in Flows PROVE Net(f) = NoPackets
    <2>1. Places(queue, f) = {}
      <3>1. \A h \in Host, i \in Paths : queue[h][i] = <<>>
        BY DEF Init
      <3> QED
        BY <3>1 DEF Places
    <2> QED
      BY <2>1 DEF Net, InQueues, NoPackets
  <1>5. ASSUME NEW f \in Flows
        PROVE  FlowInv(flow[f], NoPackets, lost[f]) /\ flow[f] \in FlowState
    <2>1. PICK k : k = Kind(config, f)
      OBVIOUS
    <2>2. k.class \in FlowClass /\ k.size \in Nat \ {0}
      <3>1. CASE f \in DOMAIN config.users
        <4>1. PICK K : K = [class : FlowClass, size : Nat \ {0}, src : Host]
          OBVIOUS
        <4>2. config.users \in Seq(K)
          BY <1>1, <4>1, ConfigAssumption
        <4>3. config.users[f] \in K
          BY <3>1, <4>2
        <4> QED
          BY <2>1, <3>1, <4>1, <4>3 DEF Kind
      <3>2. CASE f \notin DOMAIN config.users
        BY <2>1, <3>2 DEF Kind, FlowClass
      <3> QED
        BY <3>1, <3>2
    <2>3. flow[f] = New(k.class, k.size) /\ lost[f] = {}
      BY <2>1 DEF Init
    <2> QED
      BY <2>2, <2>3, NewFits DEF FlowInv
  <1>6. flow \in [Flows -> FlowState]
    BY <1>5 DEF Init
  <1> QED
    BY <1>1, <1>2, <1>3, <1>4, <1>5, <1>6 DEF NetworkInv

\* The invariant is inductive.
LEMMA NetworkKeeps == NetworkInv /\ [Next]_vars => NetworkInv'
  <1> SUFFICES ASSUME NetworkInv, [Next]_vars PROVE NetworkInv'
    OBVIOUS
  <1>1. CASE Next
    BY <1>1, NextIsStep, StepKeeps
  <1>2. CASE UNCHANGED vars
    <2>1. config' = config /\ flow' = flow /\ queue' = queue /\ lost' = lost /\ faults' = faults
      BY <1>2 DEF vars
    <2>2. ASSUME NEW f \in Flows PROVE Net(f)' = Net(f)
      BY <2>1, NetPrime DEF Net
    <2>3. (queue \in Queues)'
      BY <2>1 DEF NetworkInv, Queues, QueuedPacket, Paths, Users
    <2>4. \A f \in Flows : FlowInv(flow'[f], Net(f)', lost'[f])
      BY <2>1, <2>2 DEF NetworkInv
    <2> QED
      BY <2>1, <2>3, <2>4 DEF NetworkInv
  <1> QED
    BY <1>1, <1>2

\* The invariant holds.
THEOREM NetworkInvariant == Spec => []NetworkInv
  <1>1. Init => NetworkInv
    BY InitKeeps
  <1> QED
    BY <1>1, NetworkKeeps, PTL DEF Spec

\* Each flow, and the queues as it sees them, are a flow over a network that reorders and
\* loses packets.
THEOREM EachFlowHasANetwork == Spec => ImplementsTransport
  <1>1. ASSUME Init, NEW f \in Flows PROVE AnyNetwork(f)!Init
    <2>1. Net(f) = NoPackets /\ config \in Configs
      BY <1>1, InitKeeps DEF NetworkInv
    <2>2. flow[f] = New(Kind(config, f).class, Kind(config, f).size) /\ lost[f] = {}
      BY <1>1 DEF Init
    <2>3. PICK k : k = [class |-> Kind(config, f).class, size |-> Kind(config, f).size]
      OBVIOUS
    <2>4. /\ k \in {[class |-> Kind(c, f).class, size |-> Kind(c, f).size] : c \in Configs}
          /\ flow[f] = New(k.class, k.size)
      BY <2>1, <2>2, <2>3
    <2>5. Net(f) = AnyNetwork(f)!NoPackets /\ flow[f] = AnyNetwork(f)!New(k.class, k.size)
      BY <2>1, <2>4, SameOperators
    <2> QED
      BY <2>2, <2>4, <2>5 DEF AnyNetwork!Init
  <1>2. ASSUME NetworkInv, Next, NEW f \in Flows PROVE AnyNetwork(f)!Next
    <2>1. FlowStep(f) /\ config' = config
      BY <1>2, NextIsStep DEF NetworkStep
    <2>2. PICK n, k : n = Net(f)' /\ k = lost'[f]
      OBVIOUS
    <2>3. n = InQueues(queue', f)
      BY <2>1, <2>2, NetPrime
    <2>4. ASSUME NEW all, CarriedNow(all, f) PROVE AnyNetwork(f)!Carries(all)
      <3>1. PartOf(n, all) /\ k = lost[f] \union {m.type : m \in Missing(n, all)}
        BY <2>2, <2>3, <2>4 DEF CarriedNow, Carried
      <3> QED
        BY <2>2, <3>1, SameOperators DEF AnyNetwork!Carries
    <2>5. CASE FlowStarts(f)
      <3>1. AnyNetwork(f)!Carries(With(Net(f), Start(flow[f]).sent))
        BY <2>4, <2>5 DEF FlowStarts
      <3>2. AnyNetwork(f)!StartFlow
        BY <2>5, <3>1, SameOperators DEF FlowStarts, AnyNetwork!StartFlow, AnyNetwork!Becomes
      <3> QED
        BY <3>2 DEF AnyNetwork!Next
    <2>6. CASE FlowTimesOut(f)
      <3>1. AnyNetwork(f)!Carries(With(Net(f), HandleTimeout(flow[f]).sent))
        BY <2>4, <2>6 DEF FlowTimesOut
      <3>2. AnyNetwork(f)!RetxTimeout
        BY <2>6, <3>1, SameOperators DEF FlowTimesOut, AnyNetwork!RetxTimeout, AnyNetwork!Becomes
      <3> QED
        BY <3>2 DEF AnyNetwork!Next
    <2>7. CASE FlowReceives(f)
      <3>1. PICK m \in DOMAIN Net(f) : \E r \in Receive(flow[f], m) :
              flow'[f] = r.flow /\ CarriedNow(With(Less(Net(f), m), r.sent), f)
        BY <2>7 DEF FlowReceives
      <3>2. PICK r \in Receive(flow[f], m) :
              flow'[f] = r.flow /\ CarriedNow(With(Less(Net(f), m), r.sent), f)
        BY <3>1
      <3>3. AnyNetwork(f)!Carries(With(Less(Net(f), m), r.sent))
        BY <2>4, <3>2
      <3>4. AnyNetwork(f)!PacketArrival(m)
        BY <3>2, <3>3, SameOperators DEF AnyNetwork!PacketArrival, AnyNetwork!Becomes
      <3> QED
        BY <3>4 DEF AnyNetwork!Next
    <2>8. CASE FlowLoses(f)
      <3>1. AnyNetwork(f)!Carries(Net(f))
        BY <2>4, <2>8 DEF FlowLoses
      <3>2. AnyNetwork(f)!Lose
        BY <2>8, <3>1 DEF FlowLoses, AnyNetwork!Lose
      <3> QED
        BY <3>2 DEF AnyNetwork!Next
    <2> QED
      BY <2>1, <2>5, <2>6, <2>7, <2>8 DEF FlowStep
  <1>3. Init => \A f \in Flows : AnyNetwork(f)!Init
    BY <1>1
  <1>4. NetworkInv /\ [Next]_vars =>
          [\A f \in Flows : UNCHANGED AnyNetwork(f)!vars \/ AnyNetwork(f)!Next]_vars
    BY <1>2
  <1> QED
    BY <1>3, <1>4, NetworkInvariant, PTL DEF Spec, ImplementsTransport

(***************************************************************************)
(* What holds of a flow over any network.                                  *)
(***************************************************************************)

\* All that the invariant says of flow g.
FlowHolds(g) == FlowInv(flow[g], Net(g), lost[g])

\* Its members keep their types and bounds, and every packet under way is its own.
LEMMA TypesOfFlow ==
  ASSUME NEW g, FlowHolds(g) PROVE AnyNetwork(g)!TypeOK
  <1>1. PICK f, n, l : f = flow[g] /\ n = Net(g) /\ l = lost[g]
    OBVIOUS
  <1>2. /\ FlowInv(f, n, l) /\ f \in FlowState /\ ReceivedOK(f) /\ IsBag(n)
        /\ Starting(f, n, l) \/ Waiting(f, n, l) \/ Open(f, n, l)
    BY <1>1 DEF FlowHolds, FlowInv
  <1>3. f.received_bytes \in 0 .. f.size
    <2>1. f.size \in Nat /\ f.size >= 1
      BY <1>2, StateTypes
    <2>2. IsFiniteSet(0 .. f.size - 1) /\ Cardinality(0 .. f.size - 1) = f.size
      BY ONLY <2>1, FirstNumbers
    <2>3. Cardinality(BytesIn(f)) <= f.size
      BY ZenonT(30), <1>2, <2>2, BytesFacts, FS_Subset
    <2> QED
      BY <1>2, <2>3, StateTypes DEF ReceivedOK
  <1>4. \A m \in DOMAIN n : OpenPacket(f, m) \/ m \in {RtsPkt, CtsPkt}
    BY <1>2, StartingFacts, WaitingFacts DEF Open
  <1>5. PICK till : till = RecvTill([f EXCEPT !.received = Seqs(f)])
    OBVIOUS
  <1>6. till = End(f)
    <2>1. PICK h : h = [f EXCEPT !.received = Seqs(f)]
      OBVIOUS
    <2>2. /\ h \in FlowState /\ h.class = f.class /\ h.size = f.size
          /\ h.received = Seqs(f)
      BY <1>2, <2>1, SeqsFacts DEF FlowState
    <2>3. RecvTill(h) = Min({End(f)})
      BY <2>2 DEF RecvTill, End, Seqs
    <2>4. Min({End(f)}) = End(f)
      BY <1>2, AckFacts, MinFacts
    <2> QED
      BY <1>5, <2>1, <2>3, <2>4
  <1>7. \A m \in DOMAIN n : m \in AnyNetwork(g)!Packet(f)
    <2>1. PICK N, K, t : /\ N = Seqs(f) \union {f.size, till} /\ K = 0 .. Cardinality(Seqs(f))
                         /\ t = [f EXCEPT !.received = Seqs(f)]
      OBVIOUS
    <2>2. /\ AnyNetwork(g)!Seqs(f) = Seqs(f)
          /\ t = [f EXCEPT !.received = AnyNetwork(g)!Seqs(f)]
          /\ till = AnyNetwork(g)!RecvTill(t)
          /\ N = AnyNetwork(g)!Seqs(f) \union {f.size, AnyNetwork(g)!RecvTill(t)}
          /\ K = 0 .. AnyNetwork(g)!Cardinality(AnyNetwork(g)!Seqs(f))
      BY <1>5, <2>1, SameOperators
    <2>3. AnyNetwork(g)!Packet(f) =
            {AnyNetwork(g)!DataPkt(s) : s \in Seqs(f)}
            \union {AnyNetwork(g)!RtsPkt, AnyNetwork(g)!CtsPkt}
            \union {AnyNetwork(g)!AckPkt(a, k) : a \in N, k \in K}
      BY <2>2 DEF AnyNetwork!Packet
    <2>4. ASSUME NEW s \in Seqs(f) PROVE DataPkt(s) \in AnyNetwork(g)!Packet(f)
      BY <2>3, SameOperators
    <2>5. ASSUME NEW a \in N, NEW k \in K PROVE AckPkt(a, k) \in AnyNetwork(g)!Packet(f)
      BY <2>3, SameOperators
    <2>6. {RtsPkt, CtsPkt} \subseteq AnyNetwork(g)!Packet(f)
      BY <2>3, SameOperators
    <2>7. AckNumbers(f) \subseteq N
      BY <1>6, <2>1 DEF AckNumbers
    <2>8. ASSUME NEW m, OpenPacket(f, m) PROVE m \in AnyNetwork(g)!Packet(f)
      BY <2>1, <2>4, <2>5, <2>7, <2>8 DEF OpenPacket
    <2> QED
      BY <1>4, <2>6, <2>8
  <1>8. DOMAIN n \subseteq AnyNetwork(g)!Packet(f)
    BY <1>7
  <1>9. l \subseteq {"DATA", "ACK", "RTS", "CTS"}
    BY <1>2 DEF Starting, Waiting, Open, RtsPkt, CtsPkt
  <1>11. f.received \subseteq AnyNetwork(g)!Seqs(f)
    BY <1>2, SameOperators DEF ReceivedOK
  <1>12. AnyNetwork(g)!IsBag(n) /\ AnyNetwork(g)!FlowClass = FlowClass
    BY <1>2, SameOperators
  <1>13. /\ f.class \in FlowClass /\ f.size \in Nat
         /\ f.started \in BOOLEAN /\ f.finished \in BOOLEAN
         /\ f.next_seq_no \in Nat /\ f.last_unacked_seq \in Nat
         /\ f.cwnd_mss \in 1 .. MaxCwnd /\ f.ssthresh \in Nat \ {0, 1}
         /\ f.count_ack_additive_increase \in 0 .. MaxCwnd
         /\ f.scoreboard_sack_bytes \in Nat
         /\ f.retx \in [event : BOOLEAN, live : Nat]
    BY <1>2, StateTypes DEF Timer
  <1> QED
    BY <1>1, <1>3, <1>8, <1>9, <1>11, <1>12, <1>13 DEF AnyNetwork!TypeOK

\* No byte is taken to be received that has not been, or counted twice.
LEMMA AcksOfFlow ==
  ASSUME NEW g, FlowHolds(g) PROVE AnyNetwork(g)!AckedWasReceived
  <1>1. PICK f, n, l : f = flow[g] /\ n = Net(g) /\ l = lost[g]
    OBVIOUS
  <1>2. /\ FlowInv(f, n, l) /\ f \in FlowState /\ ReceivedOK(f)
        /\ Starting(f, n, l) \/ Waiting(f, n, l) \/ Open(f, n, l)
    BY <1>1 DEF FlowHolds, FlowInv
  <1>3. CASE f.finished
    BY <1>1, <1>2, <1>3 DEF ReceivedOK, AnyNetwork!AckedWasReceived
  <1>4. CASE ~f.finished
    <2>1. /\ f.received_bytes = Cardinality(BytesIn(f))
          /\ Got(f, f.last_unacked_seq)
      BY <1>2, <1>4 DEF ReceivedOK
    <2>2. ASSUME NEW m \in DOMAIN n, m.type = "ACK" PROVE Got(f, m.ack)
      <3>1. m # RtsPkt /\ m # CtsPkt
        BY <2>2 DEF RtsPkt, CtsPkt
      <3>2. OpenPacket(f, m)
        BY <1>2, <3>1, StartingFacts, WaitingFacts DEF Open
      <3> QED
        BY <1>4, <2>2, <3>2 DEF OpenPacket, DataPkt, AckPkt
    <2>3. \A a \in {f.last_unacked_seq} \union AnyNetwork(g)!AcksUnderWay : Got(f, a)
      BY <1>1, <2>1, <2>2 DEF AnyNetwork!AcksUnderWay
    <2>4. AnyNetwork(g)!Seqs(f) = Seqs(f) /\
          f.received_bytes = AnyNetwork(g)!Cardinality(AnyNetwork(g)!BytesIn(f))
      BY <2>1, SameOperators
    <2>5. \A a \in {f.last_unacked_seq} \union AnyNetwork(g)!AcksUnderWay :
            \A s \in AnyNetwork(g)!Seqs(f) : s < a => s \in f.received
      BY <2>3, <2>4 DEF Got
    <2> QED
      BY <1>1, <1>4, <2>4, <2>5 DEF AnyNetwork!AckedWasReceived
  <1> QED
    BY <1>3, <1>4

\* One timer is pending, as long as something sent is not acknowledged.
LEMMA TimerOfFlow ==
  ASSUME NEW g, FlowHolds(g) PROVE AnyNetwork(g)!OneTimer
  <1>1. PICK f, n, l : f = flow[g] /\ n = Net(g) /\ l = lost[g]
    OBVIOUS
  <1>2. /\ FlowInv(f, n, l) /\ f \in FlowState
        /\ Starting(f, n, l) \/ Waiting(f, n, l) \/ Open(f, n, l)
    BY <1>1 DEF FlowHolds, FlowInv
  <1>3. PICK connecting \in BOOLEAN : connecting <=> AnyNetwork(g)!Connecting
    OBVIOUS
  <1>4. connecting <=> /\ f.class = "TCPFlow"
                       /\ \E type \in {"RTS", "CTS"} :
                            type \in l \/ \E m \in DOMAIN n : m.type = type
    BY <1>1, <1>3 DEF AnyNetwork!Connecting
  <1>5. PICK running \in BOOLEAN :
          running <=> f.started /\ ~connecting /\ f.last_unacked_seq < f.size
    OBVIOUS
  <1>6. f.retx = IF running THEN Pending ELSE None
    <2>1. CASE Starting(f, n, l)
      BY <1>2, <1>5, <2>1, NewFacts, StartingFacts DEF Starting
    <2>2. CASE Waiting(f, n, l)
      <3>1. PICK p \in {RtsPkt, CtsPkt} : \/ n = Single(p)
                                          \/ l = {p.type}
        BY <2>2 DEF Waiting
      <3>2. p.type \in {"RTS", "CTS"}
        BY <3>1 DEF RtsPkt, CtsPkt
      <3>3. n = Single(p) => p \in DOMAIN n
        BY DEF Single
      <3>4. connecting
        BY <1>4, <2>2, <3>1, <3>2, <3>3 DEF Waiting
      <3> QED
        BY <1>5, <2>2, <3>4, <1>2, WaitingFacts
    <2>3. CASE Open(f, n, l)
      <3>1. ~connecting
        BY <1>4, <2>3 DEF Open, OpenPacket, DataPkt, AckPkt
      <3> QED
        BY <1>5, <2>3, <3>1 DEF Open, TimerOK
    <2> QED
      BY <1>2, <2>1, <2>2, <2>3
  <1>7. f.retx = [event |-> running, live |-> IF running THEN 1 ELSE 0]
    BY <1>6 DEF Pending, None
  <1> QED
    BY <1>1, <1>3, <1>5, <1>7 DEF AnyNetwork!OneTimer

\* The types of the network's variables: those of each flow and its packets, and the
\* faults so far.
THEOREM NetworkTypesOK == Spec => []TypeOK
  <1>1. NetworkInv => TypeOK
    BY TypesOfFlow DEF NetworkInv, FlowHolds, TypeOK
  <1> QED
    BY <1>1, NetworkInvariant, PTL

\* Whatever the queues drop and reorder, and however early a timer fires, no flow takes
\* a byte to be received that has not been, counts one twice or ends too soon.
THEOREM AcksAreTrue == Spec => []AckedWasReceived
  <1>1. NetworkInv => AckedWasReceived
    BY AcksOfFlow DEF NetworkInv, FlowHolds, AckedWasReceived
  <1> QED
    BY <1>1, NetworkInvariant, PTL

\* A flow has one timer pending, the one it points to, just when it has sent data and
\* bytes of it are not acknowledged.
THEOREM TimerIsOne == Spec => []OneTimer
  <1>1. NetworkInv => OneTimer
    BY TimerOfFlow DEF NetworkInv, FlowHolds, OneTimer
  <1> QED
    BY <1>1, NetworkInvariant, PTL

(***************************************************************************)
(* The same for any network whatever, of FlowNetwork's queues or not.      *)
(***************************************************************************)

\* What the network has lost of all.
LEMMA AnyCarries ==
  ASSUME NEW f, NEW all, AnyNetwork(f)!Carries(all)
  PROVE  Carried(all, Net(f)', lost[f], lost'[f])
  <1>1. \E n \in {Net(f)'} : AnyNetwork(f)!PartOf(n, all)
          /\ lost'[f] = lost[f] \union {m.type : m \in AnyNetwork(f)!Missing(n, all)}
    BY DEF AnyNetwork!Carries
  <1> QED
    BY <1>1, SameOperators DEF Carried

\* The invariant of a flow holds of its initial state, and each step keeps it.
LEMMA AnyInit ==
  ASSUME NEW f \in Flows, AnyNetwork(f)!Init PROVE FlowHolds(f)
  <1>1. PICK S : S = {[class |-> Kind(c, f).class, size |-> Kind(c, f).size] : c \in Configs}
    OBVIOUS
  <1>2. PICK k \in S : flow[f] = AnyNetwork(f)!New(k.class, k.size)
    BY <1>1 DEF AnyNetwork!Init
  <1>3. S \subseteq [class : AnyNetwork(f)!FlowClass, size : Nat \ {0}]
    BY <1>1, KindsOfConfigs DEF AnyNetwork!KindAssumption
  <1>4. k.class \in FlowClass /\ k.size \in Nat \ {0}
    BY <1>3, SameOperators
  <1>5. flow[f] = New(k.class, k.size) /\ Net(f) = NoPackets /\ lost[f] = {}
    BY <1>2, SameOperators DEF AnyNetwork!Init
  <1> QED
    BY <1>4, <1>5, NewFits DEF FlowHolds

\* A step of its flow, its timer or its network keeps it.
LEMMA AnyStep ==
  ASSUME NEW f, FlowHolds(f), AnyNetwork(f)!Next
  PROVE  FlowHolds(f)'
  <1>1. PICK e, b, l : e = flow[f] /\ b = Net(f) /\ l = lost[f]
    OBVIOUS
  <1>2. PICK g, n, k : g = flow'[f] /\ n = Net(f)' /\ k = lost'[f]
    OBVIOUS
  <1>3. FlowInv(e, b, l)
    BY <1>1 DEF FlowHolds
  <1>4. FlowInv(g, n, k)
    <2>1. CASE AnyNetwork(f)!StartFlow
      <3>1. ~e.started /\ g = Start(e).flow
        BY <1>1, <1>2, <2>1, SameOperators DEF AnyNetwork!StartFlow, AnyNetwork!Becomes
      <3>2. AnyNetwork(f)!Carries(With(b, Start(e).sent))
        BY <1>1, <2>1, SameOperators DEF AnyNetwork!StartFlow, AnyNetwork!Becomes
      <3> QED
        BY <1>1, <1>2, <1>3, <3>1, <3>2, AnyCarries, StartStep
    <2>2. CASE AnyNetwork(f)!RetxTimeout
      <3>1. e.retx.live > 0 /\ g = HandleTimeout(e).flow
        BY <1>1, <1>2, <2>2, SameOperators DEF AnyNetwork!RetxTimeout, AnyNetwork!Becomes
      <3>2. AnyNetwork(f)!Carries(With(b, HandleTimeout(e).sent))
        BY <1>1, <2>2, SameOperators DEF AnyNetwork!RetxTimeout, AnyNetwork!Becomes
      <3> QED
        BY <1>1, <1>2, <1>3, <3>1, <3>2, AnyCarries, TimeoutStep
    <2>3. ASSUME NEW m \in DOMAIN b, AnyNetwork(f)!PacketArrival(m) PROVE FlowInv(g, n, k)
      <3>1. PICK r \in Receive(e, m) : /\ g = r.flow
                                       /\ AnyNetwork(f)!Carries(With(Less(b, m), r.sent))
        BY <1>1, <1>2, <2>3, SameOperators DEF AnyNetwork!PacketArrival, AnyNetwork!Becomes
      <3> QED
        BY <1>1, <1>2, <1>3, <2>3, <3>1, AnyCarries, ArrivalStep
    <2>4. CASE AnyNetwork(f)!Lose
      <3>1. g = e /\ AnyNetwork(f)!Carries(b)
        BY <1>1, <1>2, <2>4 DEF AnyNetwork!Lose
      <3> QED
        BY <1>1, <1>2, <1>3, <3>1, AnyCarries, LoseStep
    <2> QED
      BY <1>1, <2>1, <2>2, <2>3, <2>4 DEF AnyNetwork!Next
  <1> QED
    BY <1>2, <1>4 DEF FlowHolds

\* A flow over any network that loses its packets, or delivers them in any order, has its
\* types, takes no byte for received that has not been, and keeps one timer as long as
\* something that it has sent is not acknowledged.
THEOREM AnyNetworkIsSafe ==
  ASSUME NEW f \in Flows
  PROVE  AnyNetwork(f)!Spec =>
           [](/\ AnyNetwork(f)!TypeOK
              /\ AnyNetwork(f)!AckedWasReceived
              /\ AnyNetwork(f)!OneTimer)
  <1>1. AnyNetwork(f)!Init => FlowHolds(f)
    BY AnyInit
  <1>2. FlowHolds(f) /\ [AnyNetwork(f)!Next]_(AnyNetwork(f)!vars) => FlowHolds(f)'
    BY AnyStep DEF AnyNetwork!vars, FlowHolds
  <1>3. FlowHolds(f) => /\ AnyNetwork(f)!TypeOK
                        /\ AnyNetwork(f)!AckedWasReceived
                        /\ AnyNetwork(f)!OneTimer
    BY TypesOfFlow, AcksOfFlow, TimerOfFlow
  <1> QED
    BY <1>1, <1>2, <1>3, PTL DEF AnyNetwork!Spec

(***************************************************************************)
(* pFabric: what its priorities rest on.                                   *)
(***************************************************************************)

\* What a flow is thought to have left, its priority, and the packets its window has passed.
Remaining(f) == f.size - f.last_unacked_seq - f.scoreboard_sack_bytes
Below(f) == {s \in Seqs(f) : s < f.next_seq_no}

\* An acknowledgement that comes in order, and leaves something, or ends the flow.
AckOK(f, m) ==
  m.type = "ACK" /\ ~f.finished =>
    /\ f.last_unacked_seq <= m.ack /\ m.ack <= RecvTill(f)
    /\ m.ack = f.size \/ f.size - m.ack - m.sack * Mss > 0

\* A flow that can be ranked by what it has left: it is acknowledged to its size, and not past it.
Rankable(f) == f \in FlowState /\ ReceivedOK(f) /\ End(f) = f.size /\ (~f.finished => Remaining(f) > 0)

\* Packets held past a gap leave the missing one out of the bytes that are there.
LEMMA HeldFacts ==
  ASSUME NEW f \in FlowState, NEW upto \in Seqs(f), NEW H, H \subseteq Seqs(f),
         \A s \in H : s > upto
  PROVE  f.size - upto - Cardinality(H) * Mss > 0
  <1>1. /\ f.size \in Nat /\ f.size >= 1 /\ Mss \in Nat /\ Mss >= 1
        /\ upto \in 0 .. f.size - 1 /\ upto % Mss = 0
    BY StateTypes, WindowAssumption DEF Seqs
  <1>2. PICK left \in Nat : left = f.size - 1 - upto
    BY <1>1
  <1>3. PICK k, r : k = left \div Mss /\ r = left % Mss
    OBVIOUS
  <1>4. k \in Nat /\ r \in 0 .. Mss - 1 /\ left = k * Mss + r /\ k * Mss \in Nat
    <2>1. k \in Nat /\ r \in 0 .. Mss - 1 /\ left = k * Mss + r
      BY <1>1, <1>3
    <2> QED
      BY <1>1, <2>1
  <1>5. PICK F : F = [j \in 0 .. k - 1 |-> upto + (j + 1) * Mss]
    OBVIOUS
  <1>6. IsFiniteSet(0 .. k - 1) /\ Cardinality(0 .. k - 1) = k
    BY <1>4, FirstNumbers
  <1>7. PICK G : G = {F[j] : j \in 0 .. k - 1}
    OBVIOUS
  <1>8. IsFiniteSet(G) /\ Cardinality(G) <= k
    BY <1>6, <1>7, ImageFinite
  <1>9. H \subseteq G
    <2> SUFFICES ASSUME NEW s \in H PROVE s \in G
      OBVIOUS
    <2>1. s \in Nat /\ s % Mss = 0 /\ s > upto /\ s <= f.size - 1
      BY <1>1 DEF Seqs
    <2>2. PICK a, b : a = s \div Mss /\ b = upto \div Mss
      OBVIOUS
    <2>3. a \in Nat /\ b \in Nat /\ s = a * Mss /\ upto = b * Mss
      BY <1>1, <2>1, <2>2
    <2>4. a > b
      BY <1>1, <2>1, <2>3
    <2>5. PICK j \in Nat : j = a - b - 1
      BY <2>3, <2>4
    <2>6. s = upto + (j + 1) * Mss
      <3>1. a = b + (j + 1)
        BY <2>3, <2>5
      <3>2. (b + (j + 1)) * Mss = b * Mss + (j + 1) * Mss
        BY <1>1, <2>3
      <3> QED
        BY <2>3, <3>1, <3>2
    <2>7. j <= k - 1
      <3>1. (j + 1) * Mss <= left
        BY <1>1, <1>2, <2>1, <2>6
      <3>2. SUFFICES ASSUME ~(j <= k - 1) PROVE FALSE
        OBVIOUS
      <3>3. j + 1 >= k + 1
        BY <1>4, <3>2
      <3>4. (j + 1) * Mss >= (k + 1) * Mss
        BY <1>1, <1>4, <3>3
      <3>5. (k + 1) * Mss = k * Mss + Mss
        BY <1>1, <1>4
      <3>6. (j + 1) * Mss \in Nat
        BY <1>1
      <3> QED
        BY <1>1, <1>4, <3>1, <3>4, <3>5, <3>6
    <2>8. j \in 0 .. k - 1 /\ F[j] = s
      BY <1>4, <1>5, <2>6, <2>7
    <2> QED
      BY <1>7, <2>8
  <1>10. IsFiniteSet(H) /\ Cardinality(H) <= Cardinality(G) /\ Cardinality(H) \in Nat
         /\ Cardinality(G) \in Nat
    BY <1>8, <1>9, FS_Subset, FS_CardinalityType
  <1>11. PICK c \in Nat : c = Cardinality(H)
    BY <1>10
  <1>12. c <= k
    BY <1>4, <1>8, <1>10, <1>11
  <1>13. c * Mss <= k * Mss /\ c * Mss \in Nat
    BY <1>1, <1>4, <1>12
  <1> QED
    BY <1>1, <1>2, <1>4, <1>11, <1>13

\* A size that is a number of whole packets.
LEMMA WholePackets ==
  ASSUME NEW f \in FlowState, f.class = "DctcpFlow" => f.size % Mss = 0
  PROVE  End(f) = f.size
  <1>1. f.size \in Nat /\ f.size >= 1 /\ Mss \in Nat /\ Mss >= 1
    BY StateTypes, WindowAssumption
  <1>2. CASE f.class = "DctcpFlow"
    <2>1. PICK q : q = f.size \div Mss
      OBVIOUS
    <2>2. q \in Nat /\ f.size = q * Mss /\ q * Mss \in Nat
      BY <1>1, <1>2, <2>1
    <2>3. PICK e, r : e = (f.size + Mss - 1) \div Mss /\ r = (f.size + Mss - 1) % Mss
      OBVIOUS
    <2>4. e \in Nat /\ r \in 0 .. Mss - 1 /\ f.size + Mss - 1 = e * Mss + r /\ e * Mss \in Nat
      BY <1>1, <2>3
    <2>5. e = q
      <3>1. ASSUME e < q PROVE FALSE
        <4>1. e + 1 <= q
          BY <2>2, <2>4, <3>1
        <4>2. (e + 1) * Mss <= q * Mss
          BY <1>1, <2>2, <2>4, <4>1
        <4>3. (e + 1) * Mss = e * Mss + Mss
          BY <1>1, <2>4
        <4> QED
          BY <1>1, <2>2, <2>4, <4>2, <4>3
      <3>2. ASSUME e > q PROVE FALSE
        <4>1. q + 1 <= e
          BY <2>2, <2>4, <3>2
        <4>2. (q + 1) * Mss <= e * Mss
          BY <1>1, <2>2, <2>4, <4>1
        <4>3. (q + 1) * Mss = q * Mss + Mss
          BY <1>1, <2>2
        <4> QED
          BY <1>1, <2>2, <2>4, <4>2, <4>3
      <3> QED
        BY <2>2, <2>4, <3>1, <3>2
    <2> QED
      BY <1>2, <2>2, <2>3, <2>5 DEF End
  <1>3. CASE f.class # "DctcpFlow"
    BY <1>3 DEF End
  <1> QED
    BY <1>2, <1>3

\* send_pending_data passes as many packets as it sends, or more.
LEMMA SendCount ==
  ASSUME NEW f \in FlowState, NEW r, r = SendPendingData(f)
  PROVE  /\ IsFiniteSet(r.sent) /\ Cardinality(r.sent) \in Nat /\ Cardinality(Below(f)) \in Nat
         /\ Cardinality(Below(r.flow)) \in Nat
         /\ Cardinality(r.sent) + Cardinality(Below(f)) <= Cardinality(Below(r.flow))
         /\ r.sent # {} => f.received_bytes < f.size
  <1>1. PICK W, n : W = InWindow(f) /\ n = PassedTo(f, W)
    OBVIOUS
  <1>2. /\ r.flow = [f EXCEPT !.next_seq_no = n, !.retx = SetIfNone(f, W)]
        /\ r.sent = {DataPkt(s) : s \in W \ f.received}
    BY <1>1 DEF SendPendingData, After
  <1>3. /\ f.size \in Nat /\ f.next_seq_no \in Nat /\ Mss \in Nat /\ Mss >= 1
        /\ Seqs(f) \subseteq 0 .. f.size - 1 /\ IsFiniteSet(Seqs(f))
    BY StateTypes, SeqsFacts, WindowAssumption
  <1>4. W \subseteq Seqs(f) /\ \A s \in W : s >= f.next_seq_no
    BY <1>1 DEF InWindow
  <1>5. IsFiniteSet(W) /\ IsFiniteSet(W \ f.received) /\ Cardinality(W \ f.received) <= Cardinality(W)
        /\ Cardinality(W) \in Nat
    BY <1>3, <1>4, FS_Subset, FS_CardinalityType
  <1>6. IsFiniteSet(r.sent) /\ Cardinality(r.sent) <= Cardinality(W \ f.received)
    <2>1. PICK M : M = [s \in W \ f.received |-> DataPkt(s)]
      OBVIOUS
    <2>2. r.sent = {M[s] : s \in W \ f.received}
      BY <1>2, <2>1
    <2> QED
      BY <1>5, <2>2, ImageFinite
  <1>7. r.flow.next_seq_no = n /\ Seqs(r.flow) = Seqs(f)
    BY <1>2 DEF FlowState, Seqs
  <1>8. W \union Below(f) \subseteq Below(r.flow)
    <2>1. CASE W = {}
      BY <1>1, <1>7, <2>1 DEF PassedTo, Below
    <2>2. CASE W # {}
      <3>1. Max(W) \in W /\ \A s \in W : s <= Max(W)
        <4>1. f.size - 1 \in Nat
          BY <1>3, StateTypes
        <4>2. W \subseteq 0 .. f.size - 1
          BY <1>3, <1>4
        <4> QED
          BY <2>2, <4>1, <4>2, MaxFacts
      <3>2. PICK x : x = Max(W)
        OBVIOUS
      <3>3. n = MinOf(f.size, x + Mss) /\ x \in Nat /\ x >= f.next_seq_no
        BY <1>1, <1>3, <1>4, <2>2, <3>1, <3>2 DEF PassedTo
      <3>4. \A s \in W \union Below(f) : s \in Nat /\ s < f.size /\ s < x + Mss
        BY <1>3, <1>4, <3>1, <3>2, <3>3 DEF Below
      <3>5. \A s \in W \union Below(f) : s < n
        BY <1>3, <3>3, <3>4 DEF MinOf
      <3> QED
        BY <1>4, <1>7, <3>5 DEF Below
    <2> QED
      BY <2>1, <2>2
  <1>9. W \intersect Below(f) = {}
    BY <1>3, <1>4 DEF Below
  <1>10. /\ IsFiniteSet(Below(f)) /\ IsFiniteSet(Below(r.flow))
         /\ Cardinality(Below(f)) \in Nat /\ Cardinality(Below(r.flow)) \in Nat
    <2>1. Below(f) \subseteq Seqs(f) /\ Below(r.flow) \subseteq Seqs(f)
      BY <1>7 DEF Below
    <2> QED
      BY <1>3, <2>1, FS_Subset, FS_CardinalityType
  <1>11. Cardinality(W \union Below(f)) = Cardinality(W) + Cardinality(Below(f))
    <2>1. Cardinality(W \intersect Below(f)) = 0
      BY <1>9, FS_EmptySet
    <2>2. Cardinality(W \union Below(f)) =
            Cardinality(W) + Cardinality(Below(f)) - Cardinality(W \intersect Below(f))
      BY <1>5, <1>10, FS_Union
    <2> QED
      BY <1>5, <1>10, <2>1, <2>2
  <1>12. Cardinality(W \union Below(f)) <= Cardinality(Below(r.flow))
    BY <1>8, <1>10, FS_Subset
  <1>13. Cardinality(r.sent) \in Nat /\ Cardinality(W \ f.received) \in Nat
    BY <1>5, <1>6, FS_CardinalityType
  <1>14. r.sent # {} => f.received_bytes < f.size
    BY <1>1, <1>2 DEF InWindow
  <1> QED
    BY <1>5, <1>6, <1>10, <1>11, <1>12, <1>13, <1>14

\* recv_till is the first packet missing, if one is.
LEMMA RecvTillIs ==
  ASSUME NEW f \in FlowState, End(f) = f.size
  PROVE  /\ RecvTill(f) \in Nat /\ RecvTill(f) <= f.size
         /\ RecvTill(f) = f.size \/ RecvTill(f) \in Seqs(f) \ f.received
         /\ \A s \in Seqs(f) \ f.received : RecvTill(f) <= s
  <1>1. PICK S : S = {End(f)} \union (Seqs(f) \ f.received)
    OBVIOUS
  <1>2. S \subseteq Nat /\ S # {}
    BY <1>1, AckFacts, SeqsFacts
  <1>3. RecvTill(f) = Min(S)
    BY <1>1 DEF RecvTill, End
  <1>4. RecvTill(f) \in S /\ \A s \in S : RecvTill(f) <= s
    BY <1>2, <1>3, MinFacts
  <1> QED
    BY <1>1, <1>2, <1>4

\* It does not fall when more is received.
LEMMA RecvTillGrows ==
  ASSUME NEW f \in FlowState, NEW g \in FlowState, End(f) = f.size,
         g.class = f.class, g.size = f.size, f.received \subseteq g.received
  PROVE  RecvTill(f) <= RecvTill(g)
  <1>1. End(g) = g.size /\ Seqs(g) = Seqs(f)
    BY DEF End, Seqs
  <1>2. RecvTill(g) = f.size \/ RecvTill(g) \in Seqs(f) \ f.received
    BY <1>1, RecvTillIs
  <1> QED
    BY <1>2, RecvTillIs

\* What a handler of f does when the packets of M are under way: the flow can be ranked,
\* only an unfinished one sends, and acknowledgements stay in order.
Handled(f, r, M) ==
  /\ Rankable(r.flow) /\ r.flow.class = f.class /\ r.flow.size = f.size
  /\ IsFiniteSet(r.sent) /\ (r.sent # {} => ~r.flow.finished)
  /\ \A m \in M \union r.sent : AckOK(r.flow, m)
  /\ \A m \in r.sent : m.type \in {"DATA", "ACK"}
  /\ \A m \in r.sent, p \in M \union r.sent : m.type = "ACK" /\ p.type = "ACK" => p.ack <= m.ack

\* The packets under way are acknowledgements in order, or others.
InHand(f, M) == M \subseteq AnyPacket /\ \A m \in M : AckOK(f, m)

\* The number of an acknowledgement.
LEMMA AckTypes ==
  ASSUME NEW m \in AnyPacket, m.type = "ACK"
  PROVE  m.ack \in Nat /\ m.sack \in Nat
  BY DEF AnyPacket, RtsPkt, CtsPkt

\* receive_data_pkt
LEMMA DataHandled ==
  ASSUME NEW f, Rankable(f), TimerOK(f), NEW s \in Seqs(f), NEW r, r = ReceiveData(f, s),
         NEW M, InHand(f, M)
  PROVE  /\ Handled(f, r, M)
         /\ Cardinality(r.sent) <= 1 /\ Below(r.flow) = Below(f)
  <1>1. f \in FlowState /\ ReceivedOK(f) /\ End(f) = f.size
    BY DEF Rankable
  <1>2. CASE f.finished
    <2>1. r.flow = f /\ r.sent = {}
      BY <1>2 DEF ReceiveData, After
    <2> QED
      BY <1>1, <2>1, FS_EmptySet DEF Handled, InHand
  <1>3. CASE ~f.finished
    <2>1. Keeps(f, r)
      BY <1>1, DataFacts
    <2>2. PICK g : g = [f EXCEPT !.received = @ \union {s},
                                 !.received_bytes = @ + IF s \in f.received THEN 0
                                                        ELSE PayloadOf(f, s)]
      OBVIOUS
    <2>3. PICK upto, H : upto = RecvTill(g) /\ H = {x \in g.received : x > upto}
      OBVIOUS
    <2>4. r.flow = g /\ r.sent = {AckPkt(upto, Cardinality(H))}
      BY <1>3, <2>2, <2>3 DEF ReceiveData, After
    <2>5. /\ g \in FlowState /\ g.class = f.class /\ g.size = f.size /\ ReceivedOK(g)
      BY <2>1, <2>4 DEF Keeps
    <2>6. /\ g.finished = f.finished /\ g.last_unacked_seq = f.last_unacked_seq
          /\ g.scoreboard_sack_bytes = f.scoreboard_sack_bytes /\ g.next_seq_no = f.next_seq_no
          /\ f.received \subseteq g.received
      BY <1>1, <2>2 DEF FlowState
    <2>7. End(g) = g.size /\ Seqs(g) = Seqs(f) /\ Below(g) = Below(f)
      BY <1>1, <2>5, <2>6 DEF End, Seqs, Below
    <2>8. Rankable(g)
      BY <1>3, <2>5, <2>6, <2>7 DEF Rankable, Remaining
    <2>9. /\ upto \in Nat /\ upto <= f.size
          /\ upto = f.size \/ upto \in Seqs(f) \ g.received
          /\ RecvTill(f) <= upto /\ RecvTill(f) \in Nat
      BY <1>1, <2>3, <2>5, <2>6, <2>7, RecvTillIs, RecvTillGrows
    <2>10. f.last_unacked_seq <= upto
      <3>1. f.last_unacked_seq \in Nat /\ f.last_unacked_seq \in AckNumbers(f) /\ Got(f, f.last_unacked_seq)
        BY <1>1, <1>3, StateTypes DEF ReceivedOK
      <3>2. f.last_unacked_seq <= f.size
        BY <1>1, <3>1, AckFacts
      <3>3. upto \in Seqs(f) \ g.received => ~(upto < f.last_unacked_seq)
        BY <2>6, <3>1 DEF Got
      <3> QED
        BY <2>9, <3>1, <3>2, <3>3
    <2>11. PICK n : n = Cardinality(H)
      OBVIOUS
    <2>12. upto = f.size \/ f.size - upto - n * Mss > 0
      <3>1. ASSUME upto \in Seqs(f) PROVE f.size - upto - n * Mss > 0
        <4>1. H \subseteq Seqs(f) /\ \A x \in H : x > upto
          BY <2>3, <2>5, <2>7 DEF ReceivedOK
        <4> QED
          BY <1>1, <2>11, <3>1, <4>1, HeldFacts
      <3> QED
        BY <2>9, <3>1
    <2>13. AckOK(g, AckPkt(upto, n))
      BY <2>3, <2>5, <2>6, <2>9, <2>10, <2>12 DEF AckOK, AckPkt
    <2>14. ASSUME NEW m \in M, m.type = "ACK" PROVE AckOK(g, m) /\ m.ack <= upto
      <3>1. m.ack \in Nat /\ m.sack \in Nat
        BY <2>14, AckTypes DEF InHand
      <3>2. /\ f.last_unacked_seq <= m.ack /\ m.ack <= RecvTill(f)
            /\ m.ack = f.size \/ f.size - m.ack - m.sack * Mss > 0
        BY <1>3, <2>14 DEF InHand, AckOK
      <3>3. m.ack <= upto
        BY <2>9, <3>1, <3>2
      <3> QED
        BY <2>3, <2>5, <2>6, <3>2, <3>3 DEF AckOK
    <2>15. \A m \in M : AckOK(g, m)
      BY <2>14 DEF AckOK
    <2>16. PICK p : p = AckPkt(upto, n)
      OBVIOUS
    <2>17. p.type = "ACK" /\ p.ack = upto
      BY <2>16 DEF AckPkt
    <2>18. r.sent = {p} /\ IsFiniteSet(r.sent) /\ Cardinality(r.sent) = 1
      BY <2>4, <2>11, <2>16, FS_Singleton
    <2>19. \A m \in M \union r.sent : AckOK(g, m)
      BY <2>13, <2>15, <2>16, <2>18
    <2>20. \A m \in M \union r.sent : m.type = "ACK" => m.ack <= upto
      BY <2>9, <2>14, <2>17, <2>18
    <2> QED
      BY <1>3, <2>4, <2>5, <2>6, <2>7, <2>8, <2>17, <2>18, <2>19, <2>20 DEF Handled
  <1> QED
    BY <1>2, <1>3

\* What send_pending_data leaves alone.
LEMMA SendLeaves ==
  ASSUME NEW f \in FlowState, NEW h, h = SendPendingData(f).flow
  PROVE  /\ h \in FlowState /\ h.class = f.class /\ h.size = f.size /\ h.finished = f.finished
         /\ h.last_unacked_seq = f.last_unacked_seq /\ h.received = f.received
         /\ h.scoreboard_sack_bytes = f.scoreboard_sack_bytes
         /\ h.received_bytes = f.received_bytes
         /\ \A m \in SendPendingData(f).sent : m.type = "DATA"
  <1>1. PICK n \in Nat, t \in Timer :
           /\ SendPendingData(f).flow = [f EXCEPT !.next_seq_no = n, !.retx = t]
           /\ f.retx.event => t = f.retx
           /\ 0 \in InWindow(f) /\ ~f.retx.event => t = WithTimer(f, f.retx)
           /\ SendPendingData(f).sent \subseteq {DataPkt(s) : s \in Seqs(f)}
    BY SendFacts
  <1>2. h = [f EXCEPT !.next_seq_no = n, !.retx = t]
    BY <1>1
  <1>3. /\ h \in FlowState /\ h.class = f.class /\ h.size = f.size /\ h.finished = f.finished
        /\ h.last_unacked_seq = f.last_unacked_seq /\ h.received = f.received
        /\ h.scoreboard_sack_bytes = f.scoreboard_sack_bytes
        /\ h.received_bytes = f.received_bytes
    BY <1>2 DEF FlowState
  <1>4. ASSUME NEW m \in SendPendingData(f).sent PROVE m.type = "DATA"
    <2>1. PICK s \in Seqs(f) : m = DataPkt(s)
      BY <1>1, <1>4
    <2> QED
      BY <2>1 DEF DataPkt
  <1> QED
    BY <1>3, <1>4

\* A handler that sends data, by send_pending_data for the flow e, and makes g of the flow.
LEMMA SendHandled ==
  ASSUME NEW f, NEW r, NEW e \in FlowState, NEW g, r.flow = g, r.sent = SendPendingData(e).sent,
         g \in FlowState, ReceivedOK(g), End(g) = g.size, g.class = f.class, g.size = f.size,
         g.finished => e.received_bytes >= e.size,
         ~g.finished => Remaining(g) > 0,
         NEW M, \A m \in M : AckOK(g, m)
  PROVE  Handled(f, r, M)
  <1>1. \A m \in r.sent : m.type = "DATA"
    BY SendLeaves
  <1>2. IsFiniteSet(r.sent) /\ (r.sent # {} => ~g.finished)
    <2>1. e.received_bytes \in Nat /\ e.size \in Nat
      BY StateTypes
    <2> QED
      BY <2>1, SendCount
  <1>3. \A m \in M \union r.sent : AckOK(g, m)
    BY <1>1 DEF AckOK
  <1> QED
    BY <1>1, <1>2, <1>3 DEF Handled, Rankable

\* The packets passed, of a flow that has passed as many as another, or more.
LEMMA BelowFacts ==
  ASSUME NEW f \in FlowState
  PROVE  /\ IsFiniteSet(Below(f)) /\ Cardinality(Below(f)) \in Nat
         /\ Cardinality(Seqs(f)) \in Nat /\ Cardinality(Below(f)) <= Cardinality(Seqs(f))
         /\ \A g \in FlowState : g.size = f.size /\ f.next_seq_no <= g.next_seq_no =>
              Cardinality(Below(f)) <= Cardinality(Below(g))
  <1>1. IsFiniteSet(Seqs(f)) /\ Seqs(f) \subseteq Nat
    BY SeqsFacts
  <1>2. Below(f) \subseteq Seqs(f)
    BY DEF Below
  <1>3. ASSUME NEW g \in FlowState, g.size = f.size, f.next_seq_no <= g.next_seq_no
        PROVE  Cardinality(Below(f)) <= Cardinality(Below(g))
    <2>1. Seqs(g) = Seqs(f)
      BY <1>3 DEF Seqs
    <2>2. f.next_seq_no \in Nat /\ g.next_seq_no \in Nat
      BY StateTypes
    <2>3. Below(f) \subseteq Below(g)
      BY <1>1, <1>3, <2>1, <2>2 DEF Below
    <2>4. IsFiniteSet(Below(g))
      BY SeqsFacts, FS_Subset DEF Below
    <2> QED
      BY <2>3, <2>4, FS_Subset
  <1> QED
    BY <1>1, <1>2, <1>3, FS_Subset, FS_CardinalityType

\* What a handler sends is passed, and what was passed before stays so.
Passes(f, r) ==
  /\ Cardinality(r.sent) \in Nat /\ Cardinality(Below(f)) \in Nat
  /\ Cardinality(Below(r.flow)) \in Nat
  /\ Cardinality(r.sent) + Cardinality(Below(f)) <= Cardinality(Below(r.flow))

\* The flow after an acknowledgement.
LEMMA AckedIs ==
  ASSUME NEW f \in FlowState, NEW a \in Nat, NEW n \in Nat, NEW h, h = Acked(f, AckPkt(a, n)),
         f.last_unacked_seq <= a
  PROVE  /\ h \in FlowState /\ h.class = f.class /\ h.size = f.size
         /\ h.finished = f.finished /\ h.received = f.received
         /\ h.received_bytes = f.received_bytes
         /\ h.last_unacked_seq = a /\ h.scoreboard_sack_bytes = n * Mss
         /\ f.next_seq_no <= h.next_seq_no
  <1>1. PICK b, q, u : /\ b = n * Mss /\ q = MaxOf(f.next_seq_no, a)
                       /\ u = MaxOf(f.last_unacked_seq, a)
    OBVIOUS
  <1>2. f.next_seq_no \in Nat /\ f.last_unacked_seq \in Nat /\ Mss \in Nat
    BY StateTypes, WindowAssumption
  <1>3. b \in Nat /\ q \in Nat /\ u = a /\ f.next_seq_no <= q
    BY <1>1, <1>2 DEF MaxOf
  <1>4. h = [f EXCEPT !.scoreboard_sack_bytes = b, !.next_seq_no = q, !.last_unacked_seq = u]
    BY <1>1 DEF Acked, AckPkt
  <1>5. /\ h \in FlowState /\ h.class = f.class /\ h.size = f.size
        /\ h.finished = f.finished /\ h.received = f.received
        /\ h.received_bytes = f.received_bytes
        /\ h.last_unacked_seq = u /\ h.scoreboard_sack_bytes = b /\ h.next_seq_no = q
    BY <1>3, <1>4 DEF FlowState
  <1> QED
    BY <1>1, <1>3, <1>5

\* receive_ack, of an acknowledgement that comes before the later ones.
LEMMA AckRanks ==
  ASSUME NEW f, Rankable(f), TimerOK(f), NEW a, NEW n, OpenPacket(f, AckPkt(a, n)),
         AckOK(f, AckPkt(a, n)), NEW M, InHand(f, M),
         \A m \in M : m.type = "ACK" => a <= m.ack,
         NEW r \in ReceiveAck(f, AckPkt(a, n))
  PROVE  Handled(f, r, M) /\ Passes(f, r)
  <1>1. f \in FlowState /\ ReceivedOK(f) /\ End(f) = f.size /\ f.size \in Nat
        /\ f.last_unacked_seq \in Nat /\ Mss \in Nat
    BY StateTypes, WindowAssumption DEF Rankable
  <1>2. PICK p : p = AckPkt(a, n)
    OBVIOUS
  <1>3. p.ack = a /\ p.sack = n /\ p.type = "ACK"
    BY <1>2 DEF AckPkt
  <1>4. /\ a \in AckNumbers(f) /\ a \in Nat /\ n \in 0 .. Cardinality(Seqs(f)) /\ n \in Nat
        /\ (~f.finished => Got(f, a))
    <2>1. a \in AckNumbers(f) /\ n \in 0 .. Cardinality(Seqs(f)) /\ (~f.finished => Got(f, a))
      BY DEF OpenPacket, AckPkt, DataPkt
    <2> QED
      BY <1>1, <2>1, AckFacts, SeqsFacts
  <1>5. Keeps(f, r)
    BY <1>1, AckHandled
  <1>6. CASE f.finished
    <2>1. r.flow = f /\ r.sent = {}
      BY <1>6 DEF ReceiveAck, After
    <2>2. Handled(f, r, M)
      BY <1>1, <2>1, FS_EmptySet DEF Handled, InHand, Rankable
    <2>3. Cardinality(r.sent) = 0
      BY <2>1, FS_EmptySet
    <2> QED
      BY <1>1, <2>1, <2>2, <2>3, BelowFacts DEF Passes
  <1>7. CASE ~f.finished
    <2>1. /\ f.last_unacked_seq <= a
          /\ a = f.size \/ f.size - a - n * Mss > 0
      BY <1>2, <1>3, <1>7 DEF AckOK
    <2>2. PICK h : h = Acked(f, p)
      OBVIOUS
    <2>3. /\ h \in FlowState /\ h.class = f.class /\ h.size = f.size
          /\ h.finished = f.finished /\ h.received = f.received
          /\ h.received_bytes = f.received_bytes
          /\ h.last_unacked_seq = a /\ h.scoreboard_sack_bytes = n * Mss
          /\ f.next_seq_no <= h.next_seq_no
      <3>1. f \in FlowState /\ a \in Nat /\ n \in Nat /\ h = Acked(f, AckPkt(a, n))
            /\ f.last_unacked_seq <= a
        BY <1>1, <1>2, <1>4, <2>1, <2>2
      <3> QED
        BY ONLY <3>1, WindowAssumption, AckedIs
    <2>4. ASSUME NEW g, g.finished = f.finished, g.class = f.class, g.size = f.size,
                 g.received = f.received, g.last_unacked_seq = a
          PROVE  \A m \in M : AckOK(g, m)
      <3>1. RecvTill(g) = RecvTill(f)
        BY <2>4 DEF RecvTill, Seqs
      <3>2. ASSUME NEW m \in M, m.type = "ACK" PROVE AckOK(g, m)
        <4>1. AckOK(f, m) /\ a <= m.ack
          BY <3>2 DEF InHand
        <4> QED
          BY <2>4, <3>1, <4>1 DEF AckOK
      <3> QED
        BY <3>2 DEF AckOK
    <2>5. CASE a <= f.last_unacked_seq
      <3>1. a = f.last_unacked_seq
        BY <1>1, <1>4, <2>1, <2>5
      <3>2. a # f.size
        BY <1>1, <1>7, <3>1 DEF ReceivedOK
      <3>3. Remaining(h) > 0
        BY <2>1, <2>3, <3>2 DEF Remaining
      <3>4. r = After(h, {})
        BY <1>2, <1>3, <1>7, <2>2, <2>5 DEF ReceiveAck
      <3>5. r.flow = h /\ r.sent = {}
        BY <3>4 DEF After
      <3>6. ReceivedOK(h) /\ End(h) = h.size
        BY <1>1, <1>5, <2>3, <3>5 DEF Keeps, End
      <3>7. \A m \in M : AckOK(h, m)
        BY <2>3, <2>4
      <3>8. Cardinality(r.sent) = 0 /\ IsFiniteSet(r.sent)
        BY <3>5, FS_EmptySet
      <3>9. Cardinality(Below(f)) \in Nat /\ Cardinality(Below(h)) \in Nat
            /\ Cardinality(Below(f)) <= Cardinality(Below(h))
        BY <1>1, <2>3, BelowFacts
      <3>10. Passes(f, r)
        BY <3>5, <3>8, <3>9 DEF Passes
      <3> QED
        BY <2>3, <3>3, <3>5, <3>6, <3>7, <3>8, <3>10 DEF Handled, Rankable
    <2>6. CASE ~(a <= f.last_unacked_seq)
      <3>1. PICK g \in Increased(h) : r = NewAck(g)
        BY <1>2, <1>3, <1>7, <2>2, <2>6 DEF ReceiveAck
      <3>2. PICK c \in 1 .. MaxCwnd, k \in 0 .. MaxCwnd :
              g = [h EXCEPT !.cwnd_mss = c, !.count_ack_additive_increase = k]
        BY <2>3, <3>1, IncreasedFacts
      <3>3. /\ g \in FlowState /\ g.class = f.class /\ g.size = f.size
            /\ g.finished = f.finished /\ g.received = f.received
            /\ g.received_bytes = f.received_bytes /\ g.last_unacked_seq = a
            /\ g.scoreboard_sack_bytes = n * Mss /\ f.next_seq_no <= g.next_seq_no
        BY <2>3, <3>2 DEF FlowState
      <3>4. PICK e : e = SendPendingData(g).flow
        OBVIOUS
      <3>5. /\ e \in FlowState /\ e.class = g.class /\ e.size = g.size
            /\ e.last_unacked_seq = a /\ e.received = f.received
            /\ e.scoreboard_sack_bytes = n * Mss
        BY <3>3, <3>4, SendLeaves
      <3>6. PICK t, done, P : /\ t = TimerMoved(e) /\ done = (a = f.size)
                              /\ P = IF done THEN {} ELSE f.received
        OBVIOUS
      <3>7. PICK w : w = [[e EXCEPT !.retx = t] EXCEPT !.finished = done, !.received = P]
        OBVIOUS
      <3>8. r.flow = w /\ r.sent = SendPendingData(g).sent
        <4>1. [e EXCEPT !.retx = t].received = f.received
          BY <3>5 DEF FlowState
        <4> QED
          BY <3>1, <3>3, <3>4, <3>6, <3>7, <4>1 DEF NewAck, After
      <3>9. /\ w.class = f.class /\ w.size = f.size /\ w.finished = done
            /\ w.received = P /\ w.last_unacked_seq = a
            /\ w.scoreboard_sack_bytes = n * Mss /\ w.next_seq_no = e.next_seq_no
        BY <3>3, <3>5, <3>7 DEF FlowState
      <3>10. w \in FlowState /\ ReceivedOK(w) /\ End(w) = w.size
        BY <1>1, <1>5, <3>8, <3>9 DEF Keeps, End
      <3>11. w.finished => g.received_bytes >= g.size
        <4>1. ASSUME a = f.size PROVE f.received_bytes = f.size
          <5>1. Seqs(f) \subseteq f.received
            BY <1>1, <1>4, <1>7, <4>1, SeqsFacts DEF Got
          <5> QED
            BY <1>1, <1>7, <5>1, BytesFacts DEF ReceivedOK
        <4>2. w.finished => a = f.size
          BY <3>6, <3>9
        <4>3. g.received_bytes = f.received_bytes /\ g.size = f.size
          BY <3>3
        <4> QED
          BY <1>1, <4>1, <4>2, <4>3
      <3>12. ~w.finished => Remaining(w) > 0
        BY <2>1, <3>6, <3>9 DEF Remaining
      <3>13. \A m \in M : AckOK(w, m)
        <4>1. CASE w.finished
          BY <4>1 DEF AckOK
        <4>2. CASE ~w.finished
          <5>1. w.received = f.received /\ w.finished = f.finished
            BY <1>1, <1>7, <3>6, <3>9, <4>2 DEF FlowState
          <5> QED
            BY <2>4, <3>9, <5>1
        <4> QED
          BY <4>1, <4>2
      <3>14. Handled(f, r, M)
        BY <3>3, <3>8, <3>9, <3>10, <3>11, <3>12, <3>13, SendHandled
      <3>15. Below(w) = Below(e)
        BY <3>3, <3>5, <3>9 DEF Below, Seqs
      <3>16. /\ Cardinality(r.sent) \in Nat /\ Cardinality(Below(g)) \in Nat
             /\ Cardinality(Below(e)) \in Nat
             /\ Cardinality(r.sent) + Cardinality(Below(g)) <= Cardinality(Below(e))
        BY <3>3, <3>4, <3>8, SendCount
      <3>17. Cardinality(Below(f)) \in Nat /\ Cardinality(Below(f)) <= Cardinality(Below(g))
        BY <1>1, <3>3, BelowFacts
      <3>18. Passes(f, r)
        BY <3>8, <3>15, <3>16, <3>17 DEF Passes
      <3> QED
        BY <3>14, <3>18
    <2> QED
      BY <2>5, <2>6
  <1> QED
    BY <1>6, <1>7

\* handle_timeout
LEMMA TimeoutRanks ==
  ASSUME NEW f, Rankable(f), TimerOK(f), f.retx.live > 0, NEW M, InHand(f, M),
         NEW r, r = HandleTimeout(f)
  PROVE  /\ Handled(f, r, M)
         /\ Cardinality(r.sent) \in Nat /\ Cardinality(Below(r.flow)) \in Nat
         /\ Cardinality(r.sent) <= Cardinality(Below(r.flow))
  <1>1. f \in FlowState /\ ReceivedOK(f) /\ End(f) = f.size
    BY DEF Rankable
  <1>2. PICK w : w = [GoBack(HalfWindow(f)) EXCEPT !.cwnd_mss = 1, !.retx.live = @ - 1]
    OBVIOUS
  <1>3. /\ w \in FlowState /\ f.last_unacked_seq < f.size
        /\ w.class = f.class /\ w.size = f.size
        /\ w.finished = f.finished /\ w.last_unacked_seq = f.last_unacked_seq
        /\ w.received = f.received /\ w.scoreboard_sack_bytes = f.scoreboard_sack_bytes
    BY <1>1, <1>2, FiredIs
  <1>4. PICK y : y = SendPendingData(w).flow
    OBVIOUS
  <1>5. /\ y \in FlowState /\ y.class = f.class /\ y.size = f.size /\ y.finished = f.finished
        /\ y.last_unacked_seq = f.last_unacked_seq /\ y.received = f.received
        /\ y.scoreboard_sack_bytes = f.scoreboard_sack_bytes
    BY <1>3, <1>4, SendLeaves
  <1>6. PICK t : t = WithTimer(y, [y.retx EXCEPT !.event = FALSE])
    OBVIOUS
  <1>7. PICK g : g = [y EXCEPT !.retx = t]
    OBVIOUS
  <1>8. r.flow = g /\ r.sent = SendPendingData(w).sent
    BY <1>2, <1>4, <1>6, <1>7 DEF HandleTimeout, After
  <1>9. /\ g.class = f.class /\ g.size = f.size /\ g.finished = f.finished
        /\ g.last_unacked_seq = f.last_unacked_seq /\ g.received = f.received
        /\ g.scoreboard_sack_bytes = f.scoreboard_sack_bytes /\ g.next_seq_no = y.next_seq_no
    BY <1>5, <1>7 DEF FlowState
  <1>10. Keeps(f, r)
    BY <1>1, TimeoutFacts
  <1>11. g \in FlowState /\ ReceivedOK(g) /\ End(g) = g.size
    BY <1>1, <1>8, <1>9, <1>10 DEF Keeps, End
  <1>12. ~f.finished
    <2>1. f.last_unacked_seq \in Nat /\ f.size \in Nat
      BY <1>1, StateTypes
    <2> QED
      BY <1>1, <1>3, <2>1 DEF ReceivedOK
  <1>13. Remaining(g) > 0
    BY <1>9, <1>12 DEF Rankable, Remaining
  <1>14. \A m \in M : AckOK(g, m)
    <2>1. RecvTill(g) = RecvTill(f)
      BY <1>9 DEF RecvTill, Seqs
    <2> QED
      BY <1>9, <2>1 DEF InHand, AckOK
  <1>15. Handled(f, r, M)
    BY <1>3, <1>8, <1>9, <1>11, <1>12, <1>13, <1>14, SendHandled
  <1>16. Below(g) = Below(y)
    BY <1>5, <1>9 DEF Below, Seqs
  <1>17. /\ Cardinality(r.sent) \in Nat /\ Cardinality(Below(w)) \in Nat
         /\ Cardinality(Below(y)) \in Nat
         /\ Cardinality(r.sent) + Cardinality(Below(w)) <= Cardinality(Below(y))
    BY <1>3, <1>4, <1>8, SendCount
  <1> QED
    BY <1>8, <1>15, <1>16, <1>17

\* start_flow, of a class that sends at once.
LEMMA StartRanks ==
  ASSUME NEW e, NEW M, e.class \in FlowClass, e.size \in Nat \ {0}, e = New(e.class, e.size),
         End(e) = e.size, e.class # "TCPFlow", InHand(e, M), NEW r, r = Start(e)
  PROVE  Handled(e, r, M) /\ Passes(e, r)
  <1>1. PICK f : f = [e EXCEPT !.started = TRUE]
    OBVIOUS
  <1>2. f = [New(e.class, e.size) EXCEPT !.started = TRUE]
    BY <1>1
  <1>3. /\ f \in FlowState /\ ReceivedOK(f) /\ f.class = e.class /\ f.size = e.size
        /\ ~f.finished /\ f.next_seq_no = 0 /\ f.last_unacked_seq = 0
        /\ f.received_bytes = 0 /\ f.scoreboard_sack_bytes = 0 /\ f.retx = None
    BY <1>2, NewFacts
  <1>4. e \in FlowState
    BY NewFacts
  <1>5. f.received = e.received /\ f.finished = e.finished /\ f.next_seq_no = e.next_seq_no
        /\ f.last_unacked_seq = e.last_unacked_seq
    BY <1>1, <1>4 DEF FlowState
  <1>6. r = SendPendingData(f)
    BY <1>1, <1>3 DEF Start
  <1>7. PICK g : g = r.flow
    OBVIOUS
  <1>8. /\ g \in FlowState /\ g.class = f.class /\ g.size = f.size /\ g.finished = f.finished
        /\ g.last_unacked_seq = 0 /\ g.received = f.received /\ g.scoreboard_sack_bytes = 0
    BY <1>3, <1>6, <1>7, SendLeaves
  <1>9. Keeps(f, r)
    BY <1>3, <1>6, FirstSend
  <1>10. ReceivedOK(g) /\ End(g) = g.size
    BY <1>3, <1>7, <1>8, <1>9 DEF Keeps, End
  <1>11. Remaining(g) > 0
    <2>1. g.size \in Nat \ {0}
      BY <1>3, <1>8
    <2> QED
      BY <1>8, <2>1 DEF Remaining
  <1>12. \A m \in M : AckOK(g, m)
    <2>1. RecvTill(g) = RecvTill(e)
      BY <1>3, <1>5, <1>8 DEF RecvTill, Seqs
    <2> QED
      BY <1>3, <1>5, <1>8, <2>1 DEF InHand, AckOK
  <1>13. Handled(e, r, M)
    BY <1>3, <1>6, <1>7, <1>8, <1>10, <1>11, <1>12, SendHandled
  <1>14. Below(f) = Below(e)
    BY <1>3, <1>5 DEF Below, Seqs
  <1>15. Passes(e, r)
    BY <1>3, <1>6, <1>14, SendCount DEF Passes
  <1> QED
    BY <1>13, <1>15

(***************************************************************************)
(* PFabricQueues.                                                          *)
(***************************************************************************)

\* The packets of a flow in a queue, and in both.
Own(s, f) == {n \in DOMAIN s : s[n].flow = f}
Count(q, f) == Cardinality(Own(q["a"][1], f)) + Cardinality(Own(q["b"][1], f))

IsAck(x) == x.pkt.type = "ACK"

\* A packet is where it is sent from, and only acknowledgements have priority 0.
Placed(x, h) ==
  /\ Sender(x.flow, x.pkt) = h
  /\ x.pkt.type \in {"DATA", "ACK"}
  /\ IF x.pkt.type = "DATA" THEN x.pf_priority > 0 ELSE x.pf_priority = 0

AllPlaced(s, h) == \A n \in 1 .. Len(s) : Placed(s[n], h)

\* Acknowledgements of a flow are in order.
InOrder(s) ==
  \A m, n \in 1 .. Len(s) :
    m < n /\ s[m].flow = s[n].flow /\ IsAck(s[m]) /\ IsAck(s[n]) => s[m].pkt.ack <= s[n].pkt.ack

\* Those in a queue do not come after one that is sent.
Follows(x, s) ==
  IsAck(x) => \A n \in 1 .. Len(s) : s[n].flow = x.flow /\ IsAck(s[n]) => s[n].pkt.ack <= x.pkt.ack

\* A flow's packets are finitely many.
LEMMA OwnFacts ==
  ASSUME NEW s \in Seq(QueuedPacket), NEW f
  PROVE  /\ IsFiniteSet(Own(s, f)) /\ Cardinality(Own(s, f)) \in Nat
         /\ Own(s, f) \subseteq 1 .. Len(s)
  <1>1. Own(s, f) \subseteq 1 .. Len(s) /\ Len(s) \in Nat
    BY DEF Own
  <1>2. IsFiniteSet(1 .. Len(s))
    BY <1>1, FS_Interval
  <1> QED
    BY <1>1, <1>2, FS_Subset, FS_CardinalityType

\* A packet put at the end is one more of its flow.
LEMMA OwnAppended ==
  ASSUME NEW s \in Seq(QueuedPacket), NEW x \in QueuedPacket, NEW f
  PROVE  Cardinality(Own(Append(s, x), f)) = Cardinality(Own(s, f)) + IF x.flow = f THEN 1 ELSE 0
  <1>1. PICK t, last : t = Append(s, x) /\ last = Len(s) + 1
    OBVIOUS
  <1>2. /\ t \in Seq(QueuedPacket) /\ DOMAIN t = 1 .. last /\ DOMAIN s = 1 .. Len(s)
        /\ t[last] = x /\ \A n \in 1 .. Len(s) : t[n] = s[n]
        /\ Len(s) \in Nat
    BY <1>1
  <1>3. CASE x.flow = f
    <2>1. Own(t, f) = Own(s, f) \union {last}
      BY <1>1, <1>2, <1>3 DEF Own
    <2>2. last \notin Own(s, f)
      BY <1>1, <1>2 DEF Own
    <2>3. Cardinality(Own(s, f) \union {last}) = Cardinality(Own(s, f)) + 1
      BY <2>2, OwnFacts, FS_AddElement
    <2> QED
      BY <1>1, <1>3, <2>1, <2>3
  <1>4. CASE x.flow # f
    <2>1. Own(t, f) = Own(s, f)
      BY <1>1, <1>2, <1>4 DEF Own
    <2> QED
      BY <1>1, <1>4, <2>1, OwnFacts
  <1> QED
    BY <1>3, <1>4

\* A packet removed is one less.
LEMMA OwnRemoved ==
  ASSUME NEW s \in Seq(QueuedPacket), NEW k \in 1 .. Len(s), NEW f
  PROVE  Cardinality(Own(Removed(s, k), f)) =
           Cardinality(Own(s, f)) - IF s[k].flow = f THEN 1 ELSE 0
  <1>1. PICK t, len : t = Removed(s, k) /\ len = Len(s) - 1
    OBVIOUS
  <1>2. /\ t \in Seq(QueuedPacket) /\ Len(t) = len
        /\ \A m \in 1 .. len : t[m] = IF m < k THEN s[m] ELSE s[m + 1]
    BY <1>1, RemovedIs
  <1>3. len \in Nat /\ Len(s) = len + 1 /\ k \in 1 .. len + 1 /\ DOMAIN t = 1 .. len
        /\ DOMAIN s = 1 .. len + 1
    BY <1>1, <1>2
  <1>4. PICK M : M = [m \in Own(t, f) |-> IF m < k THEN m ELSE m + 1]
    OBVIOUS
  <1>5. PICK T : T = Own(s, f) \ {k}
    OBVIOUS
  <1>6. Own(t, f) \subseteq 1 .. len /\ \A m \in Own(t, f) : t[m].flow = f
    BY <1>3 DEF Own
  <1>7. M \in [Own(t, f) -> T]
    <2>1. ASSUME NEW m \in Own(t, f) PROVE M[m] \in T
      <3>1. m \in 1 .. len /\ t[m].flow = f
        BY <1>6
      <3>2. CASE m < k
        BY <1>2, <1>3, <1>4, <1>5, <3>1, <3>2 DEF Own
      <3>3. CASE ~(m < k)
        BY <1>2, <1>3, <1>4, <1>5, <3>1, <3>3 DEF Own
      <3> QED
        BY <3>2, <3>3
    <2> QED
      BY <1>4, <2>1
  <1>8. \A m, n \in Own(t, f) : M[m] = M[n] => m = n
    BY <1>3, <1>4, <1>6
  <1>9. ASSUME NEW n \in T PROVE \E m \in Own(t, f) : M[m] = n
    <2>1. n \in 1 .. len + 1 /\ n # k /\ s[n].flow = f
      BY <1>3, <1>5 DEF Own
    <2>2. CASE n < k
      <3>1. n \in 1 .. len /\ t[n] = s[n]
        BY <1>2, <1>3, <2>1, <2>2
      <3>2. n \in Own(t, f)
        BY <1>3, <2>1, <3>1 DEF Own
      <3> QED
        BY <1>4, <2>2, <3>2
    <2>3. CASE ~(n < k)
      <3>1. PICK m : m = n - 1
        OBVIOUS
      <3>2. m \in 1 .. len /\ ~(m < k) /\ m + 1 = n /\ t[m] = s[n]
        BY <1>2, <1>3, <2>1, <2>3, <3>1
      <3>3. m \in Own(t, f)
        BY <1>3, <2>1, <3>2 DEF Own
      <3> QED
        BY <1>4, <3>2, <3>3
    <2> QED
      BY <2>2, <2>3
  <1>10. Cardinality(T) = Cardinality(Own(t, f))
    BY <1>2, <1>7, <1>8, <1>9, OwnFacts, SameSize
  <1>11. CASE s[k].flow = f
    <2>1. k \in Own(s, f)
      BY <1>3, <1>11 DEF Own
    <2>2. Cardinality(T) = Cardinality(Own(s, f)) - 1
      BY <1>5, <2>1, OwnFacts, FS_RemoveElement
    <2> QED
      BY <1>1, <1>10, <1>11, <2>2
  <1>12. CASE s[k].flow # f
    <2>1. T = Own(s, f)
      BY <1>5, <1>12 DEF Own
    <2> QED
      BY <1>1, <1>10, <1>12, <2>1, OwnFacts
  <1> QED
    BY <1>11, <1>12

\* A packet that follows those of a queue is put at its end.
LEMMA AppendedInOrder ==
  ASSUME NEW s \in Seq(QueuedPacket), NEW x \in QueuedPacket, NEW h, InOrder(s), AllPlaced(s, h),
         Placed(x, h), Follows(x, s)
  PROVE  InOrder(Append(s, x)) /\ AllPlaced(Append(s, x), h)
  <1>1. PICK t, last : t = Append(s, x) /\ last = Len(s) + 1
    OBVIOUS
  <1>2. /\ Len(t) = last /\ t[last] = x /\ \A n \in 1 .. Len(s) : t[n] = s[n]
        /\ Len(s) \in Nat
    BY <1>1
  <1>3. \A n \in 1 .. last : n \in 1 .. Len(s) \/ n = last
    BY <1>1, <1>2
  <1>4. AllPlaced(t, h)
    BY <1>2, <1>3 DEF AllPlaced
  <1>5. ASSUME NEW m \in 1 .. last, NEW n \in 1 .. last, m < n, t[m].flow = t[n].flow,
               IsAck(t[m]), IsAck(t[n])
        PROVE  t[m].pkt.ack <= t[n].pkt.ack
    <2>1. m \in 1 .. Len(s) /\ t[m] = s[m]
      BY <1>1, <1>2, <1>5
    <2>2. CASE n = last
      BY <1>2, <1>5, <2>1, <2>2 DEF Follows
    <2>3. CASE n \in 1 .. Len(s)
      <3>1. t[n] = s[n]
        BY <1>2, <2>3
      <3> QED
        BY <1>5, <2>1, <2>3, <3>1 DEF InOrder
    <2> QED
      BY <1>3, <2>2, <2>3
  <1>6. InOrder(t)
    BY <1>2, <1>5 DEF InOrder
  <1> QED
    BY <1>1, <1>4, <1>6

\* Where a packet was that is left when one is removed, in the same order.
LEMMA LeftFacts ==
  ASSUME NEW s \in Seq(QueuedPacket), NEW k \in 1 .. Len(s), NEW t, t = Removed(s, k)
  PROVE  \E M \in [1 .. Len(t) -> 1 .. Len(s)] :
           \A m \in 1 .. Len(t) :
             t[m] = s[M[m]] /\ M[m] # k /\ \A n \in 1 .. Len(t) : m < n => M[m] < M[n]
  <1>1. PICK len : len = Len(s) - 1
    OBVIOUS
  <1>2. Len(t) = len /\ \A m \in 1 .. len : t[m] = IF m < k THEN s[m] ELSE s[m + 1]
    BY <1>1, RemovedIs
  <1>3. len \in Nat /\ Len(s) = len + 1 /\ k \in 1 .. len + 1
    BY <1>1
  <1>4. PICK M : M = [m \in 1 .. len |-> IF m < k THEN m ELSE m + 1]
    OBVIOUS
  <1>5. M \in [1 .. len -> 1 .. Len(s)]
    BY <1>3, <1>4
  <1>6. ASSUME NEW m \in 1 .. len
        PROVE  t[m] = s[M[m]] /\ M[m] # k /\ \A n \in 1 .. len : m < n => M[m] < M[n]
    <2>1. CASE m < k
      BY <1>2, <1>3, <1>4, <2>1
    <2>2. CASE ~(m < k)
      BY <1>2, <1>3, <1>4, <2>2
    <2> QED
      BY <2>1, <2>2
  <1> QED
    BY <1>2, <1>5, <1>6

\* The packets that are left are in order.
LEMMA LeftInOrder ==
  ASSUME NEW s \in Seq(QueuedPacket), NEW k \in 1 .. Len(s), NEW h, InOrder(s), AllPlaced(s, h)
  PROVE  InOrder(Removed(s, k)) /\ AllPlaced(Removed(s, k), h)
  <1>1. PICK t : t = Removed(s, k)
    OBVIOUS
  <1>2. PICK M \in [1 .. Len(t) -> 1 .. Len(s)] :
           \A m \in 1 .. Len(t) :
             t[m] = s[M[m]] /\ M[m] # k /\ \A n \in 1 .. Len(t) : m < n => M[m] < M[n]
    BY <1>1, LeftFacts
  <1>3. AllPlaced(t, h)
    BY <1>2 DEF AllPlaced
  <1>4. ASSUME NEW m \in 1 .. Len(t), NEW n \in 1 .. Len(t), m < n, t[m].flow = t[n].flow,
               IsAck(t[m]), IsAck(t[n])
        PROVE  t[m].pkt.ack <= t[n].pkt.ack
    <2>1. PICK a, b \in 1 .. Len(s) : a = M[m] /\ b = M[n]
      BY <1>2
    <2>2. t[m] = s[a] /\ t[n] = s[b] /\ a < b
      BY <1>2, <1>4, <2>1
    <2> QED
      BY <1>4, <2>2 DEF InOrder
  <1>5. InOrder(t)
    BY <1>4 DEF InOrder
  <1> QED
    BY <1>1, <1>3, <1>5

\* How many acknowledgements of a flow there may be.
Allowed == [f \in Users |-> (1 + config.max_faults) * Cardinality(Seqs(config.users[f]))]

\* The flows that send to a host.
SendersTo(h) == {f \in Users : Src(f) # h}

\* A queue that has acknowledgements alone, and no more than allowed, is not full.
LEMMA AcksAreFew ==
  ASSUME config \in Configs, AcksFit(config), Ranked, NEW h \in Host, NEW s \in Seq(QueuedPacket),
         s # <<>>, AllPlaced(s, h), \A f \in Users : Cardinality(Own(s, f)) <= Allowed[f],
         \A f \in Users : Allowed[f] \in Nat,
         IsAck(s[Worst(s)])
  PROVE  ~(BytesInQueue(s) > LimitBytes)
  <1>1. PICK len : len = Len(s)
    OBVIOUS
  <1>2. len \in Nat /\ DOMAIN s = 1 .. len /\ HdrSize \in Nat /\ LimitBytes \in Nat
    BY <1>1, ConfigAssumption
  <1>3. ASSUME NEW n \in 1 .. len
        PROVE  IsAck(s[n]) /\ s[n].flow \in SendersTo(h)
    <2>1. s[n] \in QueuedPacket /\ s[Worst(s)] \in QueuedPacket /\ Worst(s) \in 1 .. len
      BY <1>1, PriorityFacts
    <2>2. s[n].pf_priority <= s[Worst(s)].pf_priority
      BY <1>1, PriorityFacts
    <2>3. s[Worst(s)].pf_priority = 0
      BY <1>1, <2>1 DEF AllPlaced, Placed, IsAck
    <2>4. s[n].pf_priority \in Nat
      BY <2>1, ConfigFacts DEF QueuedPacket
    <2>5. s[n].pkt.type = "ACK" /\ Sender(s[n].flow, s[n].pkt) = h
      BY <1>1, <2>2, <2>3, <2>4 DEF AllPlaced, Placed
    <2>6. s[n].flow \in Users
      BY <2>1, PacketTypes
    <2>7. Other(Src(s[n].flow)) = h /\ Src(s[n].flow) # h
      BY <2>5, <2>6, ConfigFacts DEF Sender
    <2> QED
      BY <2>5, <2>6, <2>7 DEF IsAck, SendersTo
  <1>4. IsFiniteSet(1 .. len) /\ Cardinality(1 .. len) = len
    BY <1>2, FS_Interval
  <1>5. PICK S : S = SendersTo(h)
    OBVIOUS
  <1>6. IsFiniteSet(S)
    <2>1. IsFiniteSet(Flows)
      BY ConfigAssumption, FS_Interval DEF Flows
    <2>2. S \subseteq Flows
      BY <1>5, ConfigFacts DEF SendersTo
    <2> QED
      BY <2>1, <2>2, FS_Subset
  <1>7. PICK B, F : /\ B = [f \in S |-> Own(s, f)]
                    /\ F = [f \in S |-> Cardinality(Own(s, f))]
    OBVIOUS
  <1>8. Parts(B, F, S)
    <2>1. \A f \in S : IsFiniteSet(B[f]) /\ F[f] = Cardinality(B[f])
      BY <1>7, OwnFacts
    <2>2. \A f, g \in S : f # g => B[f] \intersect B[g] = {}
      BY <1>7 DEF Own
    <2> QED
      BY <2>1, <2>2 DEF Parts
  <1>9. Together(B, S) = 1 .. len
    <2>1. \A f \in S : B[f] \subseteq 1 .. len
      BY <1>1, <1>7, OwnFacts
    <2>2. ASSUME NEW n \in 1 .. len PROVE n \in Together(B, S)
      <3>1. s[n].flow \in S
        BY <1>3, <1>5
      <3>2. n \in B[s[n].flow]
        BY <1>2, <1>7, <3>1 DEF Own
      <3> QED
        BY <3>1, <3>2 DEF Together
    <2> QED
      BY <2>1, <2>2 DEF Together
  <1>10. SumFunctionOnSet(F, S) = len
    BY <1>4, <1>6, <1>8, <1>9, SumOfSizes
  <1>11. S \subseteq Users /\ \A f \in S : F[f] \in Nat /\ Allowed[f] \in Nat /\ F[f] <= Allowed[f]
    BY <1>5, <1>7, OwnFacts DEF SendersTo
  <1>12. PICK a \in Nat : a = SumFunctionOnSet(Allowed, S)
    BY <1>6, <1>11, SumFacts
  <1>13. len <= a
    BY <1>6, <1>10, <1>11, <1>12, SumAtMost
  <1>14. HdrSize * a <= LimitBytes
    BY <1>5, <1>12 DEF AcksFit, Ranked, Allowed, SendersTo, Src, Users
  <1>15. PICK one, G : /\ one = [n \in 1 .. len |-> 1]
                       /\ G = [n \in DOMAIN s |-> PacketSize(s[n])]
    OBVIOUS
  <1>16. \A n \in 1 .. len : one[n] \in Nat /\ G[n] = HdrSize * one[n]
    <2>1. ASSUME NEW n \in 1 .. len PROVE G[n] = HdrSize
      <3>1. s[n].pkt.type # "DATA"
        BY <1>3 DEF IsAck
      <3>2. PacketSize(s[n]) = HdrSize + 0
        BY <3>1 DEF PacketSize
      <3> QED
        BY <1>2, <1>15, <3>2
    <2> QED
      BY <1>2, <1>15, <2>1
  <1>17. BytesInQueue(s) = HdrSize * SumFunctionOnSet(one, 1 .. len)
    <2>1. DOMAIN G = 1 .. len /\ BytesInQueue(s) = SumFunction(G)
      BY <1>2, <1>15 DEF BytesInQueue
    <2>2. SumFunction(G) = SumFunctionOnSet(G, 1 .. len)
      BY <2>1 DEF SumFunction
    <2>3. PICK N : N = 1 .. len
      OBVIOUS
    <2>4. IsFiniteSet(N) /\ \A n \in N : one[n] \in Nat /\ G[n] = HdrSize * one[n]
      BY <1>4, <1>16, <2>3
    <2>5. PICK k \in Nat : k = HdrSize
      BY <1>2
    <2>6. SumFunctionOnSet(G, N) = k * SumFunctionOnSet(one, N)
      BY <2>4, <2>5, SumTimes
    <2> QED
      BY <2>1, <2>2, <2>3, <2>5, <2>6
  <1>18. SumFunctionOnSet(one, 1 .. len) = len
    <2>1. PICK C : C = [n \in 1 .. len |-> {n}]
      OBVIOUS
    <2>2. Parts(C, one, 1 .. len)
      BY <1>15, <2>1, FS_Singleton DEF Parts
    <2>3. Together(C, 1 .. len) = 1 .. len
      BY <2>1 DEF Together
    <2> QED
      BY <1>4, <2>2, <2>3, SumOfSizes
  <1>19. HdrSize * len <= HdrSize * a /\ HdrSize * len \in Nat /\ HdrSize * a \in Nat
    BY <1>2, <1>13
  <1> QED
    BY <1>2, <1>14, <1>17, <1>18, <1>19

\* The queues are in order.
Orderly(q) == \A h \in Host : InOrder(q[h][1]) /\ AllPlaced(q[h][1], h)

\* The packets of t are of s, or of T.
Among(t, s, T) ==
  \A k \in 1 .. Len(t) : t[k] \in T \/ \E j \in 1 .. Len(s) : t[k] = s[j]

\* A PFabricQueue is one path.
LEMMA OnePath ==
  ASSUME AcksFit(config), Ranked PROVE Paths = {1}
  <1>1. config.paths = 1
    BY DEF AcksFit, Ranked
  <1> QED
    BY <1>1 DEF Paths

\* A flow's packets are counted in both queues.
LEMMA CountFacts ==
  ASSUME Paths = {1}, NEW q \in Queues, NEW f
  PROVE  /\ Count(q, f) \in Nat
         /\ \A h \in Host : Cardinality(Own(q[h][1], f)) <= Count(q, f)
         /\ \A r \in Queues, h \in Host : \A d \in Int :
              ElseSame(q, r, h, 1) /\ Cardinality(Own(r[h][1], f)) <= Cardinality(Own(q[h][1], f)) + d
                => Count(r, f) <= Count(q, f) + d
  <1>1. ASSUME NEW r \in Queues, NEW h \in Host PROVE Cardinality(Own(r[h][1], f)) \in Nat
    BY QueueTypes, OwnFacts
  <1>2. "a" \in Host /\ "b" \in Host /\ \A h \in Host : h = "a" \/ h = "b"
    BY DEF Host
  <1>3. Cardinality(Own(q["a"][1], f)) \in Nat /\ Cardinality(Own(q["b"][1], f)) \in Nat
    BY <1>1, <1>2
  <1>4. ASSUME NEW r \in Queues, NEW h \in Host, NEW d \in Int, ElseSame(q, r, h, 1),
               Cardinality(Own(r[h][1], f)) <= Cardinality(Own(q[h][1], f)) + d
        PROVE  Count(r, f) <= Count(q, f) + d
    <2>1. Cardinality(Own(r["a"][1], f)) \in Nat /\ Cardinality(Own(r["b"][1], f)) \in Nat
      BY <1>1, <1>2
    <2>2. \A g \in Host : g # h => r[g][1] = q[g][1]
      BY <1>4 DEF ElseSame
    <2>3. CASE h = "a"
      <3>1. r["b"][1] = q["b"][1]
        BY <1>2, <2>2, <2>3
      <3> QED
        BY <1>3, <1>4, <2>1, <2>3, <3>1 DEF Count
    <2>4. CASE h = "b"
      <3>1. r["a"][1] = q["a"][1]
        BY <1>2, <2>2, <2>4
      <3> QED
        BY <1>3, <1>4, <2>1, <2>4, <3>1 DEF Count
    <2> QED
      BY <1>2, <2>3, <2>4
  <1>5. Count(q, f) \in Nat /\ \A h \in Host : Cardinality(Own(q[h][1], f)) <= Count(q, f)
    BY <1>2, <1>3 DEF Count
  <1> QED
    BY <1>4, <1>5

\* A packet goes into a queue in which there is room for its flow, and no acknowledgement
\* is dropped.
LEMMA EnqueRanked ==
  ASSUME config \in Configs, AcksFit(config), Ranked, NEW n, n.queue \in Queues, n.lost \in Losses,
         Orderly(n.queue), NEW x \in QueuedPacket, NEW h, h = Sender(x.flow, x.pkt),
         Placed(x, h), Follows(x, n.queue[h][1]), NEW e, e = Enque(n, x, 1),
         \A f \in Users : /\ Allowed[f] \in Nat
                          /\ Count(n.queue, f) + (IF f = x.flow THEN 1 ELSE 0) <= Allowed[f]
  PROVE  /\ e.queue \in Queues /\ e.lost \in Losses /\ Orderly(e.queue)
         /\ \A f \in Users : "ACK" \notin n.lost[f] => "ACK" \notin e.lost[f]
         /\ \A f \in Users : Count(e.queue, f) <= Count(n.queue, f) + (IF f = x.flow THEN 1 ELSE 0)
         /\ \A g \in Host : Among(e.queue[g][1], n.queue[g][1], {x})
  <1>1. Paths = {1} /\ 1 \in Paths
    BY OnePath
  <1>2. PICK old \in Queues, gone \in Losses : old = n.queue /\ gone = n.lost
    OBVIOUS
  <1>3. h \in Host /\ x.flow \in Users
    BY PacketTypes
  <1>4. PICK s, q : s = old[h][1] /\ q = Append(s, x)
    OBVIOUS
  <1>5. s \in Seq(QueuedPacket) /\ q \in Seq(QueuedPacket) /\ q # <<>>
    <2>1. s \in Seq(QueuedPacket)
      BY <1>1, <1>3, <1>4, QueueTypes
    <2> QED
      BY <1>4, <2>1
  <1>6. InOrder(q) /\ AllPlaced(q, h)
    BY <1>2, <1>3, <1>4, <1>5, AppendedInOrder DEF Orderly
  <1>7. \A f : Cardinality(Own(q, f)) = Cardinality(Own(s, f)) + IF x.flow = f THEN 1 ELSE 0
    BY <1>4, <1>5, OwnAppended
  <1>8. Among(q, s, {x})
    BY <1>4, <1>5 DEF Among
  <1>9. \A f : Cardinality(Own(s, f)) \in Nat /\ Cardinality(Own(q, f)) \in Nat
    BY <1>5, OwnFacts
  <1>10. ASSUME NEW t \in Seq(QueuedPacket), NEW r, r = Put(old, h, 1, t), InOrder(t), AllPlaced(t, h),
                \A f : Cardinality(Own(t, f)) \in Nat /\ Cardinality(Own(t, f)) <= Cardinality(Own(q, f)),
                Among(t, s, {x})
         PROVE  /\ r \in Queues /\ Orderly(r)
                /\ \A f \in Users : Count(r, f) <= Count(old, f) + (IF f = x.flow THEN 1 ELSE 0)
                /\ \A g \in Host : Among(r[g][1], old[g][1], {x})
    <2>1. r \in Queues /\ r[h][1] = t /\ ElseSame(old, r, h, 1)
      BY <1>1, <1>3, <1>10, QueueChanged
    <2>2. \A g \in Host : g # h => r[g][1] = old[g][1]
      BY <1>1, <2>1 DEF ElseSame
    <2>3. Orderly(r)
      BY <1>2, <1>10, <2>1, <2>2 DEF Orderly
    <2>4. ASSUME NEW f \in Users
          PROVE  Count(r, f) <= Count(old, f) + (IF f = x.flow THEN 1 ELSE 0)
      <3>1. PICK d \in Int : d = IF f = x.flow THEN 1 ELSE 0
        OBVIOUS
      <3>2. Cardinality(Own(t, f)) <= Cardinality(Own(s, f)) + d
        BY <1>7, <1>9, <1>10, <3>1
      <3> QED
        BY <1>1, <1>3, <1>4, <2>1, <3>1, <3>2, CountFacts
    <2>5. \A g \in Host : Among(r[g][1], old[g][1], {x})
      <3>1. Among(r[h][1], old[h][1], {x})
        BY <1>4, <1>10, <2>1
      <3>2. ASSUME NEW g \in Host, g # h PROVE Among(r[g][1], old[g][1], {x})
        <4>1. r[g][1] = old[g][1]
          BY <2>2, <3>2
        <4> QED
          BY <4>1 DEF Among
      <3> QED
        BY <3>1, <3>2
    <2> QED
      BY <2>1, <2>3, <2>4, <2>5
  <1>11. CASE ~(BytesInQueue(q) > LimitBytes)
    <2>1. PICK r : r = Put(old, h, 1, q)
      OBVIOUS
    <2>2. e.queue = r /\ e.lost = gone
      BY <1>2, <1>4, <1>11, <2>1 DEF Enque, Put
    <2>3. \A f : Cardinality(Own(q, f)) \in Nat /\ Cardinality(Own(q, f)) <= Cardinality(Own(q, f))
      BY <1>9
    <2>4. /\ r \in Queues /\ Orderly(r)
          /\ \A f \in Users : Count(r, f) <= Count(old, f) + (IF f = x.flow THEN 1 ELSE 0)
          /\ \A g \in Host : Among(r[g][1], old[g][1], {x})
      BY <1>5, <1>6, <1>8, <1>10, <2>1, <2>3
    <2> QED
      BY <1>2, <2>2, <2>4
  <1>12. CASE BytesInQueue(q) > LimitBytes
    <2>1. PICK k, y, t, r : k = Worst(q) /\ y = q[k] /\ t = Removed(q, k) /\ r = Put(old, h, 1, t)
      OBVIOUS
    <2>2. e.queue = r /\ e.lost = [gone EXCEPT ![y.flow] = @ \union {y.pkt.type}]
      BY <1>2, <1>4, <1>12, <2>1 DEF Enque, Put
    <2>3. k \in 1 .. Len(q) /\ y \in QueuedPacket
      BY <1>5, <2>1, PriorityFacts
    <2>4. t \in Seq(QueuedPacket) /\ InOrder(t) /\ AllPlaced(t, h)
      BY <1>5, <1>6, <2>1, <2>3, RemovedIs, LeftInOrder
    <2>5. ASSUME NEW f
          PROVE  Cardinality(Own(t, f)) \in Nat /\ Cardinality(Own(t, f)) <= Cardinality(Own(q, f))
      <3>1. Cardinality(Own(t, f)) \in Nat /\ Cardinality(Own(q, f)) \in Nat
        BY <1>9, <2>4, OwnFacts
      <3>2. Cardinality(Own(t, f)) = Cardinality(Own(q, f)) - IF y.flow = f THEN 1 ELSE 0
        BY <1>5, <2>1, <2>3, OwnRemoved
      <3> QED
        BY <3>1, <3>2
    <2>6. Among(t, s, {x})
      <3>1. PICK M \in [1 .. Len(t) -> 1 .. Len(q)] : \A m \in 1 .. Len(t) : t[m] = q[M[m]]
        BY <1>5, <2>1, <2>3, LeftFacts
      <3> QED
        BY <1>8, <3>1 DEF Among
    <2>7. \A f \in Users : Cardinality(Own(q, f)) <= Allowed[f]
      <3>1. ASSUME NEW f \in Users PROVE Cardinality(Own(q, f)) <= Allowed[f]
        <4>1. PICK d \in Int : d = IF f = x.flow THEN 1 ELSE 0
          OBVIOUS
        <4>2. Cardinality(Own(s, f)) <= Count(old, f) /\ Count(old, f) \in Nat
          BY <1>1, <1>3, <1>4, CountFacts
        <4>3. Count(old, f) + d <= Allowed[f] /\ Allowed[f] \in Nat
          BY <1>2, <4>1
        <4>4. Cardinality(Own(q, f)) = Cardinality(Own(s, f)) + d
          BY <1>7, <4>1
        <4> QED
          BY <1>9, <4>2, <4>3, <4>4
      <3> QED
        BY <3>1
    <2>8. ~IsAck(y)
      BY <1>3, <1>5, <1>6, <1>12, <2>1, <2>7, AcksAreFew
    <2>9. y.flow \in Flows /\ y.pkt.type \in {"DATA", "ACK", "RTS", "CTS"} /\ y.pkt.type # "ACK"
      BY <2>3, <2>8, PacketTypes DEF IsAck
    <2>10. /\ e.lost \in Losses
           /\ \A f \in Users : "ACK" \notin gone[f] => "ACK" \notin e.lost[f]
      <3>1. PICK E : E = gone[y.flow] \union {y.pkt.type}
        OBVIOUS
      <3>2. e.lost = [gone EXCEPT ![y.flow] = E] /\ E \subseteq {"DATA", "ACK", "RTS", "CTS"}
        BY <2>2, <2>9, <3>1 DEF Losses
      <3>3. e.lost \in Losses /\ \A f \in Flows : e.lost[f] = IF f = y.flow THEN E ELSE gone[f]
        BY <2>9, <3>2 DEF Losses
      <3> QED
        BY <2>9, <3>1, <3>3, ConfigFacts
    <2> QED
      BY <1>2, <1>10, <2>1, <2>2, <2>4, <2>5, <2>6, <2>10
  <1> QED
    BY <1>11, <1>12

\* What flow f may send when the queues are rest: acknowledgements after those under way, and
\* no more than is allowed.
Sendable(S, f, rest) ==
  /\ IsFiniteSet(S) /\ Records(S, f)
  /\ \A x \in S : Placed(x, Sender(x.flow, x.pkt)) /\ \A h \in Host : Follows(x, rest[h][1])
  /\ \A x, y \in S : IsAck(x) /\ IsAck(y) => y.pkt.ack <= x.pkt.ack
  /\ \A g \in Users : /\ Allowed[g] \in Nat
                      /\ Count(rest, g) + (IF g = f THEN Cardinality(S) ELSE 0) <= Allowed[g]

\* No acknowledgement has been lost.
AcksSpared(l) == \A g \in Users : "ACK" \notin l[g]

\* The queues and losses when the packets of T have been sent.
Settled(n, f, T, rest) ==
  /\ n.queue \in Queues /\ n.lost \in Losses /\ Orderly(n.queue) /\ AcksSpared(n.lost)
  /\ \A g \in Users : Count(n.queue, g) <= Count(rest, g) + (IF g = f THEN Cardinality(T) ELSE 0)
  /\ \A h \in Host : Among(n.queue[h][1], rest[h][1], T)

\* One more is sent.
LEMMA SettledMore ==
  ASSUME config \in Configs, AcksFit(config), Ranked, NEW S, NEW f \in Users, NEW rest \in Queues,
         Sendable(S, f, rest), NEW T \in SUBSET S, NEW y \in T,
         NEW U, U = T \ {y}, NEW o, Settled(o, f, U, rest), NEW n, n = Enque(o, y, 1)
  PROVE  Settled(n, f, T, rest)
  <1>1. /\ y \in QueuedPacket /\ y.flow = f /\ Placed(y, Sender(y.flow, y.pkt))
        /\ \A h \in Host : Follows(y, rest[h][1])
    BY DEF Sendable, Records
  <1>2. /\ IsFiniteSet(T) /\ Cardinality(T) \in Nat /\ Cardinality(S) \in Nat
        /\ Cardinality(U) \in Nat /\ Cardinality(T) <= Cardinality(S)
        /\ Cardinality(U) = Cardinality(T) - 1
    <2>1. IsFiniteSet(S)
      BY DEF Sendable
    <2> QED
      BY <2>1, FS_Subset, FS_CardinalityType, FS_RemoveElement
  <1>3. /\ o.queue \in Queues /\ o.lost \in Losses /\ Orderly(o.queue) /\ AcksSpared(o.lost)
        /\ \A h \in Host : Among(o.queue[h][1], rest[h][1], U)
    BY DEF Settled
  <1>4. PICK h : h = Sender(y.flow, y.pkt)
    OBVIOUS
  <1>5. h \in Host
    BY <1>1, <1>4, PacketTypes
  <1>6. Follows(y, o.queue[h][1])
    <2>1. SUFFICES ASSUME IsAck(y), NEW k \in 1 .. Len(o.queue[h][1]), o.queue[h][1][k].flow = y.flow,
                          IsAck(o.queue[h][1][k])
                   PROVE  o.queue[h][1][k].pkt.ack <= y.pkt.ack
      BY DEF Follows
    <2>2. CASE o.queue[h][1][k] \in U
      BY <2>1, <2>2 DEF Sendable
    <2>3. CASE \E j \in 1 .. Len(rest[h][1]) : o.queue[h][1][k] = rest[h][1][j]
      BY <1>1, <1>5, <2>1, <2>3 DEF Follows
    <2> QED
      BY <1>3, <1>5, <2>2, <2>3 DEF Among
  <1>7. Paths = {1}
    BY OnePath
  <1>8. ASSUME NEW g \in Users
        PROVE  /\ Count(rest, g) \in Nat /\ Count(o.queue, g) \in Nat /\ Allowed[g] \in Nat
               /\ Count(o.queue, g) <= Count(rest, g) + (IF g = f THEN Cardinality(U) ELSE 0)
               /\ Count(rest, g) + (IF g = f THEN Cardinality(S) ELSE 0) <= Allowed[g]
    BY <1>3, <1>7, CountFacts DEF Settled, Sendable
  <1>9. \A g \in Users : /\ Allowed[g] \in Nat
                         /\ Count(o.queue, g) + (IF g = y.flow THEN 1 ELSE 0) <= Allowed[g]
    <2> SUFFICES ASSUME NEW g \in Users
                 PROVE  /\ Allowed[g] \in Nat
                        /\ Count(o.queue, g) + (IF g = y.flow THEN 1 ELSE 0) <= Allowed[g]
      OBVIOUS
    <2>1. CASE g = f
      <3>1. /\ Count(o.queue, f) <= Count(rest, f) + Cardinality(U)
            /\ Count(rest, f) + Cardinality(S) <= Allowed[f]
            /\ Count(rest, f) \in Nat /\ Count(o.queue, f) \in Nat /\ Allowed[f] \in Nat
        BY <1>8, <2>1
      <3>2. Count(o.queue, f) + 1 <= Allowed[f]
        BY <1>2, <3>1
      <3> QED
        BY <1>1, <2>1, <3>1, <3>2
    <2>2. CASE g # f
      BY <1>1, <1>2, <1>8, <2>2
    <2> QED
      BY <2>1, <2>2
  <1>10. /\ n.queue \in Queues /\ n.lost \in Losses /\ Orderly(n.queue)
         /\ \A g \in Users : "ACK" \notin o.lost[g] => "ACK" \notin n.lost[g]
         /\ \A g \in Users : Count(n.queue, g) <= Count(o.queue, g) + (IF g = y.flow THEN 1 ELSE 0)
         /\ \A g \in Host : Among(n.queue[g][1], o.queue[g][1], {y})
    BY <1>1, <1>3, <1>4, <1>6, <1>9, EnqueRanked
  <1>11. AcksSpared(n.lost)
    BY <1>3, <1>10 DEF AcksSpared
  <1>12. ASSUME NEW g \in Users
         PROVE  Count(n.queue, g) <= Count(rest, g) + (IF g = f THEN Cardinality(T) ELSE 0)
    <2>1. Count(n.queue, g) \in Nat /\ Count(n.queue, g) <= Count(o.queue, g) + (IF g = y.flow THEN 1 ELSE 0)
      BY <1>7, <1>10, CountFacts
    <2>2. CASE g = f
      <3>1. /\ Count(o.queue, f) <= Count(rest, f) + Cardinality(U)
            /\ Count(rest, f) \in Nat /\ Count(o.queue, f) \in Nat
        BY <1>8, <2>2
      <3>2. Count(n.queue, f) <= Count(o.queue, f) + 1 /\ Count(n.queue, f) \in Nat
        BY <1>1, <2>1, <2>2
      <3>3. Count(n.queue, f) <= Count(rest, f) + Cardinality(T)
        BY <1>2, <3>1, <3>2
      <3> QED
        BY <2>2, <3>3
    <2>3. CASE g # f
      BY <1>1, <1>2, <1>8, <2>1, <2>3
    <2> QED
      BY <2>2, <2>3
  <1>13. ASSUME NEW g \in Host PROVE Among(n.queue[g][1], rest[g][1], T)
    <2>1. Among(n.queue[g][1], o.queue[g][1], {y}) /\ Among(o.queue[g][1], rest[g][1], U)
      BY <1>3, <1>10
    <2>2. ASSUME NEW k \in 1 .. Len(n.queue[g][1])
          PROVE  \/ n.queue[g][1][k] \in T
                 \/ \E j \in 1 .. Len(rest[g][1]) : n.queue[g][1][k] = rest[g][1][j]
      <3>1. CASE n.queue[g][1][k] = y
        BY <3>1
      <3>2. ASSUME NEW i \in 1 .. Len(o.queue[g][1]), n.queue[g][1][k] = o.queue[g][1][i]
            PROVE  \/ n.queue[g][1][k] \in T
                   \/ \E j \in 1 .. Len(rest[g][1]) : n.queue[g][1][k] = rest[g][1][j]
        <4>1. \/ o.queue[g][1][i] \in U
              \/ \E j \in 1 .. Len(rest[g][1]) : o.queue[g][1][i] = rest[g][1][j]
          BY <2>1 DEF Among
        <4> QED
          BY <3>2, <4>1
      <3> QED
        BY <2>1, <3>1, <3>2 DEF Among
    <2> QED
      BY <2>2 DEF Among
  <1> QED
    BY <1>10, <1>11, <1>12, <1>13 DEF Settled

\* In whatever order they are sent.
LEMMA OutcomesRanked ==
  ASSUME config \in Configs, AcksFit(config), Ranked, NEW S, NEW f \in Users, NEW rest \in Queues,
         Sendable(S, f, rest), Orderly(rest), lost \in Losses, AcksSpared(lost),
         NEW n \in Enqueued(S, rest)
  PROVE  Settled(n, f, S, rest)
  <1>0. IsFiniteSet(S) /\ Paths = {1}
    BY OnePath DEF Sendable
  <1>1. PICK d : /\ Enqueued(S, rest) = d[S]
                 /\ \A T \in SUBSET S : d[T] = Step(d, rest, T)
    BY <1>0, EnqueuedFacts
  <1> DEFINE N == {c \in Nat : \A T \in SUBSET S : Cardinality(T) = c =>
                                 \A m \in d[T] : Settled(m, f, T, rest)}
  <1>2. \A T \in SUBSET S : IsFiniteSet(T) /\ Cardinality(T) \in Nat
    BY <1>0, FS_Subset, FS_CardinalityType
  <1>3. 0 \in N
    <2> SUFFICES ASSUME NEW T \in SUBSET S, Cardinality(T) = 0, NEW m \in d[T]
                 PROVE  Settled(m, f, T, rest)
      OBVIOUS
    <2>1. T = {}
      BY <1>2, FS_EmptySet
    <2>2. m.queue = rest /\ m.lost = lost
      <3>1. m \in Step(d, rest, T)
        BY <1>1
      <3>2. m = [queue |-> rest, lost |-> lost]
        BY <2>1, <3>1 DEF Step
      <3> QED
        BY <3>2
    <2>3. \A g \in Users : Count(rest, g) \in Nat
      BY <1>0, CountFacts
    <2>4. \A h \in Host : Among(rest[h][1], rest[h][1], T)
      BY DEF Among
    <2> QED
      BY <2>2, <2>3, <2>4 DEF Settled
  <1>4. ASSUME NEW c \in Nat, c \in N PROVE c + 1 \in N
    <2> SUFFICES ASSUME NEW T \in SUBSET S, Cardinality(T) = c + 1, NEW m \in d[T]
                 PROVE  Settled(m, f, T, rest)
      OBVIOUS
    <2>1. T # {}
      BY <1>2, FS_EmptySet
    <2>2. PICK y \in T : m \in Entered(d[T \ {y}], y)
      <3>1. m \in Step(d, rest, T)
        BY <1>1
      <3>2. Step(d, rest, T) = UNION {Entered(d[T \ {x}], x) : x \in T}
        BY <2>1 DEF Step
      <3> QED
        BY <3>1, <3>2
    <2>3. PICK U : U = T \ {y}
      OBVIOUS
    <2>4. PICK o \in d[U], i \in Paths : m = Enque(o, y, i)
      <3>1. PICK O : O = d[U]
        OBVIOUS
      <3>2. m \in Entered(O, y)
        BY <2>2, <2>3, <3>1
      <3>3. \E o \in O, i \in Paths : m = Enque(o, y, i)
        BY <3>2 DEF Entered
      <3> QED
        BY <3>1, <3>3
    <2>5. Cardinality(U) = c /\ U \in SUBSET S
      BY <1>2, <2>3, OneLess
    <2>6. Settled(o, f, U, rest)
      BY <1>4, <2>4, <2>5
    <2>7. m = Enque(o, y, 1)
      BY <1>0, <2>4
    <2> QED
      BY <2>3, <2>6, <2>7, SettledMore
  <1> HIDE DEF N
  <1>5. Cardinality(S) \in N
    BY <1>2, <1>3, <1>4, EveryNatural
  <1> QED
    BY <1>1, <1>5 DEF N

\* What holds of a flow over PFabricQueues: it can be ranked, its acknowledgements are in
\* order, and no more packets are in the queues than it has passed, and again by faults.
RankedFlow(g) ==
  /\ flow[g].class = config.users[g].class /\ flow[g].size = config.users[g].size
  /\ Rankable(flow[g])
  /\ \A m \in DOMAIN Net(g) : AckOK(flow[g], m)
  /\ Count(queue, g) <= Cardinality(Below(flow[g])) + faults * Cardinality(Seqs(flow[g]))

RankedInv == Orderly(queue) /\ AcksSpared(lost) /\ \A g \in Users : RankedFlow(g)

\* A handler of flow f may do r when the queues are rest, and k faults have happened.
Ranks(f, r, rest, k) ==
  /\ Sound(r, InQueues(rest, f), lost[f])
  /\ Handled(flow[f], r, DOMAIN InQueues(rest, f))
  /\ Cardinality(r.sent) \in Nat
  /\ Count(rest, f) + Cardinality(r.sent) <=
       Cardinality(Below(r.flow)) + k * Cardinality(Seqs(flow[f]))

\* Fewer packets are in the queues rest.
Fewer(rest) ==
  /\ rest \in Queues /\ Orderly(rest)
  /\ \A g \in Users : /\ DOMAIN InQueues(rest, g) \subseteq DOMAIN Net(g)
                      /\ Count(rest, g) <= Count(queue, g)

\* Multiples of a number of packets.
LEMMA Multiples ==
  ASSUME NEW n \in Nat, NEW a \in Nat, NEW b \in Nat, a <= b
  PROVE  /\ a * n \in Nat /\ b * n \in Nat /\ a * n <= b * n /\ (1 + b) * n = n + b * n
  OBVIOUS

\* As many packets are sent as there are in what a handler sends, or less.
LEMMA RecordCount ==
  ASSUME NEW f, NEW r, IsFiniteSet(r.sent), NEW S, S = Sent(f, r)
  PROVE  Cardinality(S) <= Cardinality(r.sent) /\ Cardinality(S) \in Nat
  <1>1. PICK p : p = get_priority(r.flow, Word)
    OBVIOUS
  <1>2. PICK M : M = [m \in r.sent |->
                        [flow |-> f, pkt |-> m,
                         pf_priority |-> IF Ranked /\ m.type = "DATA" THEN p ELSE 0]]
    OBVIOUS
  <1>3. S = {M[m] : m \in r.sent}
    BY <1>1, <1>2 DEF Sent
  <1> QED
    BY <1>3, ImageFinite, FS_CardinalityType

\* The sizes of the flows, and the bounds on their packets.
LEMMA RankedFacts ==
  ASSUME NetworkInv, AcksFit(config), Ranked, RankedInv, NEW g \in Users
  PROVE  /\ flow[g] \in FlowState /\ flow[g].size < Word /\ Word \in Nat
         /\ Cardinality(Seqs(flow[g])) \in Nat
         /\ Cardinality(Below(flow[g])) \in Nat
         /\ Cardinality(Below(flow[g])) <= Cardinality(Seqs(flow[g]))
         /\ Allowed[g] = (1 + config.max_faults) * Cardinality(Seqs(flow[g]))
         /\ Allowed[g] \in Nat /\ Count(queue, g) \in Nat
         /\ faults \in Nat /\ config.max_faults \in Nat /\ faults <= config.max_faults
  <1>1. /\ config \in Configs /\ g \in Flows /\ flow[g] \in FlowState /\ queue \in Queues
        /\ flow[g].size = config.users[g].size
    BY ConfigFacts DEF NetworkInv, RankedInv, RankedFlow
  <1>2. flow[g].size < Word /\ Word \in Nat
    BY <1>1, ConfigAssumption DEF AcksFit, Ranked, Users
  <1>3. Seqs(config.users[g]) = Seqs(flow[g])
    BY <1>1 DEF Seqs
  <1>4. config.max_faults \in Nat /\ faults \in Nat /\ faults <= config.max_faults
    BY <1>1, ConfigAssumption DEF NetworkInv
  <1>5. PICK c \in Nat : c = Cardinality(Seqs(flow[g]))
    BY <1>1, SeqsFacts
  <1>6. Allowed[g] = (1 + config.max_faults) * c
    BY <1>3, <1>5 DEF Allowed
  <1>7. (1 + config.max_faults) * c \in Nat
    BY <1>4, <1>5, Multiples
  <1>8. Count(queue, g) \in Nat
    BY <1>1, OnePath, CountFacts
  <1> QED
    BY <1>1, <1>2, <1>4, <1>5, <1>6, <1>7, <1>8, BelowFacts

\* The records of what a handler sends.
LEMMA SentRanked ==
  ASSUME NetworkInv, AcksFit(config), Ranked, RankedInv, NEW f \in Users, NEW rest, Fewer(rest),
         NEW k \in Nat, faults <= k, k <= config.max_faults,
         NEW r, Ranks(f, r, rest, k), NEW S, S = Sent(f, r)
  PROVE  Sendable(S, f, rest)
  <1>1. config \in Configs /\ rest \in Queues /\ Orderly(rest)
    BY DEF NetworkInv, Fewer
  <1>2. PICK M : M = DOMAIN InQueues(rest, f)
    OBVIOUS
  <1>3. IsBag(InQueues(rest, f)) /\ Sound(r, InQueues(rest, f), lost[f])
    BY <1>1, InQueuesFacts DEF Ranks
  <1>4. r.flow \in FlowState /\ r.sent \subseteq AnyPacket /\ IsFiniteSet(r.sent)
    BY <1>3, SoundFacts
  <1>5. /\ Records(S, f) /\ IsFiniteSet(S) /\ PacketsOf(S) = r.sent
        /\ \A x \in S : x.pf_priority = (IF Ranked /\ x.pkt.type = "DATA"
                                         THEN get_priority(r.flow, Word) ELSE 0)
    BY <1>1, <1>4, SentFacts
  <1>6. /\ Rankable(r.flow) /\ r.flow.size = flow[f].size
        /\ r.sent # {} => ~r.flow.finished
        /\ \A m \in r.sent : m.type \in {"DATA", "ACK"}
        /\ \A m \in r.sent, p \in M \union r.sent :
             m.type = "ACK" /\ p.type = "ACK" => p.ack <= m.ack
    BY <1>2 DEF Ranks, Handled
  <1>7. \A x \in S : x.pkt \in r.sent /\ x.flow = f
    BY <1>5 DEF PacketsOf, Records
  <1>8. r.sent # {} => get_priority(r.flow, Word) > 0
    <2>1. SUFFICES ASSUME r.sent # {} PROVE get_priority(r.flow, Word) > 0
      OBVIOUS
    <2>2. PICK a \in Int : a = Remaining(r.flow)
      BY <1>4, StateTypes DEF Remaining
    <2>3. a > 0
      BY <1>6, <2>1, <2>2 DEF Rankable
    <2>4. Word \in Nat /\ a < Word
      <3>1. /\ r.flow.size \in Nat /\ r.flow.last_unacked_seq \in Nat
            /\ r.flow.scoreboard_sack_bytes \in Nat
        BY <1>4, StateTypes
      <3>2. r.flow.size < Word /\ Word \in Nat
        BY <1>6, RankedFacts
      <3> QED
        BY <2>2, <3>1, <3>2 DEF Remaining
    <2>5. a % Word = a
      BY <2>3, <2>4
    <2> QED
      BY <2>2, <2>3, <2>5 DEF get_priority, Remaining
  <1>9. ASSUME NEW x \in S
        PROVE  Placed(x, Sender(x.flow, x.pkt)) /\ \A h \in Host : Follows(x, rest[h][1])
    <2>1. x.pkt.type \in {"DATA", "ACK"} /\ r.sent # {}
      BY <1>6, <1>7
    <2>2. Placed(x, Sender(x.flow, x.pkt))
      BY <1>5, <1>8, <2>1 DEF Placed
    <2>3. ASSUME NEW h \in Host, IsAck(x), NEW n \in 1 .. Len(rest[h][1]),
                 rest[h][1][n].flow = x.flow, IsAck(rest[h][1][n])
          PROVE  rest[h][1][n].pkt.ack <= x.pkt.ack
      <3>1. 1 \in Paths
        BY OnePath
      <3>2. DOMAIN rest[h][1] = 1 .. Len(rest[h][1])
        BY <1>1, <3>1, QueueTypes
      <3>3. <<h, 1, n>> \in Places(rest, f)
        <4>1. At(rest, f, rest[h][1][n].pkt, h, 1, n)
          BY <1>7, <2>3, <3>1 DEF At
        <4> QED
          BY <1>1, <4>1, SpotsAre DEF Spots
      <3>4. PacketAt(rest, <<h, 1, n>>) = rest[h][1][n].pkt
        BY DEF PacketAt
      <3>5. rest[h][1][n].pkt \in M
        BY <1>1, <1>2, <3>3, <3>4, InQueuesFacts
      <3> QED
        BY <1>6, <1>7, <2>3, <3>5 DEF IsAck
    <2> QED
      BY <2>2, <2>3 DEF Follows
  <1>10. \A x, y \in S : IsAck(x) /\ IsAck(y) => y.pkt.ack <= x.pkt.ack
    BY <1>6, <1>7 DEF IsAck
  <1>11. ASSUME NEW g \in Users
         PROVE  /\ Allowed[g] \in Nat
                /\ Count(rest, g) + (IF g = f THEN Cardinality(S) ELSE 0) <= Allowed[g]
    <2>1. PICK c \in Nat : c = Cardinality(Seqs(flow[g]))
      BY RankedFacts
    <2>2. PICK mf \in Nat : mf = config.max_faults
      BY RankedFacts
    <2>3. Allowed[g] \in Nat /\ Allowed[g] = c + mf * c /\ mf * c \in Nat /\ k * c <= mf * c
          /\ k * c \in Nat /\ faults * c <= mf * c /\ faults * c \in Nat /\ faults \in Nat
      <3>1. faults \in Nat /\ faults <= mf /\ k <= mf
        BY <2>2, RankedFacts
      <3>2. /\ mf * c \in Nat /\ k * c \in Nat /\ k * c <= mf * c /\ (1 + mf) * c = c + mf * c
            /\ faults * c <= mf * c /\ faults * c \in Nat
        BY <3>1, Multiples
      <3>3. Allowed[g] = (1 + mf) * c /\ Allowed[g] \in Nat
        BY <2>1, <2>2, RankedFacts
      <3> QED
        BY <3>1, <3>2, <3>3
    <2>4. Count(rest, g) \in Nat /\ Count(rest, g) <= Count(queue, g)
      BY <1>1, OnePath, CountFacts DEF Fewer
    <2>5. CASE g = f
      <3>1. Cardinality(S) <= Cardinality(r.sent) /\ Cardinality(S) \in Nat
        BY <1>4, RecordCount
      <3>2. Cardinality(r.sent) \in Nat
            /\ Count(rest, f) + Cardinality(r.sent) <= Cardinality(Below(r.flow)) + k * c
        BY <2>1, <2>5 DEF Ranks
      <3>3. Cardinality(Below(r.flow)) \in Nat /\ Cardinality(Below(r.flow)) <= c
        <4>1. Seqs(r.flow) = Seqs(flow[f])
          BY <1>6 DEF Seqs
        <4> QED
          BY <1>4, <2>1, <2>5, <4>1, BelowFacts
      <3>4. Count(rest, f) + Cardinality(S) <= Allowed[f]
        BY <2>3, <2>4, <2>5, <3>1, <3>2, <3>3
      <3> QED
        BY <2>3, <2>5, <3>4
    <2>6. CASE g # f
      <3>1. Count(queue, g) <= Cardinality(Below(flow[g])) + faults * c
        BY <2>1 DEF RankedInv, RankedFlow
      <3>2. /\ Cardinality(Below(flow[g])) \in Nat /\ Cardinality(Below(flow[g])) <= c
            /\ Count(queue, g) \in Nat
        BY <2>1, RankedFacts
      <3>3. Count(rest, g) <= Allowed[g]
        BY <2>3, <2>4, <3>1, <3>2
      <3> QED
        BY <2>3, <2>4, <2>6, <3>3
    <2> QED
      BY <2>5, <2>6
  <1> QED
    BY <1>5, <1>9, <1>10, <1>11 DEF Sendable

\* Whether queues are in order depends on the configuration alone.
LEMMA OrderlyPrime ==
  ASSUME config' = config, Orderly(queue') PROVE Orderly(queue)'
  <1>1. ASSUME NEW x, NEW h, Placed(x, h) PROVE Placed(x, h)'
    BY <1>1 DEF Placed, Sender, Src, Other, Host
  <1> QED
    BY <1>1 DEF Orderly, AllPlaced

\* The invariant after a handler: it moves the flow, and the queues are settled.
LEMMA HandlerKeepsRanks ==
  ASSUME NetworkInv, AcksFit(config), Ranked, RankedInv, NEW f \in Users, NEW rest, Fewer(rest),
         faults' \in Nat, faults <= faults', faults' <= config.max_faults,
         NEW R, Becomes(f, R, rest), \A r \in R : Ranks(f, r, rest, faults')
  PROVE  RankedInv'
  <1>1. /\ config \in Configs /\ lost \in Losses /\ f \in Flows /\ rest \in Queues /\ Orderly(rest)
        /\ flow \in [Flows -> FlowState] /\ Users \subseteq Flows /\ config' = config
    BY ConfigFacts DEF NetworkInv, Fewer, Becomes
  <1>2. PICK r \in R : /\ flow' = [flow EXCEPT ![f] = r.flow]
                       /\ \E n \in Enqueued(Sent(f, r), rest) : queue' = n.queue /\ lost' = n.lost
    BY DEF Becomes
  <1>3. PICK S : S = Sent(f, r)
    OBVIOUS
  <1>4. PICK n \in Enqueued(S, rest) : queue' = n.queue /\ lost' = n.lost
    BY <1>2, <1>3
  <1>5. Ranks(f, r, rest, faults')
    BY <1>2
  <1>6. Sendable(S, f, rest)
    BY <1>3, <1>5, SentRanked
  <1>7. Settled(n, f, S, rest)
    BY <1>1, <1>6, OutcomesRanked DEF RankedInv
  <1>8. IsBag(InQueues(rest, f)) /\ Sound(r, InQueues(rest, f), lost[f])
    BY <1>1, <1>5, InQueuesFacts DEF Ranks
  <1>9. r.flow \in FlowState /\ r.sent \subseteq AnyPacket /\ IsFiniteSet(r.sent)
    BY <1>8, SoundFacts
  <1>10. Records(S, f) /\ IsFiniteSet(S) /\ PacketsOf(S) = r.sent
    BY <1>1, <1>3, <1>9, SentFacts
  <1>11. Delivered(n, f, S, rest)
    BY <1>1, <1>10, OutcomeFacts
  <1>12. flow'[f] = r.flow /\ \A g \in Flows : g # f => flow'[g] = flow[g]
    BY <1>1, <1>2
  <1>13. queue' \in Queues /\ Orderly(queue)' /\ AcksSpared(lost)'
    <2>1. queue' \in Queues /\ Orderly(queue') /\ AcksSpared(lost')
      BY <1>4, <1>7 DEF Settled
    <2>2. AcksSpared(lost)'
      BY <1>1, <2>1 DEF AcksSpared, Users
    <2> QED
      BY <1>1, <2>1, <2>2, OrderlyPrime
  <1>14. ASSUME NEW g \in Users
         PROVE  DOMAIN Net(g)' \subseteq DOMAIN InQueues(rest, g)
                                         \union (IF g = f THEN r.sent ELSE {})
    <2>1. Net(g)' = InQueues(n.queue, g)
      BY <1>1, <1>4, NetPrime
    <2>2. Carried(Offered(g, f, S, rest), InQueues(n.queue, g), lost[g], n.lost[g])
      BY <1>1, <1>11 DEF Delivered
    <2>3. IsBag(InQueues(rest, g))
      BY <1>1, InQueuesFacts
    <2>4. /\ IsBag(Offered(g, f, S, rest))
          /\ DOMAIN Offered(g, f, S, rest) \subseteq DOMAIN InQueues(rest, g)
                                                     \union (IF g = f THEN r.sent ELSE {})
      <3>1. IsBag(With(InQueues(rest, g), r.sent))
            /\ DOMAIN With(InQueues(rest, g), r.sent) = DOMAIN InQueues(rest, g) \union r.sent
        BY <2>3, BagFacts
      <3> QED
        BY <1>10, <2>3, <3>1 DEF Offered
    <2> QED
      BY <2>1, <2>2, <2>4, CarryFacts
  <1>15. ASSUME NEW g \in Users
         PROVE  Count(queue', g) <= Count(rest, g) + (IF g = f THEN Cardinality(S) ELSE 0)
                /\ Count(queue', g) \in Nat
    BY <1>4, <1>7, OnePath, CountFacts DEF Settled
  <1>16. ASSUME NEW g \in Users PROVE RankedFlow(g)'
    <2>1. /\ flow[g].class = config.users[g].class /\ flow[g].size = config.users[g].size
          /\ Rankable(flow[g]) /\ \A m \in DOMAIN Net(g) : AckOK(flow[g], m)
          /\ Count(queue, g) <= Cardinality(Below(flow[g])) + faults * Cardinality(Seqs(flow[g]))
      BY DEF RankedInv, RankedFlow
    <2>2. PICK e, h, b, c : e = flow[g] /\ h = flow'[g] /\ b = Count(queue', g)
                            /\ c = Cardinality(Seqs(flow[g]))
      OBVIOUS
    <2>3. /\ c \in Nat /\ faults \in Nat /\ Cardinality(Below(e)) \in Nat
          /\ Count(queue, g) \in Nat
      BY <2>2, RankedFacts
    <2>4. Count(rest, g) \in Nat /\ Count(rest, g) <= Count(queue, g)
          /\ DOMAIN InQueues(rest, g) \subseteq DOMAIN Net(g)
      BY <1>1, OnePath, CountFacts DEF Fewer
    <2>5. /\ h.class = e.class /\ h.size = e.size /\ Rankable(h)
          /\ \A m \in DOMAIN Net(g)' : AckOK(h, m)
          /\ b <= Cardinality(Below(h)) + faults' * Cardinality(Seqs(h))
      <3>1. CASE g = f
        <4>1. h = r.flow
          BY <1>12, <2>2, <3>1
        <4>2. /\ Rankable(h) /\ h.class = e.class /\ h.size = e.size
              /\ \A m \in DOMAIN InQueues(rest, g) \union r.sent : AckOK(h, m)
          BY <1>5, <2>2, <3>1, <4>1 DEF Ranks, Handled
        <4>3. \A m \in DOMAIN Net(g)' : AckOK(h, m)
          BY <1>14, <3>1, <4>2
        <4>4. Cardinality(Seqs(h)) = c
          BY <2>2, <4>2 DEF Seqs
        <4>5. Cardinality(Below(h)) \in Nat
          BY <1>9, <4>1, BelowFacts
        <4>6. faults' * c \in Nat
          BY <2>3, Multiples
        <4>7. Cardinality(S) <= Cardinality(r.sent) /\ Cardinality(S) \in Nat
          BY <1>3, <1>9, RecordCount
        <4>8. Cardinality(r.sent) \in Nat
              /\ Count(rest, g) + Cardinality(r.sent) <= Cardinality(Below(h)) + faults' * c
          BY <1>5, <2>2, <3>1, <4>1 DEF Ranks
        <4>9. b \in Nat /\ b <= Count(rest, g) + Cardinality(S)
          BY <1>15, <2>2, <3>1
        <4>10. b <= Cardinality(Below(h)) + faults' * c
          BY <2>4, <4>5, <4>6, <4>7, <4>8, <4>9
        <4> QED
          BY <4>2, <4>3, <4>4, <4>10
      <3>2. CASE g # f
        <4>1. h = e
          BY <1>1, <1>12, <2>2, <3>2
        <4>2. \A m \in DOMAIN Net(g)' : AckOK(h, m)
          BY <1>14, <2>1, <2>2, <2>4, <3>2, <4>1
        <4>3. b \in Nat /\ b <= Count(rest, g)
          <5>1. b \in Nat /\ b <= Count(rest, g) + 0
            BY <1>15, <2>2, <3>2
          <5> QED
            BY <2>4, <5>1
        <4>4. faults * c \in Nat /\ faults' * c \in Nat /\ faults * c <= faults' * c
          BY <2>3, Multiples
        <4>5. b <= Cardinality(Below(e)) + faults' * c
          BY <2>1, <2>2, <2>3, <2>4, <4>3, <4>4
        <4> QED
          BY <2>1, <2>2, <4>1, <4>2, <4>5
      <3> QED
        BY <3>1, <3>2
    <2> QED
      BY <1>1, <2>1, <2>2, <2>5 DEF RankedFlow
  <1>17. Users' = Users
    BY <1>1 DEF Users
  <1> QED
    BY <1>13, <1>16, <1>17 DEF RankedInv

\* A flow that waits for nothing is new or open, as none is a TCPFlow.
LEMMA RankedIsOpen ==
  ASSUME NetworkInv, AcksFit(config), Ranked, RankedInv, NEW f \in Users
  PROVE  /\ FlowInv(flow[f], Net(f), lost[f]) /\ Rankable(flow[f])
         /\ DOMAIN Net(f) \subseteq AnyPacket /\ \A m \in DOMAIN Net(f) : AckOK(flow[f], m)
         /\ flow[f].class # "TCPFlow"
         /\ Starting(flow[f], Net(f), lost[f]) \/ Open(flow[f], Net(f), lost[f])
  <1>1. FlowInv(flow[f], Net(f), lost[f])
    BY ConfigFacts DEF NetworkInv
  <1>2. /\ Rankable(flow[f]) /\ \A m \in DOMAIN Net(f) : AckOK(flow[f], m)
        /\ flow[f].class = config.users[f].class
    BY DEF RankedInv, RankedFlow
  <1>3. flow[f].class # "TCPFlow"
    BY <1>2 DEF AcksFit, Ranked, Users
  <1> QED
    BY <1>1, <1>2, <1>3, PacketsFinite DEF FlowInv, Waiting

\* Nothing is taken out of the queues.
LEMMA NoneFewer ==
  ASSUME NetworkInv, AcksFit(config), Ranked, RankedInv
  PROVE  Fewer(queue)
  <1>1. \A g \in Users : Count(queue, g) \in Nat
    BY OnePath, CountFacts DEF NetworkInv
  <1> QED
    BY <1>1 DEF Fewer, NetworkInv, RankedInv, Net

\* Each action keeps the invariant: when a flow starts.
LEMMA StartKeepsRanks ==
  ASSUME NetworkInv, AcksFit(config), Ranked, RankedInv, NEW f, StartFlow(f)
  PROVE  RankedInv'
  <1>1. /\ f \in Users /\ ~flow[f].started /\ Becomes(f, {Start(flow[f])}, queue)
        /\ faults' = faults
    BY DEF StartFlow
  <1>2. PICK e, r : e = flow[f] /\ r = Start(e)
    OBVIOUS
  <1>3. /\ FlowInv(e, Net(f), lost[f]) /\ Rankable(e) /\ e.class # "TCPFlow"
        /\ DOMAIN Net(f) \subseteq AnyPacket /\ \A m \in DOMAIN Net(f) : AckOK(e, m)
        /\ Starting(e, Net(f), lost[f])
    BY <1>1, <1>2, RankedIsOpen DEF Open
  <1>4. e.class \in FlowClass /\ e.size \in Nat \ {0} /\ e = New(e.class, e.size) /\ End(e) = e.size
    BY <1>3, StartingFacts DEF Starting, Rankable
  <1>5. Handled(e, r, DOMAIN Net(f)) /\ Passes(e, r)
    BY <1>2, <1>3, <1>4, StartRanks DEF InHand
  <1>6. Sound(r, Net(f), lost[f])
    BY <1>1, <1>2, <1>3, StartStep DEF Sound
  <1>7. /\ faults \in Nat /\ faults <= faults /\ faults <= config.max_faults
        /\ Count(queue, f) \in Nat
        /\ Count(queue, f) <= Cardinality(Below(e)) + faults * Cardinality(Seqs(e))
        /\ faults * Cardinality(Seqs(e)) \in Nat
    BY <1>1, <1>2, RankedFacts, Multiples DEF RankedInv, RankedFlow
  <1>8. Cardinality(r.sent) \in Nat
        /\ Count(queue, f) + Cardinality(r.sent) <=
             Cardinality(Below(r.flow)) + faults * Cardinality(Seqs(e))
    <2>1. PICK k : k = faults * Cardinality(Seqs(e))
      OBVIOUS
    <2> QED
      BY <1>5, <1>7, <2>1 DEF Passes
  <1>9. Ranks(f, r, queue, faults)
    BY <1>2, <1>5, <1>6, <1>8 DEF Ranks, Net
  <1> QED
    BY <1>1, <1>2, <1>7, <1>9, NoneFewer, HandlerKeepsRanks

\* When a timer fires: early, it may send again what is still in the queues.
LEMMA TimeoutKeepsRanks ==
  ASSUME NetworkInv, AcksFit(config), Ranked, RankedInv, NEW f, RetxTimeout(f)
  PROVE  RankedInv'
  <1>1. /\ f \in Users /\ flow[f].retx.live > 0 /\ Becomes(f, {HandleTimeout(flow[f])}, queue)
        /\ IF Places(queue, f) = {} THEN faults' = faults ELSE Fault
    BY DEF RetxTimeout
  <1>2. PICK e, r : e = flow[f] /\ r = HandleTimeout(e)
    OBVIOUS
  <1>3. /\ FlowInv(e, Net(f), lost[f]) /\ Rankable(e) /\ TimerOK(e)
        /\ DOMAIN Net(f) \subseteq AnyPacket /\ \A m \in DOMAIN Net(f) : AckOK(e, m)
    BY <1>1, <1>2, RankedIsOpen, StartingFacts DEF Open
  <1>4. /\ Handled(e, r, DOMAIN Net(f))
        /\ Cardinality(r.sent) \in Nat /\ Cardinality(Below(r.flow)) \in Nat
        /\ Cardinality(r.sent) <= Cardinality(Below(r.flow))
    BY <1>1, <1>2, <1>3, TimeoutRanks DEF InHand
  <1>5. Sound(r, Net(f), lost[f])
    BY <1>1, <1>2, <1>3, TimeoutStep DEF Sound
  <1>6. PICK c \in Nat : c = Cardinality(Seqs(e))
    BY <1>1, <1>2, RankedFacts
  <1>7. /\ faults \in Nat /\ config.max_faults \in Nat /\ faults <= config.max_faults
        /\ Count(queue, f) \in Nat /\ Count(queue, f) <= Cardinality(Below(e)) + faults * c
        /\ Cardinality(Below(e)) \in Nat /\ Cardinality(Below(e)) <= c
    BY <1>1, <1>2, <1>6, RankedFacts DEF RankedInv, RankedFlow
  <1>8. /\ faults' \in Nat /\ faults <= faults' /\ faults' <= config.max_faults
        /\ Count(queue, f) <= faults' * c /\ faults' * c \in Nat
    <2>1. CASE Places(queue, f) = {}
      <3>1. faults' = faults
        BY <1>1, <2>1
      <3>2. Own(queue["a"][1], f) = {} /\ Own(queue["b"][1], f) = {}
        <4>1. ASSUME NEW h \in Host PROVE Own(queue[h][1], f) = {}
          <5>1. queue \in Queues /\ 1 \in Paths
            BY OnePath DEF NetworkInv
          <5>2. DOMAIN queue[h][1] = 1 .. Len(queue[h][1])
            BY <5>1, QueueTypes
          <5>3. ASSUME NEW n \in Own(queue[h][1], f) PROVE FALSE
            <6>1. At(queue, f, queue[h][1][n].pkt, h, 1, n)
              BY <5>1, <5>2, <5>3 DEF At, Own
            <6> QED
              BY <2>1, <5>1, <6>1, SpotsAre DEF Spots
          <5> QED
            BY <5>3
        <4> QED
          BY <4>1 DEF Host
      <3>3. Count(queue, f) = 0
        BY <3>2, FS_EmptySet DEF Count
      <3>4. faults * c \in Nat
        BY <1>7, Multiples
      <3> QED
        BY <1>7, <3>1, <3>3, <3>4
    <2>2. CASE Places(queue, f) # {}
      <3>1. faults < config.max_faults /\ faults' = faults + 1
        BY <1>1, <2>2 DEF Fault
      <3>2. (1 + faults) * c = c + faults * c /\ faults * c \in Nat
        BY <1>7, Multiples
      <3>3. faults' * c = c + faults * c
        BY <1>7, <3>1, <3>2
      <3> QED
        BY <1>7, <3>1, <3>2, <3>3
    <2> QED
      BY <2>1, <2>2
  <1>9. Count(queue, f) + Cardinality(r.sent) <= Cardinality(Below(r.flow)) + faults' * c
    BY <1>4, <1>7, <1>8
  <1>10. Ranks(f, r, queue, faults')
    BY <1>2, <1>4, <1>5, <1>6, <1>9 DEF Ranks, Net
  <1> QED
    BY <1>1, <1>2, <1>8, <1>10, NoneFewer, HandlerKeepsRanks

\* A packet of a flow in the queues is in one of them.
LEMMA WhereQueued ==
  ASSUME Paths = {1}, NEW q \in Queues, NEW f, NEW m \in DOMAIN InQueues(q, f)
  PROVE  \E h \in Host : \E k \in 1 .. Len(q[h][1]) :
            q[h][1][k].flow = f /\ q[h][1][k].pkt = m
  <1>1. PICK s \in Places(q, f) : PacketAt(q, s) = m
    BY DEF InQueues
  <1>2. s \in Spots(q, f, m)
    BY <1>1 DEF Spots
  <1>3. PICK h, i, k : s = <<h, i, k>>
    BY <1>2, SpotsAre
  <1>4. At(q, f, m, h, i, k)
    BY <1>2, <1>3, SpotsAre
  <1> QED
    BY <1>4 DEF At

\* When a packet has left a queue, the queues hold no more than before; the acknowledgements
\* left of its flow come after it, if it is one.
LEMMA LeavingFewer ==
  ASSUME NetworkInv, AcksFit(config), Ranked, RankedInv, NEW h \in Host, queue[h][1] # <<>>,
         NEW x, x = Leaving(h, 1), NEW rest, rest = Without(h, 1)
  PROVE  /\ Fewer(rest) /\ Count(rest, x.flow) + 1 <= Count(queue, x.flow)
         /\ Placed(x, h)
         /\ IsAck(x) => \A m \in DOMAIN InQueues(rest, x.flow) :
                          m.type = "ACK" => x.pkt.ack <= m.ack
  <1>1. config \in Configs /\ queue \in Queues /\ Paths = {1} /\ 1 \in Paths
    BY OnePath DEF NetworkInv
  <1>2. PICK s, k, t : s = queue[h][1] /\ k = Out(s) /\ t = Removed(s, k)
    OBVIOUS
  <1>3. s \in Seq(QueuedPacket) /\ s # <<>>
    BY <1>1, <1>2, QueueTypes
  <1>4. /\ k \in 1 .. Len(s)
        /\ \A n \in 1 .. Len(s) : s[BestPacket(s)].pf_priority <= s[n].pf_priority
        /\ s[k].flow = s[BestPacket(s)].flow /\ BestPacket(s) \in 1 .. Len(s)
        /\ \A n \in 1 .. Len(s) : s[n].flow = s[k].flow => k <= n
    BY <1>1, <1>2, <1>3, PriorityFacts DEF Out
  <1>5. x = s[k]
    BY <1>2 DEF Leaving
  <1>6. t \in Seq(QueuedPacket) /\ rest = Put(queue, h, 1, t)
    BY <1>2, <1>3, <1>4, RemovedIs DEF Without, Put
  <1>7. rest \in Queues /\ rest[h][1] = t /\ ElseSame(queue, rest, h, 1)
    BY <1>1, <1>6, QueueChanged
  <1>8. \A g \in Host : g # h => rest[g][1] = queue[g][1]
    BY <1>1, <1>7 DEF ElseSame
  <1>9. InOrder(s) /\ AllPlaced(s, h) /\ InOrder(t) /\ AllPlaced(t, h)
    <2>1. InOrder(s) /\ AllPlaced(s, h)
      BY <1>2 DEF RankedInv, Orderly
    <2> QED
      BY <1>2, <1>3, <1>4, <2>1, LeftInOrder
  <1>10. Orderly(rest)
    BY <1>7, <1>8, <1>9 DEF RankedInv, Orderly
  <1>11. ASSUME NEW g, NEW d \in Int, d = (IF g = x.flow THEN -1 ELSE 0)
         PROVE  Count(rest, g) <= Count(queue, g) + d
    <2>1. Cardinality(Own(t, g)) = Cardinality(Own(s, g)) - IF s[k].flow = g THEN 1 ELSE 0
      BY <1>2, <1>3, <1>4, OwnRemoved
    <2>2. Cardinality(Own(t, g)) \in Nat /\ Cardinality(Own(s, g)) \in Nat
      BY <1>3, <1>6, OwnFacts
    <2>3. Cardinality(Own(t, g)) <= Cardinality(Own(s, g)) + d
      BY <1>5, <1>11, <2>1, <2>2
    <2> QED
      BY <1>1, <1>2, <1>7, <2>3, CountFacts
  <1>12. \A g : Count(rest, g) \in Nat /\ Count(queue, g) \in Nat
    BY <1>1, <1>7, CountFacts
  <1>13. Count(rest, x.flow) + 1 <= Count(queue, x.flow)
    <2>1. Count(rest, x.flow) <= Count(queue, x.flow) + (-1)
      BY <1>11
    <2> QED
      BY <1>12, <2>1
  <1>14. ASSUME NEW g \in Users
         PROVE  /\ DOMAIN InQueues(rest, g) \subseteq DOMAIN Net(g)
                /\ Count(rest, g) <= Count(queue, g)
    <2>1. CASE g = x.flow
      <3>1. InQueues(rest, g) = Less(Net(g), x.pkt)
        BY <1>1, <2>1, LeavingFacts
      <3>2. IsBag(Net(g))
        BY <1>1, InQueuesFacts DEF Net
      <3>3. DOMAIN InQueues(rest, g) \subseteq DOMAIN Net(g)
        BY <3>1, <3>2, BagFacts
      <3>4. Count(rest, g) <= Count(queue, g)
        BY <1>12, <1>13, <2>1
      <3> QED
        BY <3>3, <3>4
    <2>2. CASE g # x.flow
      <3>1. InQueues(rest, g) = Net(g)
        BY <1>1, <2>2, LeavingFacts
      <3>2. Count(rest, g) <= Count(queue, g) + 0
        BY <1>11, <2>2
      <3> QED
        BY <1>12, <3>1, <3>2
    <2> QED
      BY <2>1, <2>2
  <1>15. Fewer(rest)
    BY <1>7, <1>10, <1>14 DEF Fewer
  <1>16. Placed(x, h)
    BY <1>4, <1>5, <1>9 DEF AllPlaced
  <1>17. ASSUME NEW m \in DOMAIN InQueues(rest, x.flow), IsAck(x), m.type = "ACK"
         PROVE  x.pkt.ack <= m.ack
    <2>0. PICK g \in Host : \E n \in 1 .. Len(rest[g][1]) :
            rest[g][1][n].flow = x.flow /\ rest[g][1][n].pkt = m
      BY <1>1, <1>7, WhereQueued
    <2>1. PICK n \in 1 .. Len(rest[g][1]) : rest[g][1][n].flow = x.flow /\ rest[g][1][n].pkt = m
      BY <2>0
    <2>2. PICK y : y = rest[g][1][n]
      OBVIOUS
    <2>3. Placed(y, g) /\ y.flow = x.flow /\ y.pkt = m
      BY <1>10, <2>1, <2>2 DEF Orderly, AllPlaced
    <2>4. g = h
      BY <1>16, <1>17, <2>3 DEF Placed, IsAck, Sender
    <2>5. n \in 1 .. Len(t) /\ y = t[n]
      BY <1>7, <2>1, <2>2, <2>4
    <2>6. PICK M \in [1 .. Len(t) -> 1 .. Len(s)] :
             \A j \in 1 .. Len(t) :
               t[j] = s[M[j]] /\ M[j] # k /\ \A i \in 1 .. Len(t) : j < i => M[j] < M[i]
      <3>1. k \in 1 .. Len(s) /\ t = Removed(s, k)
        BY <1>2, <1>4
      <3> QED
        BY <1>3, <3>1, LeftFacts
    <2>7. PICK j \in 1 .. Len(s) : j = M[n]
      BY <2>5, <2>6
    <2>8. y = s[j] /\ j # k
      BY <2>5, <2>6, <2>7
    <2>9. k < j
      <3>1. k <= j
        BY <1>4, <1>5, <2>3, <2>7, <2>8
      <3> QED
        BY <1>3, <1>4, <2>7, <2>8, <3>1
    <2> QED
      BY <1>4, <1>5, <1>9, <1>17, <2>3, <2>7, <2>8, <2>9 DEF InOrder, IsAck
  <1> QED
    BY <1>13, <1>15, <1>16, <1>17

\* When a packet arrives.
LEMMA ArrivalKeepsRanks ==
  ASSUME NetworkInv, AcksFit(config), Ranked, RankedInv, NEW h \in Host, NEW i, PacketArrival(h, i)
  PROVE  RankedInv'
  <1>1. i = 1 /\ 1 \in Paths /\ queue[h][1] # <<>> /\ config \in Configs /\ faults' = faults
    BY OnePath DEF PacketArrival, NetworkInv
  <1>2. PICK x, rest, f : x = Leaving(h, 1) /\ rest = Without(h, 1) /\ f = x.flow
    OBVIOUS
  <1>3. Becomes(f, Receive(flow[f], x.pkt), rest)
    BY <1>1, <1>2 DEF PacketArrival
  <1>4. /\ f \in Users /\ f \in Flows /\ rest \in Queues
        /\ x.pkt \in DOMAIN Net(f) /\ InQueues(rest, f) = Less(Net(f), x.pkt)
    BY <1>1, <1>2, LeavingFacts
  <1>5. /\ Fewer(rest) /\ Count(rest, f) + 1 <= Count(queue, f) /\ Placed(x, h)
        /\ IsAck(x) => \A m \in DOMAIN InQueues(rest, f) : m.type = "ACK" => x.pkt.ack <= m.ack
    BY <1>1, <1>2, LeavingFewer
  <1>6. PICK e, M : e = flow[f] /\ M = DOMAIN InQueues(rest, f)
    OBVIOUS
  <1>7. /\ FlowInv(e, Net(f), lost[f]) /\ Rankable(e) /\ DOMAIN Net(f) \subseteq AnyPacket
        /\ \A m \in DOMAIN Net(f) : AckOK(e, m)
        /\ Starting(e, Net(f), lost[f]) \/ Open(e, Net(f), lost[f])
    BY <1>4, <1>6, RankedIsOpen
  <1>8. TimerOK(e) /\ OpenPacket(e, x.pkt)
    BY <1>4, <1>7, StartingFacts DEF Open
  <1>9. (\A s : DataPkt(s).type = "DATA") /\ \A a, n : AckPkt(a, n).type = "ACK"
    BY DEF DataPkt, AckPkt
  <1>10. M \subseteq DOMAIN Net(f) /\ InHand(e, M)
    BY <1>4, <1>5, <1>6, <1>7 DEF Fewer, InHand
  <1>11. PICK k : k = faults * Cardinality(Seqs(e))
    OBVIOUS
  <1>12. /\ faults \in Nat /\ faults <= faults /\ faults <= config.max_faults
         /\ Count(queue, f) \in Nat /\ Count(rest, f) \in Nat
         /\ Count(queue, f) <= Cardinality(Below(e)) + k /\ k \in Nat
         /\ Cardinality(Below(e)) \in Nat
    BY <1>1, <1>4, <1>6, <1>11, RankedFacts, Multiples, OnePath, CountFacts DEF RankedInv, RankedFlow
  <1>13. ASSUME NEW r \in Receive(e, x.pkt) PROVE Ranks(f, r, rest, faults)
    <2>1. Sound(r, InQueues(rest, f), lost[f])
      BY <1>4, <1>6, <1>7, ArrivalStep DEF Sound
    <2>2. CASE x.pkt.type = "DATA"
      <3>1. PICK s \in Seqs(e) : x.pkt = DataPkt(s)
        BY <1>8, <1>9, <2>2 DEF OpenPacket
      <3>2. r = ReceiveData(e, s)
        BY <3>1 DEF Receive, DataPkt
      <3>3. Handled(e, r, M) /\ Cardinality(r.sent) <= 1 /\ Below(r.flow) = Below(e)
        BY <1>7, <1>8, <1>10, <3>2, DataHandled
      <3>4. Cardinality(r.sent) \in Nat
        BY <3>3, FS_CardinalityType DEF Handled
      <3>5. Count(rest, f) + Cardinality(r.sent) <= Cardinality(Below(r.flow)) + k
        BY <1>5, <1>12, <3>3, <3>4
      <3> QED
        BY <1>6, <1>11, <2>1, <3>3, <3>4, <3>5 DEF Ranks
    <2>3. CASE x.pkt.type = "ACK"
      <3>1. PICK a, n : x.pkt = AckPkt(a, n)
        BY <1>8, <1>9, <2>3 DEF OpenPacket
      <3>2. r \in ReceiveAck(e, AckPkt(a, n))
        BY <2>3, <3>1 DEF Receive
      <3>3. \A m \in M : m.type = "ACK" => a <= m.ack
        BY <1>5, <1>6, <2>3, <3>1 DEF IsAck, AckPkt
      <3>4. OpenPacket(e, AckPkt(a, n)) /\ AckOK(e, AckPkt(a, n))
        BY <1>4, <1>7, <1>8, <3>1
      <3>5. Handled(e, r, M) /\ Passes(e, r)
        BY <1>7, <1>8, <1>10, <3>2, <3>3, <3>4, AckRanks
      <3>6. Cardinality(r.sent) \in Nat
            /\ Count(rest, f) + Cardinality(r.sent) <= Cardinality(Below(r.flow)) + k
        BY <1>5, <1>12, <3>5 DEF Passes
      <3> QED
        BY <1>6, <1>11, <2>1, <3>5, <3>6 DEF Ranks
    <2> QED
      BY <1>5, <2>2, <2>3 DEF Placed
  <1> QED
    BY <1>1, <1>3, <1>4, <1>5, <1>6, <1>12, <1>13, HandlerKeepsRanks

\* A step that leaves all as it is keeps the invariant.
LEMMA StutterKeepsRanks ==
  ASSUME NetworkInv, RankedInv, UNCHANGED vars PROVE RankedInv'
  <1>1. config' = config /\ flow' = flow /\ queue' = queue /\ lost' = lost /\ faults' = faults
    BY DEF vars
  <1>2. Orderly(queue)' /\ AcksSpared(lost)' /\ Users' = Users
    <2>1. Orderly(queue')
      BY <1>1 DEF RankedInv
    <2> QED
      BY <1>1, <2>1, OrderlyPrime DEF RankedInv, AcksSpared, Users
  <1>3. ASSUME NEW g \in Users PROVE RankedFlow(g)'
    <2>1. Net(g)' = Net(g)
      BY <1>1, NetPrime DEF Net
    <2> QED
      BY <1>1, <2>1 DEF RankedInv, RankedFlow
  <1> QED
    BY <1>2, <1>3 DEF RankedInv

\* Every step does: over PFabricQueues no packet is dropped at random.
LEMMA RanksKept ==
  ASSUME NetworkInv, AcksFit(config), Ranked, RankedInv, [Next]_vars PROVE RankedInv'
  <1>1. ASSUME NEW h \in Host, NEW i \in Paths, PacketArrival(h, i) PROVE RankedInv'
    BY <1>1, ArrivalKeepsRanks
  <1>2. \A h \in Host, i \in Paths : ~ProbDrop(h, i)
    BY DEF ProbDrop
  <1>3. ASSUME NEW f \in Users, StartFlow(f) PROVE RankedInv'
    BY <1>3, StartKeepsRanks
  <1>4. ASSUME NEW f \in Users, RetxTimeout(f) PROVE RankedInv'
    BY <1>4, TimeoutKeepsRanks
  <1> QED
    BY <1>1, <1>2, <1>3, <1>4, StutterKeepsRanks DEF Next

\* At first nothing is in the queues, and nothing is acknowledged.
LEMMA InitRanks ==
  ASSUME Init, AcksFit(config), Ranked PROVE RankedInv
  <1>1. /\ NetworkInv /\ config \in Configs /\ queue \in Queues /\ Users \subseteq Flows
        /\ \A f \in Flows : Net(f) = NoPackets /\ lost[f] = {}
        /\ faults = 0
    BY InitKeeps, ConfigFacts DEF NetworkInv, Init
  <1>2. \A h \in Host : queue[h][1] = <<>>
    BY OnePath DEF Init
  <1>3. Orderly(queue) /\ AcksSpared(lost)
    BY <1>1, <1>2 DEF Orderly, InOrder, AllPlaced, AcksSpared
  <1>4. ASSUME NEW g \in Users PROVE RankedFlow(g)
    <2>1. PICK c, s : c = config.users[g].class /\ s = config.users[g].size
      OBVIOUS
    <2>2. flow[g] = New(c, s)
      BY <1>1, <2>1 DEF Init, Kind, Users
    <2>3. c \in FlowClass /\ s \in Nat \ {0}
      <3>1. PICK K : K = [class : FlowClass, size : Nat \ {0}, src : Host]
        OBVIOUS
      <3>2. config.users \in Seq(K) /\ g \in DOMAIN config.users
        BY <1>1, <3>1, ConfigAssumption DEF Users
      <3>3. config.users[g] \in K
        BY <3>2
      <3> QED
        BY <2>1, <3>1, <3>3
    <2>4. PICK e : e = flow[g]
      OBVIOUS
    <2>5. /\ e \in FlowState /\ ReceivedOK(e) /\ e.class = c /\ e.size = s /\ ~e.finished
          /\ e.last_unacked_seq = 0 /\ e.scoreboard_sack_bytes = 0
      BY <2>2, <2>3, <2>4, NewFacts
    <2>6. c = "DctcpFlow" => s % Mss = 0
      BY <2>1 DEF AcksFit, Ranked, Users
    <2>7. End(e) = e.size
      BY <2>5, <2>6, WholePackets
    <2>8. Remaining(e) > 0
      BY <2>3, <2>5 DEF Remaining
    <2>9. DOMAIN Net(g) = {}
      BY <1>1, OnePacket
    <2>10. Count(queue, g) = 0
      <3>1. Own(queue["a"][1], g) = {} /\ Own(queue["b"][1], g) = {}
        BY <1>2 DEF Host, Own
      <3> QED
        BY <3>1, FS_EmptySet DEF Count
    <2>11. Cardinality(Below(e)) \in Nat /\ Cardinality(Seqs(e)) \in Nat
      BY <2>5, BelowFacts
    <2>12. Count(queue, g) <= Cardinality(Below(e)) + faults * Cardinality(Seqs(e))
      <3>1. faults * Cardinality(Seqs(e)) = 0
        BY <1>1, <2>11
      <3> QED
        BY <2>10, <2>11, <3>1
    <2> QED
      BY <2>1, <2>4, <2>5, <2>7, <2>8, <2>9, <2>12 DEF RankedFlow, Rankable
  <1> QED
    BY <1>3, <1>4 DEF RankedInv

\* What holds over any queues, and over PFabricQueues.
RankInv == NetworkInv /\ (Ranked => RankedInv)

\* If the queues hold the acknowledgements that may be under way, PFabricQueues drop data
\* alone, and never does a flow take less to remain than there is: the priority of its
\* packets does not wrap.
THEOREM AcksAreSpared ==
  ASSUME \A c \in Configs : AcksFit(c)
  PROVE  Spec => []PFabricSparesAcks
  <1>1. Init => RankInv
    BY InitKeeps, InitRanks DEF RankInv, NetworkInv
  <1>2. RankInv /\ [Next]_vars => RankInv'
    <2> SUFFICES ASSUME RankInv, [Next]_vars PROVE RankInv'
      OBVIOUS
    <2>1. NetworkInv' /\ AcksFit(config)
      BY NetworkKeeps DEF RankInv, NetworkInv
    <2>2. config' = config
      BY NextIsStep DEF RankInv, NetworkStep, vars
    <2>3. Ranked' <=> Ranked
      BY <2>2 DEF Ranked
    <2> QED
      BY <2>1, <2>3, RanksKept DEF RankInv
  <1>3. RankInv => PFabricSparesAcks
    <2> SUFFICES ASSUME RankInv, Ranked, NEW f \in Users
                 PROVE  /\ "ACK" \notin lost[f]
                        /\ ~flow[f].finished =>
                             flow[f].size - flow[f].last_unacked_seq - flow[f].scoreboard_sack_bytes > 0
      BY DEF PFabricSparesAcks
    <2> QED
      BY DEF RankInv, RankedInv, AcksSpared, RankedFlow, Rankable, Remaining
  <1> QED
    BY <1>1, <1>2, <1>3, PTL DEF Spec

=============================================================================
