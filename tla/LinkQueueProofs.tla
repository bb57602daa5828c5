--------------------------- MODULE LinkQueueProofs ---------------------------
(***************************************************************************)
(* The queues and the event loop for any network, load and delays: no      *)
(* wakeup is lost, what is sent first on a way arrives first, and data     *)
(* that is spaced at its source needs no buffer and is never late; and     *)
(* data with any schedules takes the way its schedule has reserved.        *)
(***************************************************************************)
EXTENDS LinkQueue, TLAPS

\* Packet p is the i-th in queue q.
InQueue(p, q, i) == i \in 1 .. Len(packets[q]) /\ packets[q][i] = p

\* Queue q is on the way of p.
Passes(p, q) == Level[q] \in 1 .. Len(Way[p]) /\ Way[p][Level[q]] = q

(***************************************************************************)
(* Ways and queues.                                                        *)
(***************************************************************************)

\* The constants' types.
LEMMA ConstantTypes ==
  /\ Hdr \in Nat /\ Hdr >= 1 /\ Prop \in Nat
  /\ \A p \in Packet :
       /\ Len(Way[p]) \in Nat /\ Len(Way[p]) >= 1 /\ SendTime[p] \in Nat
       /\ \A i \in 1 .. Len(Way[p]) : Way[p][i] \in Queues /\ Passes(p, Way[p][i])
                                      /\ Level[Way[p][i]] = i
       /\ First(p) \in Queues /\ Passes(p, First(p)) /\ Level[First(p)] = 1
  /\ None \notin Packet /\ None \notin Queues
  <1>1. Hdr \in Nat /\ Hdr >= 1 /\ Prop \in Nat /\ None \notin Packet /\ None \notin Queues
    BY LinkAssumption
  <1>2. ASSUME NEW p \in Packet
        PROVE  /\ Len(Way[p]) \in Nat /\ Len(Way[p]) >= 1 /\ SendTime[p] \in Nat
               /\ \A i \in 1 .. Len(Way[p]) : Way[p][i] \in Queues
                                              /\ Level[Way[p][i]] = i
    BY LinkAssumption
  <1> QED
    BY <1>1, <1>2 DEF Passes, First

\* The next queue is one level higher, if there is one.
LEMMA NextFacts ==
  ASSUME NEW p \in Packet, NEW q \in Queues, Passes(p, q)
  PROVE  /\ NextHop(p, q) \in Queues \union {None}
         /\ NextHop(p, q) # None =>
              /\ NextHop(p, q) \in Queues /\ Passes(p, NextHop(p, q))
              /\ Level[NextHop(p, q)] = Level[q] + 1
         /\ NextHop(p, q) = None => Level[q] = Len(Way[p])
  <1>1. Level[q] \in 1 .. Len(Way[p]) /\ Len(Way[p]) \in Nat
    BY ConstantTypes DEF Passes
  <1>2. CASE Level[q] < Len(Way[p])
    <2>1. Level[q] + 1 \in 1 .. Len(Way[p])
      BY <1>1, <1>2
    <2> QED
      BY <1>2, <2>1, ConstantTypes DEF NextHop
  <1>3. CASE ~(Level[q] < Len(Way[p]))
    BY <1>1, <1>3 DEF NextHop
  <1> QED
    BY <1>2, <1>3

\* Typing, the ways, and the wakeups.
OnWay ==
  /\ \A e \in events :
       e.packet # None => /\ e.packet \in load
                          /\ e.queue # None => Passes(e.packet, e.queue)
  /\ \A p \in Packet, q \in Queues, i \in Nat : InQueue(p, q, i) => p \in load /\ Passes(p, q)

WakeInv == TypeOK /\ OnWay /\ BusyQueuesAwake

\* The three kinds of events.
LEMMA EventKinds ==
  ASSUME TypeOK, NEW e \in events
  PROVE  /\ e.time \in Nat /\ e.type \in EventTypes
         /\ e.type = "PACKET_QUEUING" => e.packet \in Packet /\ e.queue \in Queues
         /\ e.type = "PACKET_ARRIVAL" => e.packet \in Packet /\ e.queue = None
         /\ e.type = "QUEUE_PROCESSING" => e.packet = None /\ e.queue \in Queues
  BY DEF TypeOK, EventType, EventTypes

\* The event taken is one of the earliest.
LEMMA TopIsEarliest ==
  ASSUME TypeOK, NEW e \in events, NEW type, Top(e, type), NEW f \in events
  PROVE  e.time <= f.time /\ (e.time = f.time => Priority[e.type] <= Priority[f.type])
  <1>1. e.time \in Nat /\ f.time \in Nat /\ e.type \in EventTypes /\ f.type \in EventTypes
    BY EventKinds
  <1>2. ~Before(f, e)
    BY DEF Top
  <1>3. \A t \in EventTypes : Priority[t] \in Nat
    BY DEF Priority, EventTypes
  <1> QED
    BY <1>1, <1>2, <1>3 DEF Before

\* A packet joins the end of its queue, or is refused.
LEMMA EnqueFacts ==
  ASSUME TypeOK, NEW x \in Packet, NEW a \in Queues, Enque(x, a)
  PROVE  /\ packets' \in [Queues -> Seq(Packet)] /\ failed' \in {failed, "collision", "drop"}
         /\ Admits(a) =>
              /\ failed' = failed
              /\ Len(packets[a]) \in Nat
              /\ \A p \in Packet, q \in Queues, i \in Nat :
                   InQueue(p, q, i)' <=>
                     InQueue(p, q, i) \/ (p = x /\ q = a /\ i = Len(packets[a]) + 1)
         /\ ~Admits(a) => packets' = packets /\ failed' = Refusal(a)
         /\ \A q \in Queues : q # a => packets'[q] = packets[q]
  <1>1. packets \in [Queues -> Seq(Packet)]
    BY DEF TypeOK
  <1>2. CASE ~Admits(a)
    BY <1>1, <1>2 DEF Enque, Refusal
  <1>3. CASE Admits(a)
    <2>1. packets' = [packets EXCEPT ![a] = Append(packets[a], x)] /\ failed' = failed
      BY <1>3 DEF Enque
    <2>2. packets[a] \in Seq(Packet) /\ packets'[a] = Append(packets[a], x)
      BY <1>1, <2>1
    <2>3. /\ packets' \in [Queues -> Seq(Packet)]
          /\ \A q \in Queues : q # a => packets'[q] = packets[q]
      BY <1>1, <2>1
    <2>4. /\ Len(packets'[a]) = Len(packets[a]) + 1 /\ Len(packets[a]) \in Nat
          /\ \A i \in 1 .. Len(packets[a]) : packets'[a][i] = packets[a][i]
          /\ packets'[a][Len(packets[a]) + 1] = x
      BY <2>2
    <2>5. ASSUME NEW p \in Packet, NEW q \in Queues, NEW i \in Nat
          PROVE  InQueue(p, q, i)' <=>
                   InQueue(p, q, i) \/ (p = x /\ q = a /\ i = Len(packets[a]) + 1)
      <3>1. CASE q # a
        BY <2>3, <3>1 DEF InQueue
      <3>2. CASE q = a
        BY <2>4, <3>2 DEF InQueue
      <3> QED
        BY <3>1, <3>2
    <2> QED
      BY <1>3, <2>1, <2>3, <2>4, <2>5
  <1> QED
    BY <1>2, <1>3

\* The first packet leaves its queue, and the others move up.
LEMMA TransmitFacts ==
  ASSUME TypeOK, NEW a \in Queues, packets[a] # <<>>,
         packets' = [packets EXCEPT ![a] = Tail(@)]
  PROVE  /\ packets' \in [Queues -> Seq(Packet)]
         /\ Front(a) \in Packet /\ InQueue(Front(a), a, 1)
         /\ Len(packets'[a]) = Len(packets[a]) - 1 /\ Len(packets[a]) \in Nat
         /\ \A p \in Packet, q \in Queues, i \in Nat :
              InQueue(p, q, i)' <=>
                IF q = a THEN i >= 1 /\ InQueue(p, q, i + 1) ELSE InQueue(p, q, i)
         /\ \A q \in Queues : q # a => packets'[q] = packets[q]
  <1>1. packets \in [Queues -> Seq(Packet)]
    BY DEF TypeOK
  <1>2. /\ packets[a] \in Seq(Packet) /\ packets'[a] = Tail(packets[a])
        /\ packets' \in [Queues -> Seq(Packet)]
        /\ \A q \in Queues : q # a => packets'[q] = packets[q]
    BY <1>1
  <1>3. /\ Len(packets[a]) \in Nat /\ Len(packets[a]) >= 1
        /\ Len(packets'[a]) = Len(packets[a]) - 1
        /\ \A i \in 1 .. Len(packets'[a]) : packets'[a][i] = packets[a][i + 1]
        /\ Front(a) = packets[a][1] /\ Front(a) \in Packet
    BY <1>2 DEF Front
  <1>4. ASSUME NEW p \in Packet, NEW q \in Queues, NEW i \in Nat
        PROVE  InQueue(p, q, i)' <=>
                 IF q = a THEN i >= 1 /\ InQueue(p, q, i + 1) ELSE InQueue(p, q, i)
    <2>1. CASE q # a
      BY <1>2, <2>1 DEF InQueue
    <2>2. CASE q = a
      BY <1>3, <2>2 DEF InQueue
    <2> QED
      BY <2>1, <2>2
  <1>5. InQueue(Front(a), a, 1)
    BY <1>3 DEF InQueue
  <1> QED
    BY <1>2, <1>3, <1>4, <1>5

(***************************************************************************)
(* No wakeup is lost or doubled.                                           *)
(***************************************************************************)

\* At the start only the senders' events are pending.
LEMMA WakeInit == Init => WakeInv
  <1> SUFFICES ASSUME Init PROVE WakeInv
    OBVIOUS
  <1>1. load \subseteq Packet
    BY LinkAssumption DEF Init
  <1>2. ASSUME NEW e \in events
        PROVE  /\ e \in EventType /\ e.type = "PACKET_QUEUING" /\ e.packet \in load
               /\ e.queue = First(e.packet)
    <2>1. PICK p \in load : e = Event("PACKET_QUEUING", SendTime[p], p, First(p))
      BY DEF Init
    <2>2. p \in Packet /\ SendTime[p] \in Nat /\ First(p) \in Queues
      BY <1>1, ConstantTypes
    <2> QED
      BY <2>1, <2>2 DEF Event, EventType, EventTypes
  <1>3. \A q \in Queues : packets[q] = <<>> /\ busy[q] = FALSE /\ Processing(q) = {}
    BY <1>2 DEF Init, Processing
  <1>4. TypeOK
    <2>1. \A e \in events : e.packet # None /\ e.queue # None
      BY <1>1, <1>2, ConstantTypes
    <2>2. \A e \in events : /\ e.type = "QUEUE_PROCESSING" <=> e.packet = None
                            /\ e.type = "PACKET_ARRIVAL" <=> e.queue = None
      BY <1>2, <2>1
    <2>3. packets \in [Queues -> Seq(Packet)] /\ busy \in [Queues -> BOOLEAN]
      BY DEF Init
    <2>4. arrived \in Seq([packet : Packet, time : Nat]) /\ failed = "no"
      BY DEF Init
    <2> QED
      BY <1>1, <1>2, <2>2, <2>3, <2>4 DEF TypeOK
  <1>5. OnWay
    <2>1. \A e \in events : Passes(e.packet, e.queue)
      BY <1>1, <1>2, ConstantTypes
    <2>2. \A p \in Packet, q \in Queues, i \in Nat : ~InQueue(p, q, i)
      BY <1>3 DEF InQueue
    <2> QED
      BY <1>2, <2>1, <2>2 DEF OnWay
  <1>6. BusyQueuesAwake
    BY <1>3 DEF BusyQueuesAwake
  <1> QED
    BY <1>4, <1>5, <1>6 DEF WakeInv

\* A packet that is queued wakes the queue, if nothing else has.
LEMMA WakeQueuing ==
  ASSUME WakeInv, NEW e \in events, PacketQueuing(e) PROVE WakeInv'
  <1>0. PICK a, x, w : a = e.queue /\ x = e.packet /\ w = Wake(e.time, a)
    OBVIOUS
  <1>1. /\ TypeOK /\ OnWay /\ BusyQueuesAwake
        /\ e.type = "PACKET_QUEUING" /\ a \in Queues /\ x \in Packet /\ e.time \in Nat
        /\ x # None /\ a # None /\ Enque(x, a) /\ failed = "no"
    BY <1>0, EventKinds, ConstantTypes DEF WakeInv, PacketQueuing, Top
  <1>2. /\ busy' = [busy EXCEPT ![a] = TRUE] /\ events' = (events \ {e}) \union w
        /\ UNCHANGED <<load, arrived>>
    BY <1>0 DEF PacketQueuing
  <1>3. \A g \in w : /\ g \in EventType /\ g.type = "QUEUE_PROCESSING"
                     /\ g.packet = None /\ g.queue = a
    BY <1>0, <1>1 DEF Wake, Event, EventType, EventTypes
  <1>4. TypeOK'
    <2>1. packets' \in [Queues -> Seq(Packet)] /\ failed' \in {"no", "collision", "drop"}
      BY <1>1, EnqueFacts
    <2>2. busy' \in [Queues -> BOOLEAN]
      BY <1>1, <1>2 DEF TypeOK
    <2>3. events' \subseteq EventType
      BY <1>1, <1>2, <1>3 DEF TypeOK
    <2>4. \A g \in events' : /\ g.type = "QUEUE_PROCESSING" <=> g.packet = None
                             /\ g.type = "PACKET_ARRIVAL" <=> g.queue = None
      BY <1>1, <1>2, <1>3 DEF TypeOK
    <2>5. load' \subseteq Packet /\ arrived' \in Seq([packet : Packet, time : Nat])
      BY <1>1, <1>2 DEF TypeOK
    <2> QED
      BY <2>1, <2>2, <2>3, <2>4, <2>5 DEF TypeOK
  <1>5. OnWay'
    <2>1. x \in load /\ Passes(x, a)
      BY <1>0, <1>1 DEF OnWay
    <2>2. \A p \in Packet, q \in Queues, i \in Nat :
            InQueue(p, q, i)' => InQueue(p, q, i) \/ (p = x /\ q = a)
      <3>1. CASE Admits(a)
        BY <1>1, <3>1, EnqueFacts
      <3>2. CASE ~Admits(a)
        BY <1>1, <3>2, EnqueFacts DEF InQueue
      <3> QED
        BY <3>1, <3>2
    <2> QED
      BY <1>1, <1>2, <1>3, <2>1, <2>2 DEF OnWay, Passes
  <1>6. BusyQueuesAwake'
    <2> SUFFICES ASSUME NEW q \in Queues
                 PROVE  /\ busy'[q] <=> \E g \in events' : Processing(q)' = {g}
                        /\ ~busy'[q] => Processing(q)' = {} /\ packets'[q] = <<>>
      BY DEF BusyQueuesAwake
    <2>1. CASE q # a
      <3>1. Processing(q)' = Processing(q)
        BY <1>1, <1>2, <1>3, <2>1 DEF Processing
      <3>2. busy'[q] = busy[q] /\ packets'[q] = packets[q]
        BY <1>1, <1>2, <2>1, EnqueFacts DEF TypeOK
      <3>3. \A g : Processing(q) = {g} => g \in events /\ g \in events'
        BY <3>1 DEF Processing
      <3>4. \A g : Processing(q)' = {g} => g \in events
        BY <3>1 DEF Processing
      <3> QED
        BY <1>1, <3>1, <3>2, <3>3, <3>4 DEF BusyQueuesAwake
    <2>2. CASE q = a
      <3>1. busy'[q] = TRUE
        BY <1>1, <1>2, <2>2 DEF TypeOK
      <3>2. \E g : Processing(q)' = {g}
        <4>1. Processing(q)' = Processing(q) \union w
          BY <1>1, <1>2, <1>3, <2>2 DEF Processing
        <4>2. CASE busy[q]
          <5>1. w = {}
            BY <1>0, <2>2, <4>2 DEF Wake
          <5> QED
            BY <1>1, <4>1, <4>2, <5>1 DEF BusyQueuesAwake
        <4>3. CASE ~busy[q]
          <5>1. \E g : w = {g}
            BY <1>0, <2>2, <4>3 DEF Wake
          <5> QED
            BY <1>1, <4>1, <4>3, <5>1 DEF BusyQueuesAwake
        <4> QED
          BY <4>2, <4>3
      <3>3. \A g : Processing(q)' = {g} => g \in events'
        BY DEF Processing
      <3> QED
        BY <3>1, <3>2, <3>3
    <2> QED
      BY <2>1, <2>2
  <1> QED
    BY <1>4, <1>5, <1>6 DEF WakeInv

\* A queue that sends goes on after the header's time.
LEMMA WakeTransmit ==
  ASSUME WakeInv, NEW e \in events, Transmit(e) PROVE WakeInv'
  <1>0. PICK a, x, w, o :
          /\ a = e.queue /\ x = Front(a)
          /\ w = Event("QUEUE_PROCESSING", e.time + Hdr, None, a)
          /\ o = Onward(x, a, e.time)
    OBVIOUS
  <1>1. /\ TypeOK /\ OnWay /\ BusyQueuesAwake
        /\ e.type = "QUEUE_PROCESSING" /\ a \in Queues /\ e.time \in Nat
        /\ e.packet = None /\ packets[a] # <<>>
    BY <1>0, EventKinds DEF WakeInv, Transmit, Top
  <1>2. /\ packets' = [packets EXCEPT ![a] = Tail(@)]
        /\ events' = (events \ {e}) \union {w, o}
        /\ UNCHANGED <<load, busy, arrived, failed>>
    BY <1>0 DEF Transmit
  <1>3. /\ x \in Packet /\ InQueue(x, a, 1) /\ x \in load /\ Passes(x, a)
        /\ packets' \in [Queues -> Seq(Packet)]
    BY <1>0, <1>1, <1>2, TransmitFacts DEF OnWay
  <1>4. /\ w \in EventType /\ w.type = "QUEUE_PROCESSING" /\ w.packet = None
        /\ w.queue = a
    BY <1>0, <1>1, ConstantTypes DEF Event, EventType, EventTypes
  <1>5. /\ o \in EventType /\ o.packet = x /\ o.queue = NextHop(x, a)
        /\ o.type # "QUEUE_PROCESSING"
        /\ o.type = "PACKET_ARRIVAL" <=> o.queue = None
    <2>1. e.time + Hdr + Prop \in Nat /\ NextHop(x, a) \in Queues \union {None}
      BY <1>1, <1>3, ConstantTypes, NextFacts
    <2> QED
      BY <1>0, <1>3, <2>1 DEF Onward, Event, EventType, EventTypes
  <1>6. TypeOK'
    <2>1. events' \subseteq EventType
      BY <1>1, <1>2, <1>4, <1>5 DEF TypeOK
    <2>2. \A g \in events' : /\ g.type = "QUEUE_PROCESSING" <=> g.packet = None
                             /\ g.type = "PACKET_ARRIVAL" <=> g.queue = None
      BY <1>1, <1>2, <1>3, <1>4, <1>5, ConstantTypes DEF TypeOK
    <2> QED
      BY <1>1, <1>2, <1>3, <2>1, <2>2 DEF TypeOK
  <1>7. OnWay'
    <2>1. o.queue # None => Passes(x, o.queue)
      BY <1>1, <1>3, <1>5, NextFacts
    <2>2. \A p \in Packet, q \in Queues, i \in Nat :
            InQueue(p, q, i)' => \E j \in Nat : InQueue(p, q, j)
      <3> SUFFICES ASSUME NEW p \in Packet, NEW q \in Queues, NEW i \in Nat,
                          InQueue(p, q, i)'
                   PROVE  \E j \in Nat : InQueue(p, q, j)
        OBVIOUS
      <3>1. IF q = a THEN i >= 1 /\ InQueue(p, q, i + 1) ELSE InQueue(p, q, i)
        BY <1>1, <1>2, TransmitFacts
      <3> QED
        BY <3>1
    <2>3. \A p \in Packet, q \in Queues, i \in Nat :
            InQueue(p, q, i)' => p \in load /\ Passes(p, q)
      BY <1>1, <2>2 DEF OnWay
    <2>4. \A p, q : Passes(p, q)' <=> Passes(p, q)
      BY DEF Passes
    <2> QED
      BY <1>1, <1>2, <1>3, <1>4, <1>5, <2>1, <2>3, <2>4 DEF OnWay
  <1>8. BusyQueuesAwake'
    <2> SUFFICES ASSUME NEW q \in Queues
                 PROVE  /\ busy'[q] <=> \E g \in events' : Processing(q)' = {g}
                        /\ ~busy'[q] => Processing(q)' = {} /\ packets'[q] = <<>>
      BY DEF BusyQueuesAwake
    <2>1. CASE q # a
      <3>1. Processing(q)' = Processing(q)
        BY <1>0, <1>1, <1>2, <1>4, <1>5, <2>1 DEF Processing
      <3>2. busy'[q] = busy[q] /\ packets'[q] = packets[q]
        BY <1>1, <1>2, <2>1, TransmitFacts
      <3>3. \A g : Processing(q) = {g} => g \in events /\ g \in events'
        BY <3>1 DEF Processing
      <3> QED
        BY <1>1, <3>1, <3>2, <3>3 DEF BusyQueuesAwake
    <2>2. CASE q = a
      <3>1. e \in Processing(q) /\ busy[q] /\ Processing(q) = {e}
        BY <1>0, <1>1, <2>2 DEF BusyQueuesAwake, Processing
      <3>2. Processing(q)' = {w} /\ w \in events'
        BY <1>2, <1>4, <1>5, <2>2, <3>1 DEF Processing
      <3> QED
        BY <1>2, <3>1, <3>2
    <2> QED
      BY <2>1, <2>2
  <1> QED
    BY <1>6, <1>7, <1>8 DEF WakeInv

\* A queue with nothing to send goes idle, and no event of it is pending.
LEMMA WakeIdle ==
  ASSUME WakeInv, NEW e \in events, GoIdle(e) PROVE WakeInv'
  <1>0. PICK a : a = e.queue
    OBVIOUS
  <1>1. /\ TypeOK /\ OnWay /\ BusyQueuesAwake
        /\ e.type = "QUEUE_PROCESSING" /\ a \in Queues /\ packets[a] = <<>>
    BY <1>0, EventKinds DEF WakeInv, GoIdle, Top
  <1>2. /\ busy' = [busy EXCEPT ![a] = FALSE] /\ events' = events \ {e}
        /\ UNCHANGED <<load, packets, arrived, failed>>
    BY <1>0 DEF GoIdle
  <1>3. TypeOK' /\ OnWay'
    BY <1>1, <1>2 DEF TypeOK, OnWay, InQueue, Passes
  <1>4. BusyQueuesAwake'
    <2> SUFFICES ASSUME NEW q \in Queues
                 PROVE  /\ busy'[q] <=> \E g \in events' : Processing(q)' = {g}
                        /\ ~busy'[q] => Processing(q)' = {} /\ packets'[q] = <<>>
      BY DEF BusyQueuesAwake
    <2>1. CASE q # a
      <3>1. Processing(q)' = Processing(q)
        BY <1>0, <1>2, <2>1 DEF Processing
      <3>2. busy'[q] = busy[q] /\ packets'[q] = packets[q]
        BY <1>1, <1>2, <2>1 DEF TypeOK
      <3>3. \A g : Processing(q) = {g} => g \in events /\ g \in events'
        BY <3>1 DEF Processing
      <3> QED
        BY <1>1, <3>1, <3>2, <3>3 DEF BusyQueuesAwake
    <2>2. CASE q = a
      <3>1. Processing(q) = {e}
        BY <1>0, <1>1, <2>2 DEF BusyQueuesAwake, Processing
      <3>2. Processing(q)' = {} /\ busy'[q] = FALSE /\ packets'[q] = <<>>
        BY <1>1, <1>2, <2>2, <3>1 DEF Processing, TypeOK
      <3> QED
        BY <3>2
    <2> QED
      BY <2>1, <2>2
  <1> QED
    BY <1>3, <1>4 DEF WakeInv

\* An arrival is no queue's business.
LEMMA WakeArrival ==
  ASSUME WakeInv, NEW e \in events, PacketArrival(e) PROVE WakeInv'
  <1>1. /\ TypeOK /\ OnWay /\ BusyQueuesAwake /\ e.type = "PACKET_ARRIVAL"
        /\ e.packet \in Packet /\ e.time \in Nat
    BY EventKinds DEF WakeInv, PacketArrival, Top
  <1>2. /\ arrived' = Append(arrived, [packet |-> e.packet, time |-> e.time])
        /\ events' = events \ {e}
        /\ UNCHANGED <<load, packets, busy, failed>>
    BY DEF PacketArrival
  <1>3. arrived' \in Seq([packet : Packet, time : Nat])
    BY <1>1, <1>2 DEF TypeOK
  <1>4. TypeOK' /\ OnWay'
    BY <1>1, <1>2, <1>3 DEF TypeOK, OnWay, InQueue, Passes
  <1>5. \A q : Processing(q)' = Processing(q)
    BY <1>1, <1>2 DEF Processing
  <1>6. \A q, g : Processing(q) = {g} => g \in events /\ g \in events'
    BY <1>5 DEF Processing
  <1>7. BusyQueuesAwake'
    BY <1>1, <1>2, <1>5, <1>6 DEF BusyQueuesAwake
  <1> QED
    BY <1>4, <1>7 DEF WakeInv

\* Every step keeps the types, the ways and the wakeups.
LEMMA WakeStep == WakeInv /\ [Next]_vars => WakeInv'
  <1> SUFFICES ASSUME WakeInv, [Next]_vars PROVE WakeInv'
    OBVIOUS
  <1>1. CASE Next
    BY <1>1, WakeQueuing, WakeTransmit, WakeIdle, WakeArrival DEF Next
  <1>2. CASE UNCHANGED vars
    <2>1. TypeOK'
      BY <1>2 DEF vars, WakeInv, TypeOK
    <2>2. OnWay'
      BY <1>2 DEF vars, WakeInv, OnWay, InQueue, Passes
    <2>3. \A q : Processing(q)' = Processing(q)
      BY <1>2 DEF vars, Processing
    <2>4. BusyQueuesAwake'
      BY <1>2, <2>3 DEF vars, WakeInv, BusyQueuesAwake
    <2> QED
      BY <2>1, <2>2, <2>4 DEF WakeInv
  <1> QED
    BY <1>1, <1>2

\* The queues, the events and what has arrived keep their types, and every packet
\* is on the way get_next_hop chose for it.
THEOREM QueueTypesOK == Spec => []TypeOK
  <1>1. WakeInv => TypeOK
    BY DEF WakeInv
  <1> QED
    BY <1>1, WakeInit, WakeStep, PTL DEF Spec

\* The busy flag of every queue agrees with the QueueProcessingEvents of the heap.
THEOREM WakeupsKept == Spec => []BusyQueuesAwake
  <1>1. WakeInv => BusyQueuesAwake
    BY DEF WakeInv
  <1> QED
    BY <1>1, WakeInit, WakeStep, PTL DEF Spec

(***************************************************************************)
(* What is sent first on a way arrives first.                              *)
(***************************************************************************)

\* A packet is in one event or in one queue, and none is lost while the program runs.
OnePlace ==
  /\ \A e, f \in events : e.packet = f.packet /\ e.packet # None => e = f
  /\ \A e \in events, q \in Queues, i \in Nat : e.packet # None => ~InQueue(e.packet, q, i)
  /\ \A p \in Packet, q, r \in Queues, i, j \in Nat :
       InQueue(p, q, i) /\ InQueue(p, r, j) => q = r /\ i = j

HasArrived(p) == \E i \in 1 .. Len(arrived) : arrived[i].packet = p

Somewhere ==
  failed = "no" =>
    \A p \in load : \/ HasArrived(p)
                    \/ \E e \in events : e.packet = p
                    \/ \E q \in Queues, i \in Nat : InQueue(p, q, i)

\* The hop an event brings a packet to, its arrival being one more than its last.
Stage(p, q) == IF q = None THEN Len(Way[p]) + 1 ELSE Level[q]

\* A packet is never behind one that was sent after it on the same way.
Ahead(p, r) ==
  /\ \A e, f \in events :
       e.packet = p /\ f.packet = r =>
         \/ Stage(p, e.queue) > Stage(r, f.queue)
         \/ Stage(p, e.queue) = Stage(r, f.queue) /\ Before(e, f)
  /\ \A e \in events, q \in Queues, j \in Nat :
       e.packet = p /\ InQueue(r, q, j) => Stage(p, e.queue) > Level[q]
  /\ \A f \in events, q \in Queues, i \in Nat :
       f.packet = r /\ InQueue(p, q, i) => Level[q] >= Stage(r, f.queue)
  /\ \A q, a \in Queues, i, j \in Nat :
       InQueue(p, q, i) /\ InQueue(r, a, j) => Level[q] > Level[a] \/ (q = a /\ i < j)

Ordered == \A p, r \in Packet : SentBefore(p, r) => Ahead(p, r)

\* The queue a packet on a link comes from does not send before the header is out:
\* its next QueueProcessingEvent is that late, or it is that late already.
NotBefore(q, t) ==
  (\A g \in events : g.time >= t) \/ (\E g \in Processing(q) : g.time >= t)

Pace ==
  \A e \in events, q \in Queues :
    e.packet # None /\ Passes(e.packet, q) /\ Stage(e.packet, e.queue) = Level[q] + 1 =>
      NotBefore(q, e.time - Prop)

FifoInv == WakeInv /\ OnePlace /\ Somewhere /\ Ordered /\ Pace /\ PushOrderKept

\* The stage of a packet on a link is at most one past its last queue.
LEMMA StageFacts ==
  ASSUME TypeOK, OnWay, NEW e \in events, e.packet # None
  PROVE  /\ e.packet \in Packet /\ e.packet \in load
         /\ Stage(e.packet, e.queue) \in 1 .. Len(Way[e.packet]) + 1
         /\ e.queue = None => Stage(e.packet, e.queue) = Len(Way[e.packet]) + 1
         /\ e.queue # None => /\ e.queue \in Queues /\ Passes(e.packet, e.queue)
                              /\ Stage(e.packet, e.queue) = Level[e.queue]
  <1>1. e.packet \in Packet /\ e.packet \in load /\ e.queue \in Queues \union {None}
        /\ (e.queue # None => Passes(e.packet, e.queue))
    BY EventKinds, ConstantTypes DEF OnWay, EventTypes
  <1>2. Len(Way[e.packet]) \in Nat
    BY <1>1, ConstantTypes
  <1> QED
    BY <1>1, <1>2 DEF Stage, Passes

\* A packet in a queue is on its way, and the next stage is one more.
LEMMA QueueFacts ==
  ASSUME TypeOK, OnWay, NEW p \in Packet, NEW q \in Queues, NEW i \in Nat, InQueue(p, q, i)
  PROVE  /\ p \in load /\ Passes(p, q) /\ i >= 1
         /\ Level[q] \in 1 .. Len(Way[p]) /\ Len(Way[p]) \in Nat
         /\ Stage(p, NextHop(p, q)) = Level[q] + 1
  <1>1. p \in load /\ Passes(p, q) /\ i >= 1
    BY DEF OnWay, InQueue
  <1>2. Level[q] \in 1 .. Len(Way[p]) /\ Len(Way[p]) \in Nat
    BY <1>1, ConstantTypes DEF Passes
  <1> QED
    BY <1>1, <1>2, NextFacts, ConstantTypes DEF Stage

\* A way has one queue of a level.
LEMMA SameLevel ==
  ASSUME NEW p, NEW r, NEW q, NEW a, Way[p] = Way[r], Passes(p, q), Passes(r, a),
         Level[q] = Level[a]
  PROVE  q = a
  BY DEF Passes

\* Once it is that late, or the queue waits that long, it stays so.
LEMMA NotBeforeKept ==
  ASSUME TypeOK, NEW e \in events, NEW type, Top(e, type), NEW new,
         events' = (events \ {e}) \union new,
         \A g \in new : g.time \in Nat /\ g.time >= e.time,
         NEW q \in Queues, NEW t \in Int, NotBefore(q, t)
  PROVE  NotBefore(q, t)'
  <1>1. \A g \in events : g.time \in Nat /\ g.time >= e.time
    BY EventKinds, TopIsEarliest
  <1>2. CASE e.time >= t
    BY <1>1, <1>2 DEF NotBefore
  <1>3. CASE ~(e.time >= t)
    <2>1. PICK h \in Processing(q) : h.time >= t
      BY <1>1, <1>3 DEF NotBefore
    <2>2. h \in Processing(q)'
      BY <1>3, <2>1 DEF Processing
    <2> QED
      BY <2>1, <2>2 DEF NotBefore
  <1> QED
    BY <1>2, <1>3

\* At the start the packets are on their way to their first queues, in order.
LEMMA FifoInit == Init => FifoInv
  <1> SUFFICES ASSUME Init PROVE FifoInv
    OBVIOUS
  <1>1. WakeInv
    BY WakeInit
  <1>2. load \subseteq Packet
    BY LinkAssumption DEF Init
  <1>3. \A e \in events : /\ e.packet \in load /\ e.packet \in Packet
                          /\ e.type = "PACKET_QUEUING"
                          /\ e = Event("PACKET_QUEUING", SendTime[e.packet], e.packet,
                                       First(e.packet))
    BY <1>2 DEF Init, Event
  <1>4. \A p \in Packet, q \in Queues, i \in Nat : ~InQueue(p, q, i)
    BY DEF Init, InQueue
  <1>5. \A e \in events : /\ Stage(e.packet, e.queue) = 1
                          /\ e.time = SendTime[e.packet] /\ e.queue = First(e.packet)
    <2> SUFFICES ASSUME NEW e \in events
                 PROVE  /\ Stage(e.packet, e.queue) = 1
                        /\ e.time = SendTime[e.packet] /\ e.queue = First(e.packet)
      OBVIOUS
    <2>1. e.time = SendTime[e.packet] /\ e.queue = First(e.packet)
      BY <1>3 DEF Event
    <2> QED
      BY <1>3, <2>1, ConstantTypes DEF Stage
  <1>6. OnePlace
    BY <1>3, <1>4 DEF OnePlace
  <1>7. Somewhere
    <2> SUFFICES ASSUME NEW p \in load PROVE \E e \in events : e.packet = p
      BY DEF Somewhere
    <2>1. PICK e \in events : e = Event("PACKET_QUEUING", SendTime[p], p, First(p))
      BY DEF Init
    <2> QED
      BY <2>1 DEF Event
  <1>8. Ordered
    <2> SUFFICES ASSUME NEW p \in Packet, NEW r \in Packet, SentBefore(p, r),
                        NEW e \in events, NEW f \in events, e.packet = p, f.packet = r
                 PROVE  Stage(p, e.queue) = Stage(r, f.queue) /\ Before(e, f)
      BY <1>4 DEF Ordered, Ahead
    <2>1. Stage(p, e.queue) = Stage(r, f.queue)
      BY <1>5
    <2>2. Before(e, f)
      BY <1>3, <1>5 DEF SentBefore, Before
    <2> QED
      BY <2>1, <2>2
  <1>9. Pace
    <2> SUFFICES ASSUME NEW e \in events, NEW q \in Queues, Passes(e.packet, q),
                        Stage(e.packet, e.queue) = Level[q] + 1
                 PROVE  FALSE
      BY DEF Pace
    <2>1. Level[q] \in Nat /\ Level[q] >= 1
      BY <1>3, ConstantTypes DEF Passes
    <2> QED
      BY <1>5, <2>1
  <1>10. PushOrderKept
    BY DEF Init, PushOrderKept
  <1> QED
    BY <1>1, <1>6, <1>7, <1>8, <1>9, <1>10 DEF FifoInv

\* A packet joins its queue behind those that were sent before it.
LEMMA FifoQueuing ==
  ASSUME FifoInv, NEW e \in events, PacketQueuing(e) PROVE FifoInv'
  <1>0. PICK a, x, w : a = e.queue /\ x = e.packet /\ w = Wake(e.time, a)
    OBVIOUS
  <1>1. /\ TypeOK /\ OnWay /\ BusyQueuesAwake /\ OnePlace /\ Somewhere /\ Ordered
        /\ Pace /\ PushOrderKept
        /\ a \in Queues /\ x \in Packet /\ e.time \in Nat /\ x # None /\ a # None
        /\ Enque(x, a) /\ Top(e, "PACKET_QUEUING") /\ failed = "no"
        /\ Stage(x, a) = Level[a] /\ Passes(x, a) /\ x \in load
    <2>1. TypeOK /\ OnWay /\ Top(e, "PACKET_QUEUING") /\ e.type = "PACKET_QUEUING"
      BY DEF FifoInv, WakeInv, PacketQueuing, Top
    <2>2. /\ a \in Queues /\ x \in Packet /\ e.time \in Nat /\ x # None /\ a # None
      BY <1>0, <2>1, EventKinds, ConstantTypes
    <2> QED
      BY <1>0, <2>1, <2>2, StageFacts DEF FifoInv, WakeInv, PacketQueuing, Top
  <1>2. events' = (events \ {e}) \union w /\ UNCHANGED <<load, arrived>>
    BY <1>0 DEF PacketQueuing
  <1>3. \A g \in w : g.packet = None /\ g.time = e.time
    BY <1>0 DEF Wake, Event
  <1>4. \A g \in events' : g.packet # None => g \in events /\ g.packet # x
    BY <1>0, <1>1, <1>2, <1>3 DEF OnePlace
  <1>5. \A p \in Packet, q \in Queues, i \in Nat :
          InQueue(p, q, i)' =>
            \/ InQueue(p, q, i)
            \/ p = x /\ q = a /\ i = Len(packets[a]) + 1 /\ Len(packets[a]) \in Nat
    BY <1>1, EnqueFacts DEF InQueue
  <1>6. \A q \in Queues, i \in Nat : ~InQueue(x, q, i)
    BY <1>0, <1>1 DEF OnePlace
  <1>7. WakeInv'
    BY WakeQueuing DEF FifoInv
  <1>8. OnePlace'
    <2>1. ASSUME NEW g \in events', NEW f \in events', g.packet = f.packet, g.packet # None
          PROVE  g = f
      BY <1>1, <1>4, <2>1 DEF OnePlace
    <2>2. ASSUME NEW g \in events', NEW q \in Queues, NEW i \in Nat, g.packet # None,
                 InQueue(g.packet, q, i)'
          PROVE  FALSE
      <3>1. g \in events /\ g.packet # x /\ g.packet \in Packet
        BY <1>1, <1>4, <2>2, StageFacts
      <3> QED
        BY <1>1, <1>5, <2>2, <3>1 DEF OnePlace
    <2>3. ASSUME NEW p \in Packet, NEW q \in Queues, NEW r \in Queues,
                 NEW i \in Nat, NEW j \in Nat, InQueue(p, q, i)', InQueue(p, r, j)'
          PROVE  q = r /\ i = j
      BY <1>1, <1>5, <1>6, <2>3 DEF OnePlace
    <2> QED
      BY <2>1, <2>2, <2>3 DEF OnePlace
  <1>9. Somewhere'
    <2> SUFFICES ASSUME failed' = "no", NEW p \in load
                 PROVE  \/ HasArrived(p)' \/ \E g \in events' : g.packet = p
                        \/ \E q \in Queues, i \in Nat : InQueue(p, q, i)'
      BY <1>2 DEF Somewhere
    <2>1. Admits(a) /\ p \in Packet
      BY <1>1, EnqueFacts DEF Refusal, TypeOK
    <2>2. /\ Len(packets[a]) + 1 \in Nat
          /\ \A q \in Queues, i \in Nat :
               InQueue(p, q, i)' <=>
                 InQueue(p, q, i) \/ (p = x /\ q = a /\ i = Len(packets[a]) + 1)
      BY <1>1, <2>1, EnqueFacts
    <2>3. CASE p = x
      BY <1>1, <2>2, <2>3
    <2>4. CASE p # x
      <3>1. HasArrived(p)' <=> HasArrived(p)
        BY <1>2 DEF HasArrived
      <3>2. \A g \in events : g.packet = p => g \in events'
        BY <1>0, <1>2, <2>4
      <3> QED
        BY <1>1, <2>2, <3>1, <3>2 DEF Somewhere
    <2> QED
      BY <2>3, <2>4
  <1>10. Ordered'
    <2> SUFFICES ASSUME NEW p \in Packet, NEW r \in Packet, SentBefore(p, r)
                 PROVE  Ahead(p, r)'
      BY DEF Ordered, SentBefore
    <2>1. Ahead(p, r) /\ Way[p] = Way[r] /\ p # r /\ p # None /\ r # None
      BY <1>1, ConstantTypes DEF Ordered, SentBefore
    <2>2. ASSUME NEW g \in events', NEW f \in events', g.packet = p, f.packet = r
          PROVE  \/ Stage(p, g.queue) > Stage(r, f.queue)
                 \/ Stage(p, g.queue) = Stage(r, f.queue) /\ Before(g, f)
      BY <1>4, <2>1, <2>2 DEF Ahead
    <2>3. ASSUME NEW g \in events', NEW q \in Queues, NEW j \in Nat,
                 g.packet = p, InQueue(r, q, j)'
          PROVE  Stage(p, g.queue) > Level[q]
      <3>1. g \in events
        BY <1>4, <2>1, <2>3
      <3>2. CASE InQueue(r, q, j)
        BY <2>1, <2>3, <3>1, <3>2 DEF Ahead
      <3>3. CASE r = x /\ q = a
        <4>1. \/ Stage(p, g.queue) > Stage(r, e.queue)
              \/ Stage(p, g.queue) = Stage(r, e.queue) /\ Before(g, e)
          BY <1>0, <2>1, <2>3, <3>1, <3>3 DEF Ahead
        <4>2. ~Before(g, e)
          BY <1>1, <3>1 DEF Top
        <4> QED
          BY <1>0, <1>1, <3>3, <4>1, <4>2
      <3> QED
        BY <1>5, <2>3, <3>2, <3>3
    <2>4. ASSUME NEW f \in events', NEW q \in Queues, NEW i \in Nat,
                 f.packet = r, InQueue(p, q, i)'
          PROVE  Level[q] >= Stage(r, f.queue)
      <3>1. f \in events
        BY <1>4, <2>1, <2>4
      <3>2. CASE InQueue(p, q, i)
        BY <2>1, <2>4, <3>1, <3>2 DEF Ahead
      <3>3. CASE p = x /\ q = a
        <4>1. \/ Stage(p, e.queue) > Stage(r, f.queue)
              \/ Stage(p, e.queue) = Stage(r, f.queue)
          BY <1>0, <2>1, <2>4, <3>1, <3>3 DEF Ahead
        <4>2. Stage(r, f.queue) \in Int /\ Stage(p, e.queue) \in Int
          <5>1. e.packet # None /\ f.packet # None
            BY <1>0, <1>1, <2>1, <2>4
          <5> QED
            BY <1>0, <1>1, <2>4, <3>1, <3>3, <5>1, StageFacts, ConstantTypes
        <4> QED
          BY <1>0, <1>1, <3>3, <4>1, <4>2
      <3> QED
        BY <1>5, <2>4, <3>2, <3>3
    <2>5. ASSUME NEW q \in Queues, NEW b \in Queues, NEW i \in Nat, NEW j \in Nat,
                 InQueue(p, q, i)', InQueue(r, b, j)'
          PROVE  Level[q] > Level[b] \/ (q = b /\ i < j)
      <3>1. CASE InQueue(p, q, i) /\ InQueue(r, b, j)
        BY <2>1, <3>1 DEF Ahead
      <3>2. CASE p = x /\ q = a /\ InQueue(r, b, j)
        <4>1. Stage(p, e.queue) > Level[b]
          BY <1>0, <2>1, <3>2 DEF Ahead
        <4> QED
          BY <1>0, <1>1, <3>2, <4>1
      <3>3. CASE InQueue(p, q, i) /\ r = x /\ b = a /\ j = Len(packets[a]) + 1
        <4>1. Level[q] >= Stage(r, e.queue) /\ Stage(r, e.queue) = Level[a]
          BY <1>0, <1>1, <2>1, <3>3 DEF Ahead
        <4>2. Passes(p, q) /\ Level[q] \in Int
          BY <1>1, <3>3, QueueFacts
        <4>3. Level[a] \in Int
          BY <1>1 DEF Passes
        <4>4. Level[q] = Level[a] => q = a
          BY <1>1, <2>1, <3>3, <4>2, SameLevel
        <4>5. q = a => i < Len(packets[a]) + 1
          <5>1. Len(packets[a]) \in Nat
            BY <1>1 DEF TypeOK
          <5> QED
            BY <3>3, <5>1 DEF InQueue
        <4> QED
          BY <3>3, <4>1, <4>2, <4>3, <4>4, <4>5
      <3> QED
        BY <1>5, <2>1, <2>5, <3>1, <3>2, <3>3
    <2> QED
      BY <2>2, <2>3, <2>4, <2>5 DEF Ahead
  <1>11. Pace'
    <2> SUFFICES ASSUME NEW g \in events', NEW q \in Queues, g.packet # None,
                        Passes(g.packet, q), Stage(g.packet, g.queue) = Level[q] + 1
                 PROVE  NotBefore(q, g.time - Prop)'
      BY DEF Pace, Passes, Stage
    <2>1. g \in events /\ NotBefore(q, g.time - Prop)
      BY <1>1, <1>4 DEF Pace
    <2>2. g.time - Prop \in Int
      BY <1>1, <2>1, EventKinds, ConstantTypes
    <2>3. \A h \in w : h.time \in Nat /\ h.time >= e.time
      BY <1>1, <1>3
    <2> QED
      BY <1>1, <1>2, <2>1, <2>2, <2>3, NotBeforeKept
  <1>12. PushOrderKept'
    BY <1>1, <1>2 DEF PushOrderKept, SentBefore
  <1> QED
    BY <1>7, <1>8, <1>9, <1>10, <1>11, <1>12 DEF FifoInv

\* A packet that leaves its queue stays ahead of those behind it.
LEMMA FifoTransmit ==
  ASSUME FifoInv, NEW e \in events, Transmit(e) PROVE FifoInv'
  <1>0. PICK a, x, w, o :
          /\ a = e.queue /\ x = Front(a)
          /\ w = Event("QUEUE_PROCESSING", e.time + Hdr, None, a)
          /\ o = Onward(x, a, e.time)
    OBVIOUS
  <1>1. /\ TypeOK /\ OnWay /\ BusyQueuesAwake /\ OnePlace /\ Somewhere /\ Ordered
        /\ Pace /\ PushOrderKept
        /\ e.type = "QUEUE_PROCESSING" /\ a \in Queues /\ e.time \in Nat
        /\ e.packet = None /\ packets[a] # <<>> /\ Top(e, "QUEUE_PROCESSING")
    BY <1>0, EventKinds DEF FifoInv, WakeInv, Transmit, Top
  <1>2. /\ packets' = [packets EXCEPT ![a] = Tail(@)]
        /\ events' = (events \ {e}) \union {w, o}
        /\ UNCHANGED <<load, busy, arrived, failed>>
    BY <1>0 DEF Transmit
  <1>3. /\ x \in Packet /\ x # None /\ InQueue(x, a, 1) /\ x \in load /\ Passes(x, a)
        /\ Level[a] \in 1 .. Len(Way[x]) /\ Len(Way[x]) \in Nat
        /\ Stage(x, NextHop(x, a)) = Level[a] + 1
    <2>1. x \in Packet /\ InQueue(x, a, 1)
      BY <1>0, <1>1, <1>2, TransmitFacts
    <2> QED
      BY <1>1, <2>1, QueueFacts, ConstantTypes
  <1>4. /\ w.packet = None /\ w.time = e.time + Hdr /\ w.queue = a
        /\ w.type = "QUEUE_PROCESSING"
        /\ o.packet = x /\ o.queue = NextHop(x, a) /\ o.time = e.time + Hdr + Prop
        /\ Stage(x, o.queue) = Level[a] + 1
    BY <1>0, <1>3 DEF Event, Onward
  <1>5. \A q \in Queues, i \in Nat : InQueue(x, q, i) => q = a /\ i = 1
    BY <1>1, <1>3 DEF OnePlace
  <1>6. \A g \in events : g.packet # x
    BY <1>1, <1>3 DEF OnePlace
  <1>7. \A g \in events' : g.packet # None => g = o \/ (g \in events /\ g.packet # x)
    BY <1>1, <1>2, <1>4, <1>6
  <1>8. ASSUME NEW p \in Packet, NEW q \in Queues, NEW i \in Nat
        PROVE  InQueue(p, q, i)' <=>
                 IF q = a THEN i >= 1 /\ InQueue(p, q, i + 1) ELSE InQueue(p, q, i)
    BY <1>1, <1>2, TransmitFacts
  <1>9. \A q \in Queues, i \in Nat : ~InQueue(x, q, i)'
    <2> SUFFICES ASSUME NEW q \in Queues, NEW i \in Nat, InQueue(x, q, i)' PROVE FALSE
      OBVIOUS
    <2>1. IF q = a THEN i >= 1 /\ InQueue(x, q, i + 1) ELSE InQueue(x, q, i)
      BY <1>3, <1>8
    <2> QED
      BY <1>5, <2>1
  <1>10. WakeInv'
    BY WakeTransmit DEF FifoInv
  <1>11. OnePlace'
    <2>1. ASSUME NEW g \in events', NEW f \in events', g.packet = f.packet, g.packet # None
          PROVE  g = f
      BY <1>1, <1>4, <1>7, <2>1 DEF OnePlace
    <2>2. ASSUME NEW g \in events', NEW q \in Queues, NEW i \in Nat, g.packet # None,
                 InQueue(g.packet, q, i)'
          PROVE  FALSE
      <3>1. g # o /\ g \in events
        BY <1>4, <1>7, <1>9, <2>2
      <3>2. g.packet \in Packet
        BY <1>1, <2>2, <3>1, StageFacts
      <3>3. \E j \in Nat : InQueue(g.packet, q, j)
        <4>1. IF q = a THEN i >= 1 /\ InQueue(g.packet, q, i + 1) ELSE InQueue(g.packet, q, i)
          BY <1>8, <2>2, <3>2
        <4> QED
          BY <4>1
      <3> QED
        BY <1>1, <2>2, <3>1, <3>3 DEF OnePlace
    <2>3. ASSUME NEW p \in Packet, NEW q \in Queues, NEW r \in Queues,
                 NEW i \in Nat, NEW j \in Nat, InQueue(p, q, i)', InQueue(p, r, j)'
          PROVE  q = r /\ i = j
      <3>1. /\ IF q = a THEN i >= 1 /\ InQueue(p, q, i + 1) ELSE InQueue(p, q, i)
            /\ IF r = a THEN j >= 1 /\ InQueue(p, r, j + 1) ELSE InQueue(p, r, j)
        BY <1>8, <2>3
      <3>2. q = r
        BY <1>1, <3>1 DEF OnePlace
      <3>3. CASE q = a
        <4>1. i + 1 = j + 1
          BY <1>1, <3>1, <3>2, <3>3 DEF OnePlace
        <4> QED
          BY <3>2, <4>1
      <3>4. CASE q # a
        BY <1>1, <3>1, <3>2, <3>4 DEF OnePlace
      <3> QED
        BY <3>3, <3>4
    <2> QED
      BY <2>1, <2>2, <2>3 DEF OnePlace
  <1>12. Somewhere'
    <2> SUFFICES ASSUME failed = "no", NEW p \in load
                 PROVE  \/ HasArrived(p)' \/ \E g \in events' : g.packet = p
                        \/ \E q \in Queues, i \in Nat : InQueue(p, q, i)'
      BY <1>2 DEF Somewhere
    <2>1. p \in Packet /\ p # None
      BY <1>1, ConstantTypes DEF TypeOK
    <2>2. CASE p = x
      BY <1>2, <1>4, <2>2
    <2>3. CASE HasArrived(p)
      BY <1>2, <2>3 DEF HasArrived
    <2>4. CASE \E g \in events : g.packet = p
      BY <1>1, <1>2, <2>1, <2>4
    <2>5. ASSUME p # x, NEW q \in Queues, NEW i \in Nat, InQueue(p, q, i)
          PROVE  \E j \in Nat : InQueue(p, q, j)'
      <3>1. CASE q # a
        BY <1>8, <2>1, <2>5, <3>1
      <3>2. CASE q = a
        <4>1. i >= 2
          <5>1. i >= 1 /\ i # 1
            BY <1>3, <2>5, <3>2 DEF InQueue
          <5> QED
            BY <5>1
        <4>2. i - 1 \in Nat /\ i - 1 >= 1 /\ (i - 1) + 1 = i
          BY <4>1
        <4>3. InQueue(p, q, i - 1)'
          BY <1>8, <2>1, <2>5, <3>2, <4>2
        <4> QED
          BY <4>2, <4>3
      <3> QED
        BY <3>1, <3>2
    <2> QED
      BY <1>1, <2>2, <2>3, <2>4, <2>5 DEF Somewhere
  <1>13. Ordered'
    <2> SUFFICES ASSUME NEW p \in Packet, NEW r \in Packet, SentBefore(p, r)
                 PROVE  Ahead(p, r)'
      BY DEF Ordered, SentBefore
    <2>1. Ahead(p, r) /\ Way[p] = Way[r] /\ p # r /\ p # None /\ r # None
      BY <1>1, ConstantTypes DEF Ordered, SentBefore
    <2>2. ASSUME NEW g \in events', NEW f \in events', g.packet = p, f.packet = r
          PROVE  \/ Stage(p, g.queue) > Stage(r, f.queue)
                 \/ Stage(p, g.queue) = Stage(r, f.queue) /\ Before(g, f)
      <3>1. CASE g \in events /\ f \in events
        BY <2>1, <2>2, <3>1 DEF Ahead
      <3>2. CASE g = o /\ f \in events /\ p = x
        <4>1. Level[a] >= Stage(r, f.queue)
          BY <1>1, <1>3, <2>1, <2>2, <3>2 DEF Ahead
        <4>2. Stage(r, f.queue) \in Int
          BY <1>1, <2>1, <2>2, <3>2, StageFacts, ConstantTypes
        <4> QED
          BY <1>3, <1>4, <3>2, <4>1, <4>2
      <3>3. CASE f = o /\ g \in events /\ r = x
        <4>1. Stage(p, g.queue) > Level[a]
          BY <1>1, <1>3, <2>1, <2>2, <3>3 DEF Ahead
        <4>2. Stage(p, g.queue) \in Int /\ g.time \in Int
          BY <1>1, <2>1, <2>2, <3>3, StageFacts, ConstantTypes, EventKinds
        <4>3. CASE Stage(p, g.queue) > Level[a] + 1
          BY <1>4, <3>3, <4>3
        <4>4. CASE Stage(p, g.queue) = Level[a] + 1
          <5>1. NotBefore(a, g.time - Prop)
            <6>1. Passes(p, a)
              BY <1>3, <2>1, <3>3 DEF Passes
            <6> QED
              BY <1>1, <2>1, <2>2, <3>3, <4>4, <6>1 DEF Pace
          <5>2. Processing(a) = {e}
            BY <1>0, <1>1 DEF BusyQueuesAwake, Processing
          <5>3. e.time >= g.time - Prop
            BY <5>1, <5>2 DEF NotBefore
          <5>4. g.time < o.time
            BY <1>1, <1>4, <4>2, <5>3, ConstantTypes
          <5> QED
            BY <1>4, <3>3, <4>4, <5>4 DEF Before
        <4> QED
          BY <1>3, <4>1, <4>2, <4>3, <4>4
      <3> QED
        BY <1>4, <1>7, <2>1, <2>2, <3>1, <3>2, <3>3
    <2>3. ASSUME NEW g \in events', NEW q \in Queues, NEW j \in Nat,
                 g.packet = p, InQueue(r, q, j)'
          PROVE  Stage(p, g.queue) > Level[q]
      <3>1. PICK k \in Nat : InQueue(r, q, k)
        <4>1. IF q = a THEN j >= 1 /\ InQueue(r, q, j + 1) ELSE InQueue(r, q, j)
          BY <1>8, <2>3
        <4> QED
          BY <4>1
      <3>2. CASE g \in events
        BY <2>1, <2>3, <3>1, <3>2 DEF Ahead
      <3>3. CASE g = o /\ p = x
        <4>1. Level[a] > Level[q] \/ q = a
          BY <1>1, <1>3, <2>1, <3>1, <3>3 DEF Ahead
        <4>2. Level[q] \in Int
          BY <1>1, <3>1, QueueFacts
        <4> QED
          BY <1>3, <1>4, <3>3, <4>1, <4>2
      <3> QED
        BY <1>4, <1>7, <2>1, <2>3, <3>2, <3>3
    <2>4. ASSUME NEW f \in events', NEW q \in Queues, NEW i \in Nat,
                 f.packet = r, InQueue(p, q, i)'
          PROVE  Level[q] >= Stage(r, f.queue)
      <3>1. PICK k \in Nat : InQueue(p, q, k)
        <4>1. IF q = a THEN i >= 1 /\ InQueue(p, q, i + 1) ELSE InQueue(p, q, i)
          BY <1>8, <2>4
        <4> QED
          BY <4>1
      <3>2. CASE f \in events
        BY <2>1, <2>4, <3>1, <3>2 DEF Ahead
      <3>3. CASE f = o /\ r = x
        <4>1. Level[q] > Level[a] \/ (q = a /\ k < 1)
          BY <1>1, <1>3, <2>1, <3>1, <3>3 DEF Ahead
        <4>2. Level[q] \in Int /\ k >= 1
          BY <1>1, <3>1, QueueFacts
        <4> QED
          BY <1>3, <1>4, <3>3, <4>1, <4>2
      <3> QED
        BY <1>4, <1>7, <2>1, <2>4, <3>2, <3>3
    <2>5. ASSUME NEW q \in Queues, NEW b \in Queues, NEW i \in Nat, NEW j \in Nat,
                 InQueue(p, q, i)', InQueue(r, b, j)'
          PROVE  Level[q] > Level[b] \/ (q = b /\ i < j)
      <3>1. /\ IF q = a THEN i >= 1 /\ InQueue(p, q, i + 1) ELSE InQueue(p, q, i)
            /\ IF b = a THEN j >= 1 /\ InQueue(r, b, j + 1) ELSE InQueue(r, b, j)
        BY <1>8, <2>5
      <3>2. PICK k \in Nat, n \in Nat :
              /\ InQueue(p, q, k) /\ InQueue(r, b, n)
              /\ k = (IF q = a THEN i + 1 ELSE i) /\ n = (IF b = a THEN j + 1 ELSE j)
        BY <3>1
      <3>3. Level[q] > Level[b] \/ (q = b /\ k < n)
        BY <2>1, <3>2 DEF Ahead
      <3> QED
        BY <3>2, <3>3
    <2> QED
      BY <2>2, <2>3, <2>4, <2>5 DEF Ahead
  <1>14. Pace'
    <2> SUFFICES ASSUME NEW g \in events', NEW q \in Queues, g.packet # None,
                        Passes(g.packet, q), Stage(g.packet, g.queue) = Level[q] + 1
                 PROVE  NotBefore(q, g.time - Prop)'
      BY DEF Pace, Passes, Stage
    <2>1. CASE g = o
      <3>1. q = a
        <4>1. Level[q] = Level[a]
          BY <1>3, <1>4, <2>1 DEF Passes
        <4> QED
          BY <1>3, <1>4, <2>1, <4>1, SameLevel
      <3>2. w \in Processing(q)'
        BY <1>2, <1>4, <3>1 DEF Processing
      <3>3. w.time >= g.time - Prop
        BY <1>1, <1>4, <2>1, ConstantTypes
      <3> QED
        BY <3>2, <3>3 DEF NotBefore
    <2>2. CASE g \in events
      <3>1. PICK t : t = g.time - Prop
        OBVIOUS
      <3>2. NotBefore(q, t) /\ t \in Int
        BY <1>1, <2>2, <3>1, EventKinds, ConstantTypes DEF Pace
      <3>3. PICK new : new = {w, o}
        OBVIOUS
      <3>4. \A h \in new : h.time \in Nat /\ h.time >= e.time
        BY <1>1, <1>4, <3>3, ConstantTypes
      <3>5. NotBefore(q, t)'
        BY <1>1, <1>2, <3>2, <3>3, <3>4, NotBeforeKept
      <3> QED
        BY <3>1, <3>5
    <2> QED
      BY <1>7, <2>1, <2>2
  <1>15. PushOrderKept'
    BY <1>1, <1>2 DEF PushOrderKept, SentBefore
  <1> QED
    BY <1>10, <1>11, <1>12, <1>13, <1>14, <1>15 DEF FifoInv

\* Going idle moves no packet.
LEMMA FifoIdle ==
  ASSUME FifoInv, NEW e \in events, GoIdle(e) PROVE FifoInv'
  <1>1. /\ TypeOK /\ OnWay /\ OnePlace /\ Somewhere /\ Ordered /\ Pace /\ PushOrderKept
        /\ Top(e, "QUEUE_PROCESSING") /\ e.packet = None
    BY EventKinds DEF FifoInv, WakeInv, GoIdle, Top
  <1>2. events' = events \ {e} /\ UNCHANGED <<load, packets, arrived, failed>>
    BY DEF GoIdle
  <1>3. \A p, q, i : InQueue(p, q, i)' <=> InQueue(p, q, i)
    BY <1>2 DEF InQueue
  <1>4. WakeInv'
    BY WakeIdle DEF FifoInv
  <1>5. OnePlace'
    BY <1>1, <1>2, <1>3 DEF OnePlace
  <1>6. Somewhere'
    <2> SUFFICES ASSUME failed = "no", NEW p \in load
                 PROVE  \/ HasArrived(p)' \/ \E g \in events' : g.packet = p
                        \/ \E q \in Queues, i \in Nat : InQueue(p, q, i)'
      BY <1>2 DEF Somewhere
    <2>1. p # None
      BY <1>1, ConstantTypes DEF TypeOK
    <2>2. HasArrived(p)' <=> HasArrived(p)
      BY <1>2 DEF HasArrived
    <2> QED
      BY <1>1, <1>2, <1>3, <2>1, <2>2 DEF Somewhere
  <1>7. Ordered'
    BY <1>1, <1>2, <1>3 DEF Ordered, Ahead, SentBefore
  <1>8. Pace'
    <2> SUFFICES ASSUME NEW g \in events', NEW q \in Queues, g.packet # None,
                        Passes(g.packet, q), Stage(g.packet, g.queue) = Level[q] + 1
                 PROVE  NotBefore(q, g.time - Prop)'
      BY DEF Pace, Passes, Stage
    <2>1. PICK t : t = g.time - Prop
      OBVIOUS
    <2>2. NotBefore(q, t) /\ t \in Int
      BY <1>1, <1>2, <2>1, EventKinds, ConstantTypes DEF Pace
    <2>3. PICK new : new = {}
      OBVIOUS
    <2>4. /\ events' = (events \ {e}) \union new
          /\ \A h \in new : h.time \in Nat /\ h.time >= e.time
      BY <1>2, <2>3
    <2>5. NotBefore(q, t)'
      BY <1>1, <2>2, <2>4, NotBeforeKept
    <2> QED
      BY <2>1, <2>5
  <1>9. PushOrderKept'
    BY <1>1, <1>2 DEF PushOrderKept, SentBefore
  <1> QED
    BY <1>4, <1>5, <1>6, <1>7, <1>8, <1>9 DEF FifoInv

\* A packet arrives when those that were sent before it have.
LEMMA FifoArrival ==
  ASSUME FifoInv, NEW e \in events, PacketArrival(e) PROVE FifoInv'
  <1>0. PICK x : x = e.packet
    OBVIOUS
  <1>1. /\ TypeOK /\ OnWay /\ OnePlace /\ Somewhere /\ Ordered /\ Pace /\ PushOrderKept
        /\ Top(e, "PACKET_ARRIVAL") /\ x \in Packet /\ x # None /\ e.queue = None
        /\ failed = "no" /\ arrived \in Seq([packet : Packet, time : Nat])
    <2>1. e.type = "PACKET_ARRIVAL" /\ TypeOK
      BY DEF FifoInv, WakeInv, PacketArrival, Top
    <2> QED
      BY <1>0, <2>1, EventKinds, ConstantTypes
      DEF FifoInv, WakeInv, PacketArrival, Top, TypeOK
  <1>2. /\ arrived' = Append(arrived, [packet |-> x, time |-> e.time])
        /\ events' = events \ {e} /\ UNCHANGED <<load, packets, failed>>
    BY <1>0 DEF PacketArrival
  <1>3. \A p, q, i : InQueue(p, q, i)' <=> InQueue(p, q, i)
    BY <1>2 DEF InQueue
  <1>4. /\ Len(arrived) \in Nat /\ Len(arrived') = Len(arrived) + 1
        /\ \A i \in 1 .. Len(arrived) : arrived'[i] = arrived[i]
        /\ arrived'[Len(arrived) + 1].packet = x
    BY <1>1, <1>2
  <1>5. \A p : HasArrived(p)' <=> HasArrived(p) \/ p = x
    <2>1. ASSUME NEW p PROVE HasArrived(p) => HasArrived(p)'
      BY <1>4 DEF HasArrived
    <2>2. HasArrived(x)'
      BY <1>4 DEF HasArrived
    <2>3. ASSUME NEW p, HasArrived(p)', p # x PROVE HasArrived(p)
      <3>1. PICK i \in 1 .. Len(arrived') : arrived'[i].packet = p
        BY <2>3 DEF HasArrived
      <3>2. i \in 1 .. Len(arrived) \/ i = Len(arrived) + 1
        BY <1>4
      <3> QED
        BY <1>4, <2>3, <3>1, <3>2 DEF HasArrived
    <2> QED
      BY <2>1, <2>2, <2>3
  <1>6. WakeInv'
    BY WakeArrival DEF FifoInv
  <1>7. OnePlace'
    BY <1>1, <1>2, <1>3 DEF OnePlace
  <1>8. Somewhere'
    <2> SUFFICES ASSUME NEW p \in load
                 PROVE  \/ HasArrived(p)' \/ \E g \in events' : g.packet = p
                        \/ \E q \in Queues, i \in Nat : InQueue(p, q, i)'
      BY <1>2 DEF Somewhere
    <2>1. CASE p = x
      BY <1>5, <2>1
    <2>2. CASE p # x
      <3>1. \A g \in events : g.packet = p => g \in events'
        BY <1>0, <1>2, <2>2
      <3> QED
        BY <1>1, <1>3, <1>5, <3>1 DEF Somewhere
    <2> QED
      BY <2>1, <2>2
  <1>9. Ordered'
    BY SMTT(30), <1>1, <1>2, <1>3 DEF Ordered, Ahead, SentBefore
  <1>10. Pace'
    <2> SUFFICES ASSUME NEW g \in events', NEW q \in Queues, g.packet # None,
                        Passes(g.packet, q), Stage(g.packet, g.queue) = Level[q] + 1
                 PROVE  NotBefore(q, g.time - Prop)'
      BY DEF Pace, Passes, Stage
    <2>1. PICK t : t = g.time - Prop
      OBVIOUS
    <2>2. NotBefore(q, t) /\ t \in Int
      BY <1>1, <1>2, <2>1, EventKinds, ConstantTypes DEF Pace
    <2>3. PICK new : new = {}
      OBVIOUS
    <2>4. /\ events' = (events \ {e}) \union new
          /\ \A h \in new : h.time \in Nat /\ h.time >= e.time
      BY <1>2, <2>3
    <2>5. NotBefore(q, t)'
      BY <1>1, <2>2, <2>4, NotBeforeKept
    <2> QED
      BY <2>1, <2>5
  <1>11. PushOrderKept'
    <2> SUFFICES ASSUME NEW i \in 1 .. Len(arrived'), NEW p \in load,
                        SentBefore(p, arrived'[i].packet)
                 PROVE  \E j \in 1 .. i : arrived'[j].packet = p
      BY <1>2 DEF PushOrderKept, SentBefore
    <2>1. CASE i \in 1 .. Len(arrived)
      <3>1. PICK j \in 1 .. i : arrived[j].packet = p
        BY <1>1, <1>4, <2>1 DEF PushOrderKept
      <3>2. arrived'[j] = arrived[j]
        BY <1>4, <2>1, <3>1
      <3> QED
        BY <3>1, <3>2
    <2>2. CASE i = Len(arrived) + 1
      <3>1. SentBefore(p, x) /\ p \in Packet
        BY <1>1, <1>4, <2>2 DEF TypeOK
      <3>2. Ahead(p, x) /\ Way[p] = Way[x] /\ Len(Way[x]) \in Nat
            /\ Stage(x, e.queue) = Len(Way[x]) + 1 /\ p # None
        BY <1>1, <3>1, ConstantTypes DEF Ordered, SentBefore, Stage
      <3>3. ~ \E g \in events : g.packet = p
        <4> SUFFICES ASSUME NEW g \in events, g.packet = p PROVE FALSE
          OBVIOUS
        <4>1. Stage(p, g.queue) \in 1 .. Len(Way[x]) + 1
          BY <1>1, <3>2, StageFacts
        <4>2. ~Before(g, e)
          BY <1>1 DEF Top
        <4> QED
          BY <1>0, <3>2, <4>1, <4>2 DEF Ahead
      <3>4. ~ \E q \in Queues, k \in Nat : InQueue(p, q, k)
        <4> SUFFICES ASSUME NEW q \in Queues, NEW k \in Nat, InQueue(p, q, k) PROVE FALSE
          OBVIOUS
        <4>1. Level[q] \in 1 .. Len(Way[x])
          BY <1>1, <3>1, <3>2, QueueFacts
        <4>2. Level[q] >= Stage(x, e.queue)
          BY <1>0, <3>2 DEF Ahead
        <4> QED
          BY <3>2, <4>1, <4>2
      <3>5. PICK j \in 1 .. Len(arrived) : arrived[j].packet = p
        BY <1>1, <3>3, <3>4 DEF Somewhere, HasArrived
      <3>6. j \in 1 .. i /\ arrived'[j] = arrived[j]
        BY <1>4, <2>2, <3>5
      <3> QED
        BY <3>5, <3>6
    <2> QED
      BY <1>4, <2>1, <2>2
  <1> QED
    BY <1>6, <1>7, <1>8, <1>9, <1>10, <1>11 DEF FifoInv

\* Every step keeps the order.
LEMMA FifoStep == FifoInv /\ [Next]_vars => FifoInv'
  <1> SUFFICES ASSUME FifoInv, [Next]_vars PROVE FifoInv'
    OBVIOUS
  <1>1. CASE Next
    BY <1>1, FifoQueuing, FifoTransmit, FifoIdle, FifoArrival DEF Next
  <1>2. CASE UNCHANGED vars
    <2>1. WakeInv'
      BY WakeStep DEF FifoInv
    <2>2. UNCHANGED <<load, events, packets, busy, arrived, failed>>
      BY <1>2 DEF vars
    <2>3. \A p, q, i : InQueue(p, q, i)' <=> InQueue(p, q, i)
      BY <2>2 DEF InQueue
    <2>4. \A q, t : NotBefore(q, t)' <=> NotBefore(q, t)
      BY <2>2 DEF NotBefore, Processing
    <2>5. OnePlace' /\ Somewhere'
      BY <2>2, <2>3 DEF FifoInv, OnePlace, Somewhere, HasArrived
    <2>6. Ordered' /\ Pace' /\ PushOrderKept'
      BY <2>2, <2>3, <2>4
      DEF FifoInv, Ordered, Ahead, SentBefore, Pace, Passes, Stage, PushOrderKept
    <2> QED
      BY <2>1, <2>5, <2>6 DEF FifoInv
  <1> QED
    BY <1>1, <1>2

\* In any network, two packets of one way arrive in the order they were sent in,
\* through all queues and under any other load: an IPS stays ahead of its CORE_RTS.
THEOREM WaysAreFifo == Spec => []PushOrderKept
  <1>1. FifoInv => PushOrderKept
    BY DEF FifoInv
  <1> QED
    BY <1>1, FifoInit, FifoStep, PTL DEF Spec

(***************************************************************************)
(* Data that is spaced at its source finds its queues empty and is on time.*)
(***************************************************************************)

\* When packet p is due at its n-th queue, its arrival being the one after the last.
Due(p, n) == SendTime[p] + (n - 1) * (Hdr + Prop)

\* It is t or later.
Reached(t) == \A e \in events : e.time >= t

\* Packet p has left queue q.
Beyond(p, q) ==
  /\ \A e \in events : e.packet = p => Stage(p, e.queue) > Level[q]
  /\ \A a \in Queues, i \in Nat : InQueue(p, a, i) => Level[a] > Level[q]

\* A data packet on a link is on time.
Punctual ==
  \A e \in events :
    e.packet # None /\ IsData(e.packet) => e.time = Due(e.packet, Stage(e.packet, e.queue))

\* A data packet in a queue is the only one there, and it leaves at once.
Alone ==
  \A p \in Packet, q \in ZeroBuffer, i \in Nat :
    InQueue(p, q, i) =>
      /\ i = 1 /\ Reached(Due(p, Level[q]))
      /\ \A g \in Processing(q) : g.time = Due(p, Level[q])

\* A queue that is busy and empty has sent a packet whose header is on the link.
Free ==
  \A q \in ZeroBuffer : \A g \in Processing(q) :
    packets[q] = <<>> =>
      \E p \in load : /\ Passes(p, q) /\ Beyond(p, q)
                      /\ g.time = Due(p, Level[q]) + Hdr /\ Reached(Due(p, Level[q]))

TimeInv == FifoInv /\ load \in Loads /\ Punctual /\ Alone /\ Free /\ OnTime

\* A packet is due at the next queue a header's time and the delay of the link later.
LEMMA DueFacts ==
  ASSUME NEW p \in Packet, NEW r \in Packet, NEW n \in Int
  PROVE  /\ Due(p, n) \in Int /\ Due(p, n + 1) = Due(p, n) + Hdr + Prop
         /\ Due(p, 1) = SendTime[p]
         /\ SendTime[p] >= SendTime[r] + Hdr => Due(p, n) >= Due(r, n) + Hdr
  <1>1. PICK h \in Int : h = Hdr + Prop
    BY ConstantTypes
  <1>2. SendTime[p] \in Int /\ SendTime[r] \in Int /\ Hdr \in Int /\ Prop \in Int
    BY ConstantTypes
  <1>3. PICK k \in Int : k = (n - 1) * h
    BY <1>1
  <1>4. (n + 1 - 1) * h = k + h
    BY <1>1, <1>3
  <1>5. (1 - 1) * h = 0
    BY <1>1
  <1>6. /\ Due(p, n) = SendTime[p] + k /\ Due(r, n) = SendTime[r] + k
        /\ Due(p, n + 1) = SendTime[p] + (k + h) /\ Due(p, 1) = SendTime[p] + 0
    BY <1>1, <1>3, <1>4, <1>5 DEF Due
  <1> QED
    BY <1>1, <1>2, <1>3, <1>6

\* The queues of a data packet are those of the data plane.
LEMMA DataWay ==
  ASSUME NEW p \in Packet, NEW q, Passes(p, q)
  PROVE  q \in Queues /\ (IsData(p) <=> q \in ZeroBuffer) /\ Level[q] \in 1 .. Len(Way[p])
  BY LinkAssumption DEF Passes

\* Two data packets are due at a queue a header's time apart.
LEMMA Apart ==
  ASSUME Spaced, load \in Loads, NEW p \in load, NEW r \in load, p # r,
         NEW q \in ZeroBuffer, Passes(p, q), Passes(r, q)
  PROVE  \/ Due(p, Level[q]) >= Due(r, Level[q]) + Hdr
         \/ Due(r, Level[q]) >= Due(p, Level[q]) + Hdr
  <1>1. p \in Packet /\ r \in Packet
    BY LinkAssumption
  <1>2. /\ Level[q] \in 1 .. Len(Way[p]) /\ Level[q] <= Len(Way[r])
        /\ Way[p][Level[q]] = Way[r][Level[q]] /\ IsData(p)
    BY <1>1, DataWay DEF Passes
  <1>3. SendTime[p] >= SendTime[r] + Hdr \/ SendTime[r] >= SendTime[p] + Hdr
    BY <1>2 DEF Spaced
  <1>4. Level[q] \in Int
    BY <1>2
  <1> QED
    BY <1>1, <1>3, <1>4, DueFacts

\* Time does not go back.
LEMMA ReachedKept ==
  ASSUME TypeOK, NEW e \in events, NEW type, Top(e, type), NEW new,
         events' = (events \ {e}) \union new,
         \A g \in new : g.time \in Nat /\ g.time >= e.time, NEW t \in Int
  PROVE  (Reached(t) => Reached(t)') /\ (t <= e.time => Reached(t)')
  <1>1. \A g \in events : g.time \in Nat /\ g.time >= e.time
    BY EventKinds, TopIsEarliest
  <1> QED
    BY <1>1 DEF Reached

\* At the start every packet is on time.
LEMMA TimeInit == Init => TimeInv
  <1> SUFFICES ASSUME Init PROVE TimeInv
    OBVIOUS
  <1>1. FifoInv /\ TypeOK /\ load \in Loads
    BY FifoInit DEF Init, FifoInv, WakeInv
  <1>2. load \subseteq Packet
    BY LinkAssumption DEF Init
  <1>3. Punctual
    <2> SUFFICES ASSUME NEW e \in events
                 PROVE  e.time = Due(e.packet, Stage(e.packet, e.queue))
      BY DEF Punctual
    <2>1. PICK p \in load : e = Event("PACKET_QUEUING", SendTime[p], p, First(p))
      BY DEF Init
    <2>2. e.packet = p /\ e.time = SendTime[p] /\ e.queue = First(p) /\ p \in Packet
      BY <1>2, <2>1 DEF Event
    <2>3. Stage(p, First(p)) = 1
      BY <2>2, ConstantTypes DEF Stage
    <2> QED
      BY <2>2, <2>3, DueFacts
  <1>4. Alone
    BY LinkAssumption DEF Init, Alone, InQueue
  <1>5. Free
    <2>1. \A q : Processing(q) = {}
      BY DEF Init, Processing, Event
    <2> QED
      BY <2>1 DEF Free
  <1>6. OnTime
    BY DEF Init, OnTime, NoCollision
  <1> QED
    BY <1>1, <1>3, <1>4, <1>5, <1>6 DEF TimeInv

\* A data packet finds its queue empty, and is sent on at once.
LEMMA TimeQueuing ==
  ASSUME Spaced, TimeInv, NEW e \in events, PacketQueuing(e) PROVE TimeInv'
  <1>0. PICK a, x, w : a = e.queue /\ x = e.packet /\ w = Wake(e.time, a)
    OBVIOUS
  <1>1. /\ TypeOK /\ OnWay /\ BusyQueuesAwake /\ OnePlace
        /\ load \in Loads /\ Punctual /\ Alone /\ Free /\ OnTime
        /\ Top(e, "PACKET_QUEUING") /\ failed = "no" /\ Enque(x, a)
        /\ a \in Queues /\ x \in Packet /\ e.time \in Nat /\ x # None /\ a # None
        /\ Passes(x, a) /\ x \in load /\ Stage(x, a) = Level[a]
    <2>1. TypeOK /\ OnWay /\ Top(e, "PACKET_QUEUING") /\ e.type = "PACKET_QUEUING"
      BY DEF TimeInv, FifoInv, WakeInv, PacketQueuing, Top
    <2>2. a \in Queues /\ x \in Packet /\ e.time \in Nat /\ x # None /\ a # None
      BY <1>0, <2>1, EventKinds, ConstantTypes
    <2> QED
      BY <1>0, <2>1, <2>2, StageFacts DEF TimeInv, FifoInv, WakeInv, PacketQueuing, Top
  <1>2. events' = (events \ {e}) \union w /\ UNCHANGED <<load, arrived>>
    BY <1>0 DEF PacketQueuing
  <1>3. \A g \in w : /\ g.packet = None /\ g.time = e.time /\ g.time \in Nat
                     /\ g.time >= e.time /\ g.type = "QUEUE_PROCESSING" /\ g.queue = a
    BY <1>0, <1>1 DEF Wake, Event
  <1>4. \A g \in events' : g.packet # None => g \in events /\ g.packet # x
    BY <1>0, <1>1, <1>2, <1>3 DEF OnePlace
  <1>5. \A p \in Packet, q \in Queues, i \in Nat :
          InQueue(p, q, i)' =>
            \/ InQueue(p, q, i)
            \/ p = x /\ q = a /\ i = Len(packets[a]) + 1 /\ Len(packets[a]) \in Nat
    BY <1>1, EnqueFacts DEF InQueue
  <1>6. \A t \in Int : (Reached(t) => Reached(t)') /\ (t <= e.time => Reached(t)')
    BY <1>1, <1>2, <1>3, ReachedKept
  <1>7. \A q \in Queues : Level[q] \in Int => \A p \in Packet : Due(p, Level[q]) \in Int
    BY DueFacts
  <1>8. \A q \in Queues : q # a => Processing(q)' = Processing(q)
    BY <1>1, <1>2, <1>3 DEF Processing, Top
  <1>9. a \in ZeroBuffer =>
          /\ IsData(x) /\ e.time = Due(x, Level[a]) /\ Level[a] \in Int
          /\ Due(x, Level[a]) \in Int /\ Reached(Due(x, Level[a]))
    <2>1. (a \in ZeroBuffer => IsData(x)) /\ Level[a] \in Int
      BY <1>1, DataWay
    <2>2. Due(x, Level[a]) \in Int
      BY <1>1, <2>1, DueFacts
    <2>3. \A g \in events : g.time \in Nat /\ g.time >= e.time
      BY <1>1, EventKinds, TopIsEarliest
    <2> QED
      BY <1>0, <1>1, <2>1, <2>2, <2>3 DEF Punctual, Reached
  <1>10. a \in ZeroBuffer => packets[a] = <<>>
    <2> SUFFICES ASSUME a \in ZeroBuffer, packets[a] # <<>> PROVE FALSE
      OBVIOUS
    <2>1. packets[a] \in Seq(Packet)
      BY <1>1 DEF TypeOK
    <2>2. PICK p \in Packet : InQueue(p, a, 1)
      BY <2>1 DEF InQueue
    <2>3. /\ p \in load /\ Passes(p, a) /\ p # x
          /\ Reached(Due(p, Level[a]))
          /\ \A g \in Processing(a) : g.time = Due(p, Level[a])
      BY <1>0, <1>1, <2>2 DEF OnWay, OnePlace, Alone
    <2>4. PICK g \in events : g \in Processing(a)
      BY <1>1, <2>1 DEF BusyQueuesAwake
    <2>5. e.time <= g.time /\ g.time = Due(p, Level[a]) /\ Due(p, Level[a]) <= e.time
      BY <1>1, <2>3, <2>4, TopIsEarliest DEF Reached
    <2>6. Due(p, Level[a]) \in Int /\ Hdr \in Nat /\ Hdr >= 1
      BY <1>9, <2>2, DueFacts, ConstantTypes
    <2> QED
      BY <1>1, <1>9, <2>3, <2>5, <2>6, Apart
  <1>11. a \in ZeroBuffer => \A g \in Processing(a)' : g.time = e.time
    <2> SUFFICES ASSUME a \in ZeroBuffer, NEW g \in Processing(a)', g \notin w
                 PROVE  g.time = e.time
      BY <1>3
    <2>1. g \in Processing(a) /\ g \in events /\ g.time \in Nat
      BY <1>1, <1>2, EventKinds DEF Processing
    <2>2. PICK p \in load : /\ Passes(p, a) /\ Beyond(p, a)
                            /\ g.time = Due(p, Level[a]) + Hdr /\ Reached(Due(p, Level[a]))
      BY <1>1, <1>10, <2>1 DEF Free
    <2>3. p # x /\ p \in Packet
      <3>1. p # x
        BY <1>0, <1>1, <1>9, <2>2 DEF Beyond
      <3> QED
        BY <1>1, <2>2, <3>1 DEF TypeOK
    <2>4. e.time <= g.time /\ Due(p, Level[a]) <= e.time
      BY <1>1, <2>1, <2>2, TopIsEarliest DEF Reached
    <2>5. Due(p, Level[a]) \in Int /\ Hdr \in Nat /\ Hdr >= 1
      BY <1>9, <2>3, DueFacts, ConstantTypes
    <2> QED
      BY <1>1, <1>9, <2>1, <2>2, <2>3, <2>4, <2>5, Apart
  <1>12. FifoInv'
    BY FifoQueuing DEF TimeInv
  <1>13. load' \in Loads
    BY <1>1, <1>2
  <1>14. Punctual'
    BY <1>1, <1>4 DEF Punctual
  <1>15. Alone'
    <2> SUFFICES ASSUME NEW p \in Packet, NEW q \in ZeroBuffer, NEW i \in Nat,
                        InQueue(p, q, i)'
                 PROVE  /\ i = 1 /\ Reached(Due(p, Level[q]))'
                        /\ \A g \in Processing(q)' : g.time = Due(p, Level[q])
      BY DEF Alone
    <2>1. q \in Queues
      BY LinkAssumption
    <2>2. CASE q = a
      <3>1. ~InQueue(p, a, i)
        BY <1>10, <2>2 DEF InQueue
      <3>2. p = x /\ i = 1
        BY <1>5, <1>10, <2>1, <2>2, <3>1
      <3> QED
        BY <1>6, <1>9, <1>11, <2>2, <3>2
    <2>3. CASE q # a
      <3>1. InQueue(p, q, i)
        BY <1>5, <2>1, <2>3
      <3>2. Level[q] \in Int
        BY <1>1, <2>1, <3>1, QueueFacts
      <3> QED
        BY <1>1, <1>6, <1>7, <1>8, <2>1, <2>3, <3>1, <3>2 DEF Alone
    <2> QED
      BY <2>2, <2>3
  <1>16. Free'
    <2> SUFFICES ASSUME NEW q \in ZeroBuffer, NEW g \in Processing(q)', packets'[q] = <<>>
                 PROVE  \E p \in load : /\ Passes(p, q) /\ Beyond(p, q)'
                                        /\ g.time = Due(p, Level[q]) + Hdr
                                        /\ Reached(Due(p, Level[q]))'
      BY <1>2 DEF Free, Passes
    <2>1. q \in Queues
      BY LinkAssumption
    <2>2. q # a
      <3>1. CASE ~Admits(a)
        BY <1>10, <3>1 DEF Admits
      <3>2. CASE Admits(a)
        BY <1>1, <3>2, EnqueFacts DEF InQueue
      <3> QED
        BY <3>1, <3>2
    <2>3. packets[q] = <<>> /\ g \in Processing(q)
      BY <1>1, <1>8, <2>1, <2>2, EnqueFacts
    <2>4. PICK p \in load : /\ Passes(p, q) /\ Beyond(p, q)
                            /\ g.time = Due(p, Level[q]) + Hdr /\ Reached(Due(p, Level[q]))
      BY <1>1, <2>3 DEF Free
    <2>5. p \in Packet /\ p # None /\ Due(p, Level[q]) \in Int
      BY <1>1, <1>7, <2>1, <2>4, DataWay, ConstantTypes DEF TypeOK
    <2>6. Beyond(p, q)'
      <3>1. ASSUME NEW f \in events', f.packet = p PROVE Stage(p, f.queue) > Level[q]
        BY <1>4, <2>4, <2>5, <3>1 DEF Beyond
      <3>2. ASSUME NEW b \in Queues, NEW i \in Nat, InQueue(p, b, i)'
            PROVE  Level[b] > Level[q]
        <4>1. CASE InQueue(p, b, i)
          BY <2>4, <4>1 DEF Beyond
        <4>2. CASE p = x /\ b = a
          BY <1>0, <1>1, <2>4, <4>2 DEF Beyond
        <4> QED
          BY <1>5, <2>5, <3>2, <4>1, <4>2
      <3> QED
        BY <3>1, <3>2 DEF Beyond, Stage
    <2> QED
      BY <1>6, <2>4, <2>5, <2>6
  <1>17. OnTime'
    <2>1. failed' # "collision"
      <3>1. CASE Admits(a)
        BY <1>1, <3>1, EnqueFacts
      <3>2. CASE ~Admits(a)
        BY <1>1, <1>10, <3>2, EnqueFacts DEF Admits, Refusal
      <3> QED
        BY <3>1, <3>2
    <2> QED
      BY <1>1, <1>2, <2>1 DEF OnTime, NoCollision
  <1> QED
    BY <1>12, <1>13, <1>14, <1>15, <1>16, <1>17 DEF TimeInv

\* A queue sends a data packet when it is due there, and is empty again.
LEMMA TimeTransmit ==
  ASSUME Spaced, TimeInv, NEW e \in events, Transmit(e) PROVE TimeInv'
  <1>0. PICK a, x, w, o :
          /\ a = e.queue /\ x = Front(a)
          /\ w = Event("QUEUE_PROCESSING", e.time + Hdr, None, a)
          /\ o = Onward(x, a, e.time)
    OBVIOUS
  <1>1. /\ TypeOK /\ OnWay /\ BusyQueuesAwake /\ OnePlace
        /\ load \in Loads /\ Punctual /\ Alone /\ Free /\ OnTime
        /\ Top(e, "QUEUE_PROCESSING") /\ e.type = "QUEUE_PROCESSING"
        /\ a \in Queues /\ e.time \in Nat /\ e.packet = None /\ packets[a] # <<>>
    BY <1>0, EventKinds DEF TimeInv, FifoInv, WakeInv, Transmit, Top
  <1>2. /\ packets' = [packets EXCEPT ![a] = Tail(@)]
        /\ events' = (events \ {e}) \union {w, o}
        /\ UNCHANGED <<load, arrived, failed>>
    BY <1>0 DEF Transmit
  <1>3. /\ x \in Packet /\ InQueue(x, a, 1) /\ x \in load /\ Passes(x, a) /\ x # None
        /\ Level[a] \in Int /\ Due(x, Level[a]) \in Int
        /\ Due(x, Level[a] + 1) = Due(x, Level[a]) + Hdr + Prop
    <2>1. x \in Packet /\ InQueue(x, a, 1)
      BY <1>0, <1>1, <1>2, TransmitFacts
    <2>2. x \in load /\ Passes(x, a) /\ x # None /\ Level[a] \in Int
      BY <1>1, <2>1, QueueFacts, ConstantTypes
    <2> QED
      BY <2>1, <2>2, DueFacts
  <1>4. /\ w.time = e.time + Hdr /\ w.packet = None /\ w.queue = a
        /\ w.type = "QUEUE_PROCESSING"
        /\ o.time = e.time + Hdr + Prop /\ o.packet = x /\ o.type # "QUEUE_PROCESSING"
        /\ Stage(x, o.queue) = Level[a] + 1
    <2>1. o.queue = NextHop(x, a) /\ o.time = e.time + Hdr + Prop /\ o.packet = x
          /\ o.type # "QUEUE_PROCESSING"
      BY <1>0 DEF Onward, Event
    <2> QED
      BY <1>0, <1>1, <1>3, <2>1, QueueFacts DEF Event
  <1>5. \A t \in Int : (Reached(t) => Reached(t)') /\ (t <= e.time => Reached(t)')
    <2>1. PICK new : new = {w, o}
      OBVIOUS
    <2>2. \A g \in new : g.time \in Nat /\ g.time >= e.time
      BY <1>1, <1>4, <2>1, ConstantTypes
    <2> QED
      BY <1>1, <1>2, <2>1, <2>2, ReachedKept
  <1>6. \A p \in Packet, q \in Queues, i \in Nat :
          InQueue(p, q, i)' <=>
            IF q = a THEN i >= 1 /\ InQueue(p, q, i + 1) ELSE InQueue(p, q, i)
    BY <1>1, <1>2, TransmitFacts
  <1>7. \A q \in Queues : q # a => Processing(q)' = Processing(q) /\ packets'[q] = packets[q]
    BY <1>0, <1>1, <1>2, <1>4, TransmitFacts DEF Processing
  <1>8. Processing(a) = {e} /\ Processing(a)' = {w}
    <2>1. Processing(a) = {e}
      BY <1>0, <1>1 DEF BusyQueuesAwake, Processing
    <2> QED
      BY <1>2, <1>4, <2>1 DEF Processing
  <1>9. a \in ZeroBuffer => e.time = Due(x, Level[a])
    BY <1>1, <1>3, <1>8 DEF Alone
  <1>10. \A p \in Packet, q \in Queues :
           p # None /\ Level[q] \in Int /\ Beyond(p, q) => Beyond(p, q)'
    <2> SUFFICES ASSUME NEW p \in Packet, NEW q \in Queues, p # None,
                        Level[q] \in Int, Beyond(p, q)
                 PROVE  Beyond(p, q)'
      OBVIOUS
    <2>1. ASSUME NEW f \in events', f.packet = p PROVE Stage(p, f.queue) > Level[q]
      <3>1. CASE f \in events
        BY <2>1, <3>1 DEF Beyond
      <3>2. CASE f = o
        <4>1. p = x /\ Level[a] > Level[q]
          BY <1>1, <1>3, <1>4, <2>1, <3>2 DEF Beyond
        <4>2. Level[a] + 1 > Level[q]
          BY <1>3, <4>1
        <4> QED
          BY <1>4, <3>2, <4>1, <4>2
      <3> QED
        BY <1>2, <1>4, <2>1, <3>1, <3>2
    <2>2. ASSUME NEW b \in Queues, NEW i \in Nat, InQueue(p, b, i)' PROVE Level[b] > Level[q]
      <3>1. PICK k \in Nat : InQueue(p, b, k)
        <4>1. IF b = a THEN i >= 1 /\ InQueue(p, b, i + 1) ELSE InQueue(p, b, i)
          BY <1>6, <2>2
        <4> QED
          BY <4>1
      <3> QED
        BY <3>1 DEF Beyond
    <2> QED
      BY <2>1, <2>2 DEF Beyond, Stage
  <1>11. FifoInv'
    BY FifoTransmit DEF TimeInv
  <1>12. Punctual'
    <2> SUFFICES ASSUME NEW f \in events', f.packet # None, IsData(f.packet)
                 PROVE  f.time = Due(f.packet, Stage(f.packet, f.queue))
      BY DEF Punctual, Stage
    <2>1. CASE f \in events
      BY <1>1, <2>1 DEF Punctual
    <2>2. CASE f = o
      <3>1. a \in ZeroBuffer
        BY <1>3, <1>4, <2>2, DataWay
      <3> QED
        BY <1>3, <1>4, <1>9, <2>2, <3>1
    <2> QED
      BY <1>2, <1>4, <2>1, <2>2
  <1>13. Alone'
    <2> SUFFICES ASSUME NEW p \in Packet, NEW q \in ZeroBuffer, NEW i \in Nat,
                        InQueue(p, q, i)'
                 PROVE  /\ i = 1 /\ Reached(Due(p, Level[q]))'
                        /\ \A g \in Processing(q)' : g.time = Due(p, Level[q])
      BY DEF Alone
    <2>1. q \in Queues
      BY LinkAssumption
    <2>2. IF q = a THEN i >= 1 /\ InQueue(p, q, i + 1) ELSE InQueue(p, q, i)
      BY <1>6, <2>1
    <2>3. q # a
      <3> SUFFICES ASSUME q = a PROVE FALSE
        OBVIOUS
      <3>1. i >= 1 /\ InQueue(p, q, i + 1) /\ i + 1 \in Nat
        BY <2>2
      <3>2. i + 1 = 1
        BY <1>1, <3>1 DEF Alone
      <3> QED
        BY <3>1, <3>2
    <2>4. InQueue(p, q, i)
      BY <2>2, <2>3
    <2>5. Due(p, Level[q]) \in Int
      <3>1. Level[q] \in Int
        BY <1>1, <2>1, <2>4, QueueFacts
      <3> QED
        BY <3>1, DueFacts
    <2> QED
      BY <1>1, <1>5, <1>7, <2>1, <2>3, <2>4, <2>5 DEF Alone
  <1>14. Free'
    <2> SUFFICES ASSUME NEW q \in ZeroBuffer, NEW g \in Processing(q)', packets'[q] = <<>>
                 PROVE  \E p \in load : /\ Passes(p, q) /\ Beyond(p, q)'
                                        /\ g.time = Due(p, Level[q]) + Hdr
                                        /\ Reached(Due(p, Level[q]))'
      BY <1>2 DEF Free, Passes
    <2>1. q \in Queues
      BY LinkAssumption
    <2>2. CASE q = a
      <3>1. g.time = Due(x, Level[q]) + Hdr
        BY <1>4, <1>8, <1>9, <2>2
      <3>2. Reached(Due(x, Level[q]))'
        BY <1>1, <1>3, <1>5, <1>9, <2>2
      <3>3. Beyond(x, q)'
        <4>1. ASSUME NEW f \in events', f.packet = x PROVE Stage(x, f.queue) > Level[q]
          <5>1. f \notin events
            BY <1>1, <1>3, <4>1 DEF OnePlace
          <5>2. f = o
            BY <1>2, <1>3, <1>4, <4>1, <5>1
          <5> QED
            BY <1>3, <1>4, <2>2, <5>2
        <4>2. ASSUME NEW b \in Queues, NEW i \in Nat, InQueue(x, b, i)' PROVE FALSE
          <5>1. IF b = a THEN i >= 1 /\ InQueue(x, b, i + 1) ELSE InQueue(x, b, i)
            BY <1>3, <1>6, <4>2
          <5>2. PICK k \in Nat : InQueue(x, b, k) /\ (b = a => k > 1)
            BY <5>1
          <5> QED
            BY <1>1, <1>3, <5>2 DEF OnePlace
        <4> QED
          BY <4>1, <4>2 DEF Beyond, Stage
      <3> QED
        BY <1>3, <2>2, <3>1, <3>2, <3>3
    <2>3. CASE q # a
      <3>1. packets[q] = <<>> /\ g \in Processing(q)
        BY <1>7, <2>1, <2>3
      <3>2. PICK p \in load : /\ Passes(p, q) /\ Beyond(p, q)
                              /\ g.time = Due(p, Level[q]) + Hdr /\ Reached(Due(p, Level[q]))
        BY <1>1, <3>1 DEF Free
      <3>3. p \in Packet /\ p # None
        BY <1>1, ConstantTypes DEF TypeOK
      <3>4. Level[q] \in Int
        BY <3>2, <3>3, DataWay
      <3>5. Due(p, Level[q]) \in Int
        BY <3>3, <3>4, DueFacts
      <3> QED
        BY <1>5, <1>10, <2>1, <3>2, <3>3, <3>4, <3>5
    <2> QED
      BY <2>2, <2>3
  <1>15. load' \in Loads /\ OnTime'
    BY <1>1, <1>2 DEF OnTime, NoCollision
  <1> QED
    BY <1>11, <1>12, <1>13, <1>14, <1>15 DEF TimeInv

\* Going idle and arriving change no packet's place in a queue.
LEMMA PlacesKept ==
  ASSUME TimeInv, NEW e \in events, NEW type, Top(e, type), events' = events \ {e},
         UNCHANGED <<load, packets, failed>>
  PROVE  load' \in Loads /\ Punctual' /\ Alone' /\ Free'
  <1>1. TypeOK /\ OnWay /\ load \in Loads /\ Punctual /\ Alone /\ Free
    BY DEF TimeInv, FifoInv, WakeInv
  <1>2. \A t \in Int : Reached(t) => Reached(t)'
    BY DEF Reached
  <1>3. \A p, q, i : InQueue(p, q, i)' <=> InQueue(p, q, i)
    BY DEF InQueue
  <1>4. \A q : Processing(q)' \subseteq Processing(q)
    BY DEF Processing
  <1>5. \A p, q : Beyond(p, q) => Beyond(p, q)'
    BY <1>3 DEF Beyond, Stage
  <1>6. ASSUME NEW p \in Packet, NEW q \in ZeroBuffer, Passes(p, q)
        PROVE  Due(p, Level[q]) \in Int
    BY SMTT(30), <1>6, DataWay, DueFacts
  <1>7. Punctual'
    BY <1>1 DEF Punctual, Stage, Due
  <1>8. Alone'
    <2> SUFFICES ASSUME NEW p \in Packet, NEW q \in ZeroBuffer, NEW i \in Nat,
                        InQueue(p, q, i)
                 PROVE  /\ i = 1 /\ Reached(Due(p, Level[q]))'
                        /\ \A g \in Processing(q)' : g.time = Due(p, Level[q])
      BY <1>3 DEF Alone
    <2>1. Passes(p, q)
      BY <1>1, LinkAssumption, QueueFacts
    <2> QED
      BY <1>1, <1>2, <1>4, <1>6, <2>1 DEF Alone
  <1>9. Free'
    <2> SUFFICES ASSUME NEW q \in ZeroBuffer, NEW g \in Processing(q)', packets[q] = <<>>
                 PROVE  \E p \in load : /\ Passes(p, q) /\ Beyond(p, q)'
                                        /\ g.time = Due(p, Level[q]) + Hdr
                                        /\ Reached(Due(p, Level[q]))'
      BY DEF Free, Passes
    <2>1. PICK p \in load : /\ Passes(p, q) /\ Beyond(p, q)
                            /\ g.time = Due(p, Level[q]) + Hdr /\ Reached(Due(p, Level[q]))
      BY <1>1, <1>4 DEF Free
    <2>2. p \in Packet
      BY <1>1 DEF TypeOK
    <2> QED
      BY <1>2, <1>5, <1>6, <2>1, <2>2
  <1> QED
    BY <1>1, <1>7, <1>8, <1>9

\* A packet that arrives is on time.
LEMMA TimeArrival ==
  ASSUME TimeInv, NEW e \in events, PacketArrival(e) PROVE TimeInv'
  <1>0. PICK x : x = e.packet
    OBVIOUS
  <1>1. /\ TypeOK /\ Punctual /\ OnTime /\ Top(e, "PACKET_ARRIVAL")
        /\ x \in Packet /\ x # None /\ e.queue = None
        /\ arrived \in Seq([packet : Packet, time : Nat])
    <2>1. e.type = "PACKET_ARRIVAL" /\ TypeOK
      BY DEF TimeInv, FifoInv, WakeInv, PacketArrival, Top
    <2> QED
      BY <1>0, <2>1, EventKinds, ConstantTypes
      DEF TimeInv, FifoInv, WakeInv, PacketArrival, Top, TypeOK
  <1>2. /\ arrived' = Append(arrived, [packet |-> x, time |-> e.time])
        /\ events' = events \ {e} /\ UNCHANGED <<load, packets, failed>>
    BY <1>0 DEF PacketArrival
  <1>3. /\ Len(arrived) \in Nat /\ Len(arrived') = Len(arrived) + 1
        /\ \A i \in 1 .. Len(arrived) : arrived'[i] = arrived[i]
        /\ arrived'[Len(arrived) + 1] = [packet |-> x, time |-> e.time]
    BY <1>1, <1>2
  <1>4. IsData(x) => e.time = SendTime[x] + Len(Way[x]) * (Hdr + Prop)
    <2> SUFFICES ASSUME IsData(x) PROVE e.time = SendTime[x] + Len(Way[x]) * (Hdr + Prop)
      OBVIOUS
    <2>1. e.time = Due(x, Len(Way[x]) + 1)
      BY <1>0, <1>1 DEF Punctual, Stage
    <2>2. Len(Way[x]) \in Nat
      BY <1>1, ConstantTypes
    <2>3. (Len(Way[x]) + 1) - 1 = Len(Way[x])
      BY <2>2
    <2> QED
      BY <2>1, <2>3 DEF Due
  <1>5. OnTime'
    <2> SUFFICES ASSUME NEW i \in 1 .. Len(arrived'), NEW p, p = arrived'[i].packet, IsData(p)
                 PROVE  arrived'[i].time = SendTime[p] + Len(Way[p]) * (Hdr + Prop)
      BY <1>1, <1>2 DEF OnTime, NoCollision, IsData, First
    <2>1. CASE i \in 1 .. Len(arrived)
      BY <1>1, <1>3, <2>1 DEF OnTime
    <2>2. CASE i = Len(arrived) + 1
      BY <1>3, <1>4, <2>2
    <2> QED
      BY <1>3, <2>1, <2>2
  <1>6. FifoInv'
    BY FifoArrival DEF TimeInv
  <1> QED
    BY <1>1, <1>2, <1>5, <1>6, PlacesKept DEF TimeInv

\* Every step keeps the times.
LEMMA TimeStep ==
  ASSUME Spaced PROVE TimeInv /\ [Next]_vars => TimeInv'
  <1> SUFFICES ASSUME TimeInv, [Next]_vars PROVE TimeInv'
    OBVIOUS
  <1>1. ASSUME NEW e \in events, GoIdle(e) PROVE TimeInv'
    <2>1. /\ Top(e, "QUEUE_PROCESSING") /\ events' = events \ {e}
          /\ UNCHANGED <<load, packets, arrived, failed>>
      BY <1>1 DEF GoIdle
    <2>2. FifoInv'
      BY <1>1, FifoIdle DEF TimeInv
    <2>3. OnTime'
      BY <2>1 DEF TimeInv, OnTime, NoCollision
    <2> QED
      BY <2>1, <2>2, <2>3, PlacesKept DEF TimeInv
  <1>2. CASE Next
    BY <1>1, <1>2, TimeQueuing, TimeTransmit, TimeArrival DEF Next
  <1>3. CASE UNCHANGED vars
    <2>1. FifoInv'
      BY FifoStep DEF TimeInv
    <2>2. UNCHANGED <<load, events, packets, busy, arrived, failed>>
      BY <1>3 DEF vars
    <2>3. \A p, q, i : InQueue(p, q, i)' <=> InQueue(p, q, i)
      BY <2>2 DEF InQueue
    <2>4. /\ \A t : Reached(t)' <=> Reached(t)
          /\ \A q : Processing(q)' = Processing(q)
          /\ \A p, q : Beyond(p, q)' <=> Beyond(p, q)
      BY <2>2, <2>3 DEF Reached, Processing, Beyond, Stage
    <2>5. Punctual' /\ OnTime' /\ load' \in Loads
      BY <2>2 DEF TimeInv, Punctual, Stage, Due, OnTime, NoCollision
    <2>6. Alone' /\ Free'
      BY <2>2, <2>3, <2>4 DEF TimeInv, Alone, Free, Due, Passes
    <2> QED
      BY <2>1, <2>5, <2>6 DEF TimeInv
  <1> QED
    BY <1>2, <1>3

\* If the data packets of every load that share a queue are a header's time apart when
\* they are sent, which is what the arbiters' collision-free schedules give, then in any
\* network the assertion that a zero-buffer queue is empty never stops the program, and
\* every data packet arrives exactly the time of its hops after it was sent.
THEOREM DataIsOnTime == Spaced => (Spec => []OnTime)
  <1> SUFFICES ASSUME Spaced PROVE Spec => []OnTime
    OBVIOUS
  <1>1. TimeInv => OnTime
    BY DEF TimeInv
  <1>2. Init => TimeInv
    BY TimeInit
  <1>3. TimeInv /\ [Next]_vars => TimeInv'
    BY TimeStep
  <1> QED
    BY <1>1, <1>2, <1>3, PTL DEF Spec

(***************************************************************************)
(* The ways themselves: a data packet follows its schedule (Routing), for  *)
(* any packets with schedules.                                             *)
(***************************************************************************)
CONSTANTS Sent, Gone          \* the packets of Routing, and its Arrived
VARIABLES packet, at          \* its packet and its queue

Route == INSTANCE Routing WITH Packet <- Sent, Arrived <- Gone, queue <- at

\* The six queues of schedule g, in their order.
Course(g) ==
  {Route!Queue("HOST_TO_TOR", g.src, 0),
   Route!Queue("TOR_TO_AGG", Route!RackNo(g.src), g.src_agg % 5),
   Route!Queue("AGG_TO_CORE", g.src_agg, Route!agg_to_core_port[<<g.src_agg, g.core>>]),
   Route!Queue("CORE_TO_AGG", g.core, Route!core_to_agg_port[<<g.core, g.dst_agg>>]),
   Route!Queue("AGG_TO_TOR", g.dst_agg, Route!RackNo(g.dst) % 5),
   Route!Queue("TOR_TO_HOST", Route!RackNo(g.dst), g.dst % 5)}

\* Where a queue of the course of g leads.
Leads(g, q) ==
  CASE q.location = "HOST_TO_TOR" -> Route!Node("TOR_SWITCH", Route!RackNo(g.src))
    [] q.location = "TOR_TO_AGG"  -> Route!Node("AGG_SWITCH", g.src_agg)
    [] q.location = "AGG_TO_CORE" -> Route!Node("CORE_SWITCH", g.core)
    [] q.location = "CORE_TO_AGG" -> Route!Node("AGG_SWITCH", g.dst_agg)
    [] q.location = "AGG_TO_TOR"  -> Route!Node("TOR_SWITCH", Route!RackNo(g.dst))
    [] q.location = "TOR_TO_HOST" -> Route!Node("HOST", g.dst)

\* The sizes of the network.
LEMMA Sizes ==
  /\ Route!Half = 5 /\ Route!HostsPerPod = 25
  /\ Route!HostId = 0 .. 124 /\ Route!AggId = 0 .. 24
  BY DEF Route!Half, Route!HostsPerPod, Route!HostId, Route!AggId, Route!k

\* In the numbers of a schedule: its switches and hosts are where the ports lead.
LEMMA FarOfCourse ==
  ASSUME Route!PortsLead, NEW p, Route!IsScheduled(p), NEW q \in Course(p.path)
  PROVE  Route!Far(q) = Leads(p.path, q)
  <1>1. PICK g : g = p.path
    OBVIOUS
  <1>2. PICK s, d, a, b : s = g.src /\ d = g.dst /\ a = g.src_agg /\ b = g.dst_agg
    OBVIOUS
  <1>3. /\ s \in 0 .. 124 /\ d \in 0 .. 124 /\ a \in 0 .. 24 /\ b \in 0 .. 24
        /\ a \div 5 = s \div 25 /\ b \div 5 = d \div 25
        /\ s \div 25 = d \div 25 => a = b
        /\ g.core = Route!src_dst_agg_to_core_map[<<a, b>>]
    BY <1>1, <1>2, Sizes DEF Route!IsScheduled, Route!PodNo
  <1>4. /\ Route!AggToCore(a, Route!agg_to_core_port[<<a, g.core>>]) = g.core
        /\ Route!CoreToAgg(g.core, Route!core_to_agg_port[<<g.core, b>>]) = b
    <2>1. a \in Route!AggId /\ b \in Route!AggId
      BY <1>3, Sizes
    <2>2. a \div Route!Half = b \div Route!Half => a = b
      BY <1>3, Sizes
    <2> QED
      BY <1>3, <2>1, <2>2, Zenon DEF Route!PortsLead
  <1>5. /\ ((s \div 5) \div 5) * 5 + (a % 5) = a
        /\ (b \div 5) * 5 + ((d \div 5) % 5) = d \div 5
        /\ (d \div 5) * 5 + (d % 5) = d
    BY <1>3
  <1>6. Route!Far(q) = Route!FarData(q)
    BY DEF Course, Route!Queue, Route!Far, Route!DataLocation
  <1> QED
    BY <1>1, <1>2, <1>4, <1>5, <1>6, Sizes
    DEF Course, Leads, Route!Queue, Route!FarData, Route!Node, Route!RackNo

\* The queue after one of the course is on it.
LEMMA NextOnCourse ==
  ASSUME Route!PortsLead, NEW p, p.type = "HeirScheduleData", Route!IsScheduled(p),
         NEW q \in Course(p.path), q.location \notin Route!LastHop
  PROVE  Route!get_next_hop(p, q) \in Course(p.path)
  <1>1. Route!Far(q) = Leads(p.path, q)
    BY FarOfCourse
  <1>2. Route!get_next_hop(p, q)
          = Route!Queue(Route!Onward[q.location], Route!Far(q).id,
                        Route!DataPort(p.path, q.location))
    BY DEF Route!get_next_hop, Route!NextDataHop
  <1>3. q.location # "TOR_TO_HOST"
    BY DEF Route!LastHop
  <1> QED
    BY <1>1, <1>2, <1>3, Sizes
    DEF Course, Leads, Route!Queue, Route!Node, Route!Onward, Route!DataPort,
        Route!DownPort

\* A data packet is in a queue of its course, or has arrived.
CourseInv ==
  /\ packet \in Sent
  /\ packet.type = "HeirScheduleData" => at = Gone \/ at \in Course(packet.path)

\* FirstQueue is the first queue of the course.
LEMMA CourseInit == Route!DataIsScheduled /\ Route!Init => CourseInv
  <1> SUFFICES ASSUME Route!DataIsScheduled, Route!Init, packet.type = "HeirScheduleData"
               PROVE  at \in Course(packet.path)
    BY DEF CourseInv, Route!Init
  <1>1. Route!IsScheduled(packet)
    BY DEF Route!DataIsScheduled, Route!Init
  <1>2. at = Route!Queue("HOST_TO_TOR", packet.path.src, 0)
    BY <1>1 DEF Route!Init, Route!FirstQueue, Route!IsScheduled, Route!Node
  <1> QED
    BY <1>2 DEF Course

\* No step leaves the course.
LEMMA CourseStep ==
  ASSUME Route!DataIsScheduled, Route!PortsLead
  PROVE  CourseInv /\ [Route!Next]_(Route!vars) => CourseInv'
  <1> SUFFICES ASSUME CourseInv, [Route!Next]_(Route!vars) PROVE CourseInv'
    OBVIOUS
  <1>1. CASE Route!Hop
    <2>1. /\ packet' = packet /\ at # Gone /\ at.location \notin Route!LastHop
          /\ at' = Route!get_next_hop(packet, at)
      BY <1>1 DEF Route!Hop
    <2>2. packet.type = "HeirScheduleData" => Route!IsScheduled(packet)
      BY DEF CourseInv, Route!DataIsScheduled
    <2> QED
      BY <2>1, <2>2, NextOnCourse DEF CourseInv
  <1>2. CASE Route!PacketArrival
    BY <1>2 DEF Route!PacketArrival, CourseInv
  <1>3. CASE UNCHANGED Route!vars
    BY <1>3 DEF Route!vars, CourseInv
  <1> QED
    BY <1>1, <1>2, <1>3 DEF Route!Next

\* The queues of the course are the links of the schedule.
LEMMA CourseFollows ==
  Route!DataIsScheduled /\ Route!PortsLead /\ CourseInv => Route!FollowsSchedule
  <1> SUFFICES ASSUME Route!DataIsScheduled, Route!PortsLead, CourseInv,
                      packet.type = "HeirScheduleData", at # Gone
               PROVE  Route!FollowsSchedule
    BY DEF Route!FollowsSchedule, Route!At
  <1>1. Route!IsScheduled(packet) /\ at \in Course(packet.path)
    BY DEF CourseInv, Route!DataIsScheduled
  <1>2. Route!Far(at) = Leads(packet.path, at)
    BY <1>1, FarOfCourse
  <1>3. /\ packet.path.src \in Route!HostId /\ packet.path.dst \in Route!HostId
    BY <1>1 DEF Route!IsScheduled
  <1>4. /\ Route!TorOfHost[packet.path.src] = Route!RackNo(packet.path.src)
        /\ Route!TorOfHost[packet.path.dst] = Route!RackNo(packet.path.dst)
    BY <1>3 DEF Route!TorOfHost
  <1> QED
    BY <1>1, <1>2, <1>4
    DEF Course, Leads, Route!Queue, Route!Node, Route!FollowsSchedule, Route!At,
        Route!Ends, Route!Booked!HostToTor, Route!Booked!TorToAgg,
        Route!Booked!AggToCore, Route!Booked!CoreToAgg, Route!Booked!AggToTor,
        Route!Booked!TorToHost

\* Whatever schedules the data packets carry, each packet uses the six links of its
\* schedule and no other, provided the wiring tables agree (PortsLead, which holds of
\* the tables in the code, and which TLC evaluates).
THEOREM DataFollowsSchedule ==
  ASSUME Route!DataIsScheduled, Route!PortsLead
  PROVE  Route!Spec => []Route!FollowsSchedule
  <1>1. Route!Init => CourseInv
    BY CourseInit
  <1>2. CourseInv /\ [Route!Next]_(Route!vars) => CourseInv'
    BY CourseStep
  <1>3. CourseInv => Route!FollowsSchedule
    BY CourseFollows
  <1> QED
    BY <1>1, <1>2, <1>3, PTL DEF Route!Spec

\* Such a packet arrives over a queue that ends at the host it is for.
THEOREM DataReachesDst ==
  ASSUME Route!DataIsScheduled, Route!PortsLead,
         \A location, node, port : Route!Queue(location, node, port) # Gone
  PROVE  Route!Spec => Route!DataEndsAtDst
  <1>1. Route!Init => CourseInv
    BY CourseInit
  <1>2. CourseInv /\ [Route!Next]_(Route!vars) => CourseInv'
    BY CourseStep
  <1>3. CourseInv /\ [Route!Next]_(Route!vars)
        => [packet.type = "HeirScheduleData" /\ at' = Gone
              => Route!Far(at) = packet.dst]_(Route!vars)
    <2> SUFFICES ASSUME CourseInv, Route!Next, packet.type = "HeirScheduleData", at' = Gone
                 PROVE  Route!Far(at) = packet.dst
      OBVIOUS
    <2>1. Route!IsScheduled(packet)
      BY DEF CourseInv, Route!DataIsScheduled
    <2>2. at # Gone /\ at \in Course(packet.path)
      BY DEF CourseInv, Route!Next, Route!Hop, Route!PacketArrival
    <2>3. at.location \in Route!LastHop
      <3> SUFFICES ASSUME at.location \notin Route!LastHop PROVE FALSE
        OBVIOUS
      <3>1. at' = Route!get_next_hop(packet, at)
        BY DEF Route!Next, Route!Hop, Route!PacketArrival
      <3>2. at' \in Course(packet.path)
        BY <2>1, <2>2, <3>1, NextOnCourse
      <3> QED
        BY <3>2 DEF Course
    <2>4. at.location = "TOR_TO_HOST"
      BY <2>2, <2>3 DEF Course, Route!Queue, Route!LastHop
    <2>5. Route!Far(at) = Leads(packet.path, at)
      BY <2>1, <2>2, FarOfCourse
    <2> QED
      BY <2>1, <2>4, <2>5 DEF Leads, Route!IsScheduled
  <1> QED
    BY <1>1, <1>2, <1>3, PTL DEF Route!Spec, Route!DataEndsAtDst

=============================================================================
