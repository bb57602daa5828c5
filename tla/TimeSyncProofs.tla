--------------------------- MODULE TimeSyncProofs ---------------------------
(***************************************************************************)
(* The clocks are corrected exactly for any number of pods and hosts, any  *)
(* biases and link times and any wait in the queues: the inductive         *)
(* invariant says what each message of an exchange knows of the two clocks *)
(* and of the time it has been on its way.                                 *)
(***************************************************************************)
EXTENDS TimeSync, TLAPS

(***************************************************************************)
(* The invariant.                                                          *)
(***************************************************************************)

MsgType == {"SYNC_MSG", "DELAY_REQ_MSG", "DELAY_RES_MSG"}
Msg == [type : MsgType, src : Node, dst : Node, stamp : Int,
        innetwork_delay : Int, hop : 1..3, enqueue : Int]

TypeOK ==
  /\ now \in Int
  /\ local_time_bias \in [Node -> Int]
  /\ T3_time \in [Slave -> Int]
  /\ master_slave_diff \in [Slave -> Int]
  /\ messages \subseteq Msg
  /\ synced \subseteq Slave

\* The two ends of the exchange a message belongs to.
SlaveOf(m)  == IF m.type = "DELAY_REQ_MSG" THEN m.src ELSE m.dst
MasterOf(m) == IF m.type = "DELAY_REQ_MSG" THEN m.dst ELSE m.src
Pair(k, n) == (k = GA /\ n \in LA) \/ (k \in LA /\ n \in Hosts[k])

\* The link time of the whole way between a slave and its master, of the part of
\* it a message has behind it, and when the message was sent but for the time it
\* waited in queues.
Way(n) == IF n \in AllHosts THEN DataTime + CtrlTime ELSE CtrlTime + CtrlTime
FirstLink(m) == IF m.src \in AllHosts THEN DataTime ELSE CtrlTime
Travelled(m) ==
  IF m.hop = 1 THEN 0 ELSE IF m.hop = 2 THEN FirstLink(m) ELSE Way(SlaveOf(m))
SentAt(m) == m.enqueue - m.innetwork_delay - Travelled(m)

\* An exchange is between a node not yet corrected and a master that is right.
Ends(m) ==
  /\ Pair(MasterOf(m), SlaveOf(m))
  /\ SlaveOf(m) \notin synced
  /\ MasterOf(m) \in synced \union {GA}

\* What the two clocks differ by, plus the link time of the way.
DiffOK(m) ==
  m.type # "SYNC_MSG" =>
    master_slave_diff[SlaveOf(m)] =
      local_time_bias[SlaveOf(m)] - local_time_bias[MasterOf(m)] + Way(SlaveOf(m))

\* The stamps, read with the clock that made them.
StampOK(m) ==
  /\ m.type = "SYNC_MSG" => m.stamp = SentAt(m) + local_time_bias[MasterOf(m)]
  /\ m.type = "DELAY_REQ_MSG" =>
       T3_time[SlaveOf(m)] = SentAt(m) + local_time_bias[SlaveOf(m)]
  /\ m.type = "DELAY_RES_MSG" =>
       m.stamp - T3_time[SlaveOf(m)] =
         local_time_bias[MasterOf(m)] - local_time_bias[SlaveOf(m)] + Way(SlaveOf(m))

\* A slave is in one exchange, and hosts wait for their local arbiter.
OneExchange == \A m1, m2 \in messages : SlaveOf(m1) = SlaveOf(m2) => m1 = m2
TopDown == \A l \in LA : l \notin synced => Hosts[l] \intersect synced = {}

Inv ==
  /\ TypeOK
  /\ \A m \in messages : Ends(m) /\ DiffOK(m) /\ StampOK(m)
  /\ OneExchange
  /\ TopDown
  /\ SyncedExactly

(***************************************************************************)
(* Lemmas about the pairs, the messages and the links.                     *)
(***************************************************************************)

\* A slave has one master, and no master of hosts is a host.
LEMMA PairFacts ==
  ASSUME NEW k \in Node, NEW n \in Node, Pair(k, n)
  PROVE  /\ n \in Slave /\ k \notin AllHosts /\ k # n
         /\ \A j \in Node : Pair(j, n) => j = k
         /\ n \in LA => k = GA
         /\ n \notin LA => n \in AllHosts
  <1>1. /\ GA \notin LA /\ GA \notin AllHosts /\ LA \intersect AllHosts = {}
        /\ \A l, m \in LA : l # m => Hosts[l] \intersect Hosts[m] = {}
    BY SyncAssumption DEF Slave
  <1>2. \A l \in LA : Hosts[l] \subseteq AllHosts
    BY DEF AllHosts
  <1> QED
    BY <1>1, <1>2 DEF Pair, Slave, Node

\* The link times are integers.
LEMMA TimeTypes ==
  /\ CtrlTime \in Int /\ DataTime \in Int
  /\ \A n : Way(n) \in Int
  /\ \A m : LinkTime(m) \in Int /\ FirstLink(m) \in Int /\ Travelled(m) \in Int
  <1>1. CtrlTime \in Int /\ DataTime \in Int
    BY SyncAssumption
  <1>2. \A n : Way(n) \in Int
    BY <1>1 DEF Way
  <1>3. \A m : LinkTime(m) \in Int
    BY <1>1 DEF LinkTime
  <1>4. \A m : FirstLink(m) \in Int
    BY <1>1 DEF FirstLink
  <1> QED
    BY <1>1, <1>2, <1>3, <1>4 DEF Travelled

\* The link a message takes next is the next part of its way.
LEMMA NextLink ==
  ASSUME NEW m \in Msg, Pair(MasterOf(m), SlaveOf(m)), m.hop < 3,
         NEW d \in Int, NEW e \in Int
  PROVE  LET moved == [m EXCEPT !.innetwork_delay = d, !.hop = @ + 1, !.enqueue = e]
         IN  /\ moved \in Msg
             /\ Travelled(moved) = Travelled(m) + LinkTime(m)
  <1> DEFINE moved == [m EXCEPT !.innetwork_delay = d, !.hop = @ + 1, !.enqueue = e]
  <1>0. m.hop \in 1..2 /\ m.hop + 1 \in 1..3
    BY DEF Msg
  <1>1. /\ moved \in Msg /\ moved.hop = m.hop + 1 /\ m.hop \in 1..2
        /\ moved.type = m.type /\ moved.src = m.src /\ moved.dst = m.dst
    BY <1>0 DEF Msg
  <1>2. /\ SlaveOf(moved) = SlaveOf(m) /\ FirstLink(moved) = FirstLink(m)
    BY <1>1 DEF SlaveOf, FirstLink
  <1>3. MasterOf(m) \notin AllHosts
    BY PairFacts DEF Msg, MasterOf, SlaveOf
  <1>4. /\ m.hop = 1 => LinkTime(m) = FirstLink(m)
        /\ m.hop = 2 => FirstLink(m) + LinkTime(m) = Way(SlaveOf(m))
    BY <1>3, TimeTypes DEF LinkTime, FirstLink, Way, MasterOf, SlaveOf
  <1>5. Travelled(moved) = Travelled(m) + LinkTime(m)
    BY <1>1, <1>2, <1>4, TimeTypes DEF Travelled
  <1> QED
    BY <1>1, <1>5

\* A new message has been nowhere.
LEMMA NewMessage ==
  ASSUME now \in Int, NEW type \in MsgType, NEW src \in Node, NEW dst \in Node,
         NEW stamp \in Int
  PROVE  LET m == Message(type, src, dst, stamp)
         IN  m \in Msg /\ SentAt(m) = now
  BY DEF Message, Msg, SentAt, Travelled

(***************************************************************************)
(* The steps.                                                              *)
(***************************************************************************)

\* The global arbiter starts an exchange with each local arbiter.
LEMMA InvInit == Init => Inv
  <1> SUFFICES ASSUME Init PROVE Inv
    OBVIOUS
  <1>1. now = 0 /\ now \in Int
    BY DEF Init
  <1>2. \A n \in Slave : n \in Node
    BY DEF Node
  <1>3. GA \in Node /\ \A l \in LA : l \in Node /\ l \in Slave
    BY DEF Node, Slave
  <1>4. local_time_bias \in [Node -> Int] /\ local_time_bias[GA] = 0
    BY SyncAssumption DEF Init
  <1>5. ASSUME NEW m \in messages
        PROVE  \E l \in LA : m = Message("SYNC_MSG", GA, l, 0)
    BY DEF Init
  <1>6. ASSUME NEW m \in messages
        PROVE  /\ m \in Msg /\ SentAt(m) = 0 /\ m.type = "SYNC_MSG" /\ m.stamp = 0
               /\ m.src = GA /\ m.dst \in LA
               /\ m = Message("SYNC_MSG", GA, m.dst, 0)
    <2>1. PICK l \in LA : m = Message("SYNC_MSG", GA, l, 0)
      BY <1>5
    <2>2. m \in Msg /\ SentAt(m) = 0
      BY <2>1, <1>1, <1>3, NewMessage DEF MsgType
    <2> QED
      BY <2>1, <2>2 DEF Message
  <1>7. TypeOK
    BY <1>1, <1>4, <1>6 DEF TypeOK, Init
  <1>8. \A m \in messages : Ends(m) /\ DiffOK(m) /\ StampOK(m)
    BY <1>4, <1>6 DEF Ends, DiffOK, StampOK, Pair, MasterOf, SlaveOf, Init
  <1>9. OneExchange
    BY <1>6 DEF OneExchange, SlaveOf
  <1>10. TopDown /\ SyncedExactly
    BY DEF TopDown, SyncedExactly, Init
  <1> QED
    BY <1>7, <1>8, <1>9, <1>10 DEF Inv

\* A message that leaves a queue has waited, which innetwork_delay counts or, for
\* a response, nobody asks.
LEMMA DequeueStep ==
  ASSUME Inv, NEW m \in messages, Dequeue(m) PROVE Inv'
  <1> DEFINE d == IF m.type = "DELAY_RES_MSG" THEN m.innetwork_delay ELSE DelaySoFar(m)
             moved == [m EXCEPT !.innetwork_delay = d, !.hop = @ + 1,
                                !.enqueue = now + LinkTime(m)]
  <1>1. /\ m \in Msg /\ Ends(m) /\ DiffOK(m) /\ StampOK(m) /\ m.hop < 3
        /\ now \in Int
    BY DEF Inv, TypeOK, Dequeue
  <1>2. d \in Int
    BY <1>1 DEF DelaySoFar, Msg
  <1>3. messages' = (messages \ {m}) \union {moved}
    BY <1>1 DEF Dequeue, Msg
  <1>4. moved \in Msg /\ Travelled(moved) = Travelled(m) + LinkTime(m)
    <2>1. now + LinkTime(m) \in Int /\ Pair(MasterOf(m), SlaveOf(m))
      BY <1>1, TimeTypes DEF Ends
    <2> HIDE DEF d
    <2> QED
      BY <1>1, <1>2, <2>1, NextLink
  <1>5. /\ moved.type = m.type /\ moved.src = m.src /\ moved.dst = m.dst
        /\ moved.stamp = m.stamp /\ moved.innetwork_delay = d
        /\ moved.enqueue = now + LinkTime(m)
    BY <1>1 DEF Msg
  <1>6. SlaveOf(moved) = SlaveOf(m) /\ MasterOf(moved) = MasterOf(m)
    BY <1>5 DEF SlaveOf, MasterOf
  <1>7. m.type # "DELAY_RES_MSG" => SentAt(moved) = SentAt(m)
    BY <1>1, <1>4, <1>5, TimeTypes DEF SentAt, DelaySoFar, Msg
  <1>8. UNCHANGED <<now, local_time_bias, T3_time, master_slave_diff, synced>>
    BY DEF Dequeue
  <1>9. TypeOK'
    BY <1>3, <1>4, <1>8 DEF Inv, TypeOK
  <1>10. \A x : /\ Ends(x)' <=> Ends(x)
                /\ DiffOK(x)' <=> DiffOK(x)
                /\ StampOK(x)' <=> StampOK(x)
    BY <1>8 DEF Ends, DiffOK, StampOK, SentAt, Travelled
  <1>11. Ends(moved) /\ DiffOK(moved) /\ StampOK(moved)
    BY <1>1, <1>5, <1>6, <1>7 DEF Ends, DiffOK, StampOK, Msg
  <1>12. \A x \in messages' : Ends(x)' /\ DiffOK(x)' /\ StampOK(x)'
    BY <1>3, <1>10, <1>11 DEF Inv
  <1>13. OneExchange'
    BY <1>3, <1>6 DEF Inv, OneExchange
  <1>14. TopDown' /\ SyncedExactly'
    BY <1>8 DEF Inv, TopDown, SyncedExactly
  <1> QED
    BY <1>9, <1>12, <1>13, <1>14 DEF Inv

\* The other exchanges do not concern the slave of m.
LEMMA OtherSlaves ==
  ASSUME Inv, NEW m \in messages, NEW x \in messages \ {m}
  PROVE  x \in Msg /\ SlaveOf(x) \in Slave /\ SlaveOf(x) # SlaveOf(m)
  <1>1. x \in Msg /\ Pair(MasterOf(x), SlaveOf(x))
    BY DEF Inv, TypeOK, Ends
  <1>2. SlaveOf(x) \in Slave
    BY <1>1, PairFacts DEF Msg, MasterOf, SlaveOf
  <1> QED
    BY <1>1, <1>2 DEF Inv, OneExchange

\* The slave learns what its clock is ahead of the master's, and the way.
LEMMA ReceiveSyncStep ==
  ASSUME Inv, NEW m \in messages, ReceiveSync(m) PROVE Inv'
  <1> DEFINE n == m.dst
             diff == Local(n) - m.innetwork_delay - m.stamp
  <1>0. PICK new : new = Message("DELAY_REQ_MSG", m.dst, m.src, 0)
    OBVIOUS
  <1>1. /\ m \in Msg /\ Ends(m) /\ StampOK(m) /\ m.hop = 3 /\ m.enqueue = now
        /\ m.type = "SYNC_MSG" /\ now \in Int
    BY DEF Inv, TypeOK, ReceiveSync, Arrives
  <1>2. SlaveOf(m) = n /\ MasterOf(m) = m.src /\ Pair(m.src, n) /\ n \in Slave
    BY <1>1, PairFacts DEF SlaveOf, MasterOf, Ends, Msg
  <1>3. /\ local_time_bias \in [Node -> Int] /\ T3_time \in [Slave -> Int]
        /\ master_slave_diff \in [Slave -> Int] /\ n \in Node /\ m.src \in Node
        /\ m.stamp \in Int /\ m.innetwork_delay \in Int
    BY <1>1 DEF Inv, TypeOK, Msg
  <1>4. Local(n) = now + local_time_bias[n] /\ Local(n) \in Int /\ diff \in Int
    BY <1>1, <1>3 DEF Local
  <1>5. /\ UNCHANGED <<now, local_time_bias, synced>>
        /\ messages' = (messages \ {m}) \union {new}
        /\ T3_time' = [T3_time EXCEPT ![n] = Local(n)]
        /\ master_slave_diff' = [master_slave_diff EXCEPT ![n] = diff]
    BY <1>0 DEF ReceiveSync, Replace
  <1>6. new \in Msg /\ SentAt(new) = now
    BY <1>0, <1>1, <1>3, NewMessage DEF MsgType
  <1>7. /\ new.type = "DELAY_REQ_MSG"
        /\ SlaveOf(new) = n /\ MasterOf(new) = m.src
    BY <1>0 DEF Message, SlaveOf, MasterOf
  <1>8. diff = local_time_bias[n] - local_time_bias[m.src] + Way(n)
    <2>1. SentAt(m) = now - m.innetwork_delay - Way(n)
      BY <1>1, <1>2 DEF SentAt, Travelled
    <2>2. m.stamp = SentAt(m) + local_time_bias[m.src]
      BY <1>1, <1>2 DEF StampOK
    <2> QED
      BY <1>1, <1>3, <1>4, <2>1, <2>2, TimeTypes
  <1>9. TypeOK'
    BY <1>3, <1>4, <1>5, <1>6 DEF Inv, TypeOK
  <1>10. ASSUME NEW x \in messages \ {m} PROVE Ends(x)' /\ DiffOK(x)' /\ StampOK(x)'
    <2>1. SlaveOf(x) \in Slave /\ SlaveOf(x) # n
      BY <1>2, OtherSlaves
    <2>2. /\ T3_time'[SlaveOf(x)] = T3_time[SlaveOf(x)]
          /\ master_slave_diff'[SlaveOf(x)] = master_slave_diff[SlaveOf(x)]
      BY <1>3, <1>5, <2>1
    <2> QED
      BY <1>5, <2>2 DEF Inv, Ends, DiffOK, StampOK, SentAt, Travelled
  <1>11. Ends(new)' /\ DiffOK(new)' /\ StampOK(new)'
    <2>1. Ends(new)'
      BY <1>1, <1>2, <1>5, <1>7 DEF Ends
    <2>2. DiffOK(new)'
      BY <1>2, <1>3, <1>5, <1>7, <1>8 DEF DiffOK
    <2>3. SentAt(new)' = now
      BY <1>6 DEF SentAt, Travelled
    <2>4. T3_time'[n] = now + local_time_bias'[n]
      BY <1>2, <1>3, <1>4, <1>5
    <2>5. StampOK(new)'
      BY <1>7, <2>3, <2>4 DEF StampOK
    <2> QED
      BY <2>1, <2>2, <2>5
  <1>12. OneExchange'
    BY <1>2, <1>5, <1>7 DEF Inv, OneExchange
  <1>13. TopDown' /\ SyncedExactly'
    BY <1>5 DEF Inv, TopDown, SyncedExactly
  <1> QED
    BY <1>5, <1>9, <1>10, <1>11, <1>12, <1>13 DEF Inv

\* The master answers with its clock at the time the request was sent, and the way.
LEMMA ReceiveDelayRequestStep ==
  ASSUME Inv, NEW m \in messages, ReceiveDelayRequest(m) PROVE Inv'
  <1> DEFINE k == m.dst
             stamp == Local(k) - m.innetwork_delay
  <1>0. PICK new : new = Message("DELAY_RES_MSG", m.dst, m.src, stamp)
    OBVIOUS
  <1>1. /\ m \in Msg /\ Ends(m) /\ DiffOK(m) /\ StampOK(m) /\ m.hop = 3
        /\ m.enqueue = now /\ m.type = "DELAY_REQ_MSG" /\ now \in Int
    BY DEF Inv, TypeOK, ReceiveDelayRequest, Arrives
  <1>2. SlaveOf(m) = m.src /\ MasterOf(m) = k /\ Pair(k, m.src) /\ m.src \in Slave
    BY <1>1, PairFacts DEF SlaveOf, MasterOf, Ends, Msg
  <1>3. /\ local_time_bias \in [Node -> Int] /\ T3_time \in [Slave -> Int]
        /\ k \in Node /\ m.src \in Node /\ m.innetwork_delay \in Int
    BY <1>1 DEF Inv, TypeOK, Msg
  <1>4. stamp = now + local_time_bias[k] - m.innetwork_delay /\ stamp \in Int
    BY <1>1, <1>3 DEF Local
  <1>5. /\ UNCHANGED <<now, local_time_bias, T3_time, master_slave_diff, synced>>
        /\ messages' = (messages \ {m}) \union {new}
    BY <1>0 DEF ReceiveDelayRequest, Replace
  <1>6. new \in Msg
    BY <1>0, <1>1, <1>3, <1>4, NewMessage DEF MsgType
  <1>7. /\ new.type = "DELAY_RES_MSG" /\ new.stamp = stamp
        /\ SlaveOf(new) = m.src /\ MasterOf(new) = k
    BY <1>0 DEF Message, SlaveOf, MasterOf
  <1>8. stamp - T3_time[m.src] =
          local_time_bias[k] - local_time_bias[m.src] + Way(m.src)
    <2>1. SentAt(m) = now - m.innetwork_delay - Way(m.src)
      BY <1>1, <1>2 DEF SentAt, Travelled
    <2>2. T3_time[m.src] = SentAt(m) + local_time_bias[m.src]
      BY <1>1, <1>2 DEF StampOK
    <2> QED
      BY <1>1, <1>2, <1>3, <1>4, <2>1, <2>2, TimeTypes
  <1>9. TypeOK'
    BY <1>5, <1>6 DEF Inv, TypeOK
  <1>10. ASSUME NEW x \in messages PROVE Ends(x)' /\ DiffOK(x)' /\ StampOK(x)'
    BY <1>5 DEF Inv, Ends, DiffOK, StampOK, SentAt, Travelled
  <1>11. Ends(new)' /\ DiffOK(new)' /\ StampOK(new)'
    <2> HIDE DEF stamp
    <2>1. Ends(new)'
      BY <1>1, <1>2, <1>5, <1>7 DEF Ends
    <2>2. DiffOK(new)'
      BY <1>1, <1>2, <1>5, <1>7 DEF DiffOK
    <2>3. StampOK(new)'
      BY <1>5, <1>7, <1>8 DEF StampOK
    <2> QED
      BY <2>1, <2>2, <2>3
  <1>12. OneExchange'
    BY <1>2, <1>5, <1>7 DEF Inv, OneExchange
  <1>13. TopDown' /\ SyncedExactly'
    BY <1>5 DEF Inv, TopDown, SyncedExactly
  <1> QED
    BY <1>5, <1>9, <1>10, <1>11, <1>12, <1>13 DEF Inv

\* Half of twice a delay.
LEMMA Halve == \A w \in Int : (w + w) \div 2 = w
  OBVIOUS

\* The two differences add up to twice the way, whatever the clocks are: the slave
\* takes over its master's bias, and a local arbiter turns to its hosts.
LEMMA ReceiveDelayResponseStep ==
  ASSUME Inv, NEW m \in messages, ReceiveDelayResponse(m) PROVE Inv'
  <1>0. PICK n, k : n = m.dst /\ k = m.src
    OBVIOUS
  <1>1. /\ m \in Msg /\ Ends(m) /\ DiffOK(m) /\ StampOK(m)
        /\ m.type = "DELAY_RES_MSG" /\ now \in Int
    BY DEF Inv, TypeOK, ReceiveDelayResponse, Arrives
  <1>2. /\ SlaveOf(m) = n /\ MasterOf(m) = k /\ Pair(k, n) /\ n \in Slave
        /\ n \notin synced /\ k \in synced \union {GA} /\ k # n
        /\ n \in Node /\ k \in Node /\ n # GA
    BY <1>0, <1>1, PairFacts, SyncAssumption DEF SlaveOf, MasterOf, Ends, Msg, Slave
  <1>3. /\ local_time_bias \in [Node -> Int] /\ T3_time \in [Slave -> Int]
        /\ master_slave_diff \in [Slave -> Int] /\ m.stamp \in Int
    BY <1>1 DEF Inv, TypeOK, Msg
  <1>4. PICK bias \in Int : bias = local_time_bias[k]
    BY <1>2, <1>3
  <1>5. local_time_bias[n] - (master_slave_diff[n] -
          ((master_slave_diff[n] + (m.stamp - T3_time[n])) \div 2)) = bias
    <2>1. PICK a \in Int, b \in Int, w \in Int :
            /\ a = local_time_bias[n] /\ b = local_time_bias[k] /\ w = Way(n)
      BY <1>2, <1>3, TimeTypes
    <2>2. master_slave_diff[n] = (a - b) + w /\ m.stamp - T3_time[n] = (b - a) + w
      BY <1>1, <1>2, <2>1 DEF DiffOK, StampOK
    <2>3. master_slave_diff[n] + (m.stamp - T3_time[n]) = w + w
      BY <2>2
    <2>4. (master_slave_diff[n] + (m.stamp - T3_time[n])) \div 2 = w
      BY <2>3, Halve
    <2> QED
      BY <1>4, <2>1, <2>2, <2>4
  <1>6. PICK new : new = SecondLevel(n, bias)
    OBVIOUS
  <1>7. /\ UNCHANGED <<now, T3_time, master_slave_diff>>
        /\ local_time_bias' = [local_time_bias EXCEPT ![n] = bias]
        /\ messages' = (messages \ {m}) \union new
        /\ synced' = synced \union {n}
    BY <1>0, <1>5, <1>6 DEF ReceiveDelayResponse, Replace
  <1>8. /\ local_time_bias'[n] = bias
        /\ \A j \in Node \ {n} : local_time_bias'[j] = local_time_bias[j]
    BY <1>2, <1>3, <1>7
  <1>9. ASSUME NEW x \in new
        PROVE  /\ x \in Msg /\ SentAt(x) = now /\ x.type = "SYNC_MSG"
               /\ n \in LA /\ MasterOf(x) = n /\ SlaveOf(x) \in Hosts[n]
               /\ x.stamp = now + bias
               /\ x = Message("SYNC_MSG", n, SlaveOf(x), now + bias)
    <2>1. n \in LA /\ new = {Message("SYNC_MSG", n, h, now + bias) : h \in Hosts[n]}
      BY <1>6 DEF SecondLevel
    <2>2. PICK h \in Hosts[n] : x = Message("SYNC_MSG", n, h, now + bias)
      BY <2>1
    <2>3. h \in Node
      BY <2>1 DEF AllHosts, Slave, Node
    <2>4. now + bias \in Int
      BY <1>1, <1>4
    <2>5. x \in Msg /\ SentAt(x) = now
      BY <1>1, <1>2, <2>2, <2>3, <2>4, NewMessage DEF MsgType
    <2>6. x.type = "SYNC_MSG" /\ x.src = n /\ x.dst = h /\ x.stamp = now + bias
      BY <2>2 DEF Message
    <2> QED
      BY <2>1, <2>2, <2>5, <2>6 DEF MasterOf, SlaveOf
  <1>10. TypeOK'
    BY <1>2, <1>4, <1>7, <1>9 DEF Inv, TypeOK
  <1>11. ASSUME NEW x \in messages \ {m}
         PROVE  /\ MasterOf(x) \in Node \ {n} /\ SlaveOf(x) \in Slave \ {n}
                /\ Ends(x)' /\ DiffOK(x)' /\ StampOK(x)'
    <2>1. SlaveOf(x) \in Slave /\ SlaveOf(x) # n /\ x \in Msg
      BY <1>2, OtherSlaves
    <2>2. MasterOf(x) \in Node /\ MasterOf(x) # n
      BY <1>2, <2>1 DEF Inv, Ends, Msg, MasterOf
    <2>3. /\ local_time_bias'[SlaveOf(x)] = local_time_bias[SlaveOf(x)]
          /\ local_time_bias'[MasterOf(x)] = local_time_bias[MasterOf(x)]
      BY <1>8, <2>1, <2>2 DEF Node
    <2>4. Ends(x)'
      BY <1>7, <2>1 DEF Inv, Ends
    <2>5. DiffOK(x)' /\ StampOK(x)'
      BY <1>7, <2>3 DEF Inv, DiffOK, StampOK, SentAt, Travelled
    <2> QED
      BY <2>1, <2>2, <2>4, <2>5
  <1>12. ASSUME NEW x \in new PROVE Ends(x)' /\ DiffOK(x)' /\ StampOK(x)'
    <2>1. SlaveOf(x) \notin synced /\ SlaveOf(x) # n
      <3>1. SlaveOf(x) \in AllHosts /\ n \notin AllHosts
        BY <1>9, SyncAssumption DEF AllHosts
      <3> QED
        BY <1>2, <1>9, <3>1 DEF Inv, TopDown
    <2>2. Ends(x)'
      BY <1>7, <1>9, <2>1 DEF Ends, Pair
    <2>3. SentAt(x)' = now
      BY <1>9 DEF SentAt, Travelled
    <2>4. DiffOK(x)' /\ StampOK(x)'
      BY <1>8, <1>9, <2>3 DEF DiffOK, StampOK
    <2> QED
      BY <2>2, <2>4
  <1>13. OneExchange'
    <2>1. ASSUME NEW x \in messages \ {m}, NEW y \in new
          PROVE  SlaveOf(x) # SlaveOf(y)
      <3>1. Pair(MasterOf(x), SlaveOf(x)) /\ SlaveOf(x) \in Node
        BY <1>11 DEF Inv, Ends, Node
      <3>2. Pair(n, SlaveOf(y))
        BY <1>9 DEF Pair
      <3> QED
        BY <1>2, <1>11, <3>1, <3>2, PairFacts
    <2> QED
      BY <1>7, <1>9, <2>1 DEF Inv, OneExchange
  <1>14. TopDown'
    <2> SUFFICES ASSUME NEW l \in LA, l \notin synced' PROVE Hosts[l] \intersect synced' = {}
      BY DEF TopDown
    <2>1. l # n /\ Hosts[l] \intersect synced = {}
      BY <1>7 DEF Inv, TopDown
    <2>2. n \notin Hosts[l]
      <3>1. n \in Hosts[l] => l = k
        BY <1>2, PairFacts DEF Pair, Node, Slave
      <3> QED
        BY <1>2, <1>7, <3>1, SyncAssumption DEF Slave
    <2> QED
      BY <1>7, <2>1, <2>2
  <1>15. SyncedExactly'
    <2>1. local_time_bias'[GA] = local_time_bias[GA]
      BY <1>2, <1>8 DEF Node
    <2>2. bias = local_time_bias[GA]
      BY <1>2, <1>4 DEF Inv, SyncedExactly
    <2>3. \A j \in synced : j # n /\ j \in Node
      BY <1>2 DEF Inv, TypeOK, Node
    <2> QED
      BY <1>7, <1>8, <2>1, <2>2, <2>3 DEF Inv, SyncedExactly
  <1> QED
    BY <1>7, <1>10, <1>11, <1>12, <1>13, <1>14, <1>15 DEF Inv

\* Time passes.
LEMMA TickStep == ASSUME Inv, Tick PROVE Inv'
  <1>1. /\ now' = now + 1
        /\ UNCHANGED <<local_time_bias, T3_time, master_slave_diff, messages, synced>>
    BY DEF Tick
  <1>2. TypeOK'
    BY <1>1 DEF Inv, TypeOK
  <1>3. \A m \in messages : Ends(m)' /\ DiffOK(m)' /\ StampOK(m)'
    BY <1>1 DEF Inv, Ends, DiffOK, StampOK, SentAt, Travelled
  <1> QED
    BY <1>1, <1>2, <1>3 DEF Inv, OneExchange, TopDown, SyncedExactly

\* Every step keeps the invariant.
LEMMA InvStep == Inv /\ [Next]_vars => Inv'
  <1> SUFFICES ASSUME Inv, [Next]_vars PROVE Inv'
    OBVIOUS
  <1>1. ASSUME NEW m \in messages, Handle(m) PROVE Inv'
    BY <1>1, DequeueStep, ReceiveSyncStep, ReceiveDelayRequestStep,
       ReceiveDelayResponseStep DEF Handle
  <1>2. CASE Tick
    BY <1>2, TickStep
  <1>3. CASE UNCHANGED vars
    BY <1>3 DEF vars, Inv, TypeOK, Ends, DiffOK, StampOK, SentAt, Travelled,
                OneExchange, TopDown, SyncedExactly
  <1> QED
    BY <1>1, <1>2, <1>3 DEF Next

(***************************************************************************)
(* The theorem.                                                            *)
(***************************************************************************)

\* receive_delay_response_message leaves every node it corrects with the clock of
\* the global arbiter exactly, in any number of pods, for any biases and times.
THEOREM SyncIsExact == Spec => []SyncedExactly
  <1>1. Inv => SyncedExactly
    BY DEF Inv
  <1> QED
    BY <1>1, InvInit, InvStep, PTL DEF Spec

=============================================================================
