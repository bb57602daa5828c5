------------------------- MODULE ArbitrationProofs -------------------------
(***************************************************************************)
(* Safety of the arbitration for every fabric, table length, lag and       *)
(* workload: the typing invariant, then the inductive invariant that no    *)
(* link is leaked, freed early or booked twice, and from it the absence of *)
(* assertion failures and of collisions, and the refinement of             *)
(* SlotBooking.                                                            *)
(***************************************************************************)
EXTENDS Arbitration, TLAPS

(***************************************************************************)
(* Typing.                                                                 *)
(***************************************************************************)

\* A slot has a row in the tables.
LEMMA IdxType == ASSUME NEW s \in Nat PROVE Idx(s) \in Int
  BY SlotAssumption DEF Idx

\* The bits of a reservation have the types of their tables.
LEMMA BitTypes ==
  ASSUME NEW m \in Event
  PROVE  /\ SrcBit(m) \in Int \X Host
         /\ UpBit(m) \in Int \X Tor \X Agg
         /\ DstBit(m) \in Int \X Host
         /\ m.dst_agg # None => /\ DownBit(m) \in Int \X Agg \X Tor
                                /\ InBit(m) \in Int \X Core \X Agg
                                /\ OutBit(m) \in Int \X Core \X Agg
  <1>1. /\ m.src \in Host /\ m.dst \in Host /\ m.slot \in Nat
        /\ m.src_agg \in Agg /\ m.dst_agg \in Agg \union {None}
    BY DEF Event
  <1>2. Idx(m.slot) \in Int
    BY <1>1, IdxType
  <1>3. TorOf[m.src] \in Tor /\ TorOf[m.dst] \in Tor
    BY <1>1, TopologyAssumption
  <1>4. m.dst_agg # None => CoreOf[<<m.src_agg, m.dst_agg>>] \in Core
    BY <1>1, TopologyAssumption
  <1> QED
    BY <1>1, <1>2, <1>3, <1>4
    DEF SrcBit, UpBit, DstBit, DownBit, InBit, OutBit

\* A pair has two hosts, and the event of a new reservation is an event.
LEMMA NewEventType ==
  ASSUME NEW p \in Pair, NEW type \in EventType, NEW s \in Nat,
         NEW a \in Agg, NEW b \in Agg \union {None}
  PROVE  /\ NewEvent(type, p, s, a, b) \in Event
         /\ PairOf(NewEvent(type, p, s, a, b)) = p
  <1>1. p[1] \in Host /\ p[2] \in Host /\ p = <<p[1], p[2]>>
    BY SlotAssumption
  <1> QED
    BY <1>1 DEF NewEvent, Event, PairOf

\* The slots of the search are natural numbers, and the switches it may choose
\* are switches of the pod.
LEMMA SearchTypes ==
  ASSUME TypeOK, NEW p \in Pair
  PROVE  /\ Window \subseteq Nat
         /\ \A s \in Nat : FreeAggs(s, p[1]) \subseteq Agg
         /\ \A m \in Event : FreeDownAggs(m) \subseteq Agg
  <1>1. Window \subseteq Nat
    BY SlotAssumption DEF TypeOK, Window
  <1>2. p[1] \in Host
    BY SlotAssumption
  <1>3. \A h \in Host : AggsOf[PodOf[h]] \subseteq Agg
    BY TopologyAssumption
  <1> QED
    BY <1>1, <1>2, <1>3 DEF FreeAggs, FreeDownAggs, Event

\* The first state has the types.
LEMMA TypeInit == Init => TypeOK
  BY SlotAssumption, NoneAssumption DEF Init, TypeOK

\* A step of any handler keeps the types.
LEMMA TypeStep == TypeOK /\ [Next]_vars => TypeOK'
  <1> SUFFICES ASSUME TypeOK, [Next]_vars PROVE TypeOK'
    OBVIOUS
  <1>1. ASSUME NEW p \in Pair, NEW size \in RtsSizes, ReceiveRts(p, size)
        PROVE  TypeOK'
    <2>1. size \in Nat
      BY SlotAssumption
    <2> QED
      BY <1>1, <2>1 DEF ReceiveRts, TypeOK, tables
  <1>2. ASSUME NEW l \in LA, AllocateUplinkEvent(l) PROVE TypeOK'
    BY <1>2 DEF AllocateUplinkEvent, TypeOK, tables, demand
  <1>3. ASSUME NEW p \in Pair, AllocateUplink(p) PROVE TypeOK'
    <2>1. CASE SkipRouted(p) \/ UplinkFull(p) \/ RefuseSamePod(p)
      BY <2>1
      DEF SkipRouted, UplinkFull, RefuseSamePod, Visit, TypeOK, tables, demand
    <2>2. CASE RequestDownlink(p)
      <3>1. PICK s \in Nat, a \in Agg :
              LET m == NewEvent("IPR", p, s, a, None) IN
              /\ host_is_src' = host_is_src \union {SrcBit(m)}
              /\ ToR2Agg' = ToR2Agg \union {UpBit(m)}
              /\ routing_table' =
                   [routing_table EXCEPT ![p] =
                      [slot |-> s, src_agg |-> a, dst_agg |-> None]]
              /\ pending' = pending \union {m}
        BY <2>2, SearchTypes DEF RequestDownlink
      <3> DEFINE m == NewEvent("IPR", p, s, a, None)
      <3>3. m \in Event /\ PairOf(m) = p
        BY NewEventType DEF EventType
      <3>4. m.type = "IPR" /\ m.dst_agg = None
        BY DEF NewEvent
      <3>5. SrcBit(m) \in Int \X Host /\ UpBit(m) \in Int \X Tor \X Agg
        BY <3>3, BitTypes
      <3>6. [slot |-> s, src_agg |-> a, dst_agg |-> None] \in Entry
        BY DEF Entry
      <3> HIDE DEF m
      <3> QED
        BY <2>2, <3>1, <3>3, <3>4, <3>5, <3>6
        DEF RequestDownlink, Visit, TypeOK, demand, m
    <2>3. CASE AllocateSamePod(p)
      <3>1. PICK s \in Nat, a \in Agg :
              LET m == NewEvent("CORE_RTS", p, s, a, a) IN
              /\ host_is_src' = host_is_src \union {SrcBit(m)}
              /\ ToR2Agg' = ToR2Agg \union {UpBit(m)}
              /\ host_is_dst' = host_is_dst \union {DstBit(m)}
              /\ Agg2ToR' = Agg2ToR \union {DownBit(m)}
              /\ routing_table' =
                   [routing_table EXCEPT ![p] =
                      [slot |-> s, src_agg |-> a, dst_agg |-> a]]
              /\ pending' = pending \union {m}
        BY <2>3, SearchTypes DEF AllocateSamePod
      <3> DEFINE m == NewEvent("CORE_RTS", p, s, a, a)
      <3>2. a # None
        BY TopologyAssumption
      <3>3. m \in Event /\ PairOf(m) = p
        BY NewEventType DEF EventType
      <3>4. m.type = "CORE_RTS" /\ m.dst_agg # None
        BY <3>2 DEF NewEvent
      <3>5. /\ SrcBit(m) \in Int \X Host /\ UpBit(m) \in Int \X Tor \X Agg
            /\ DstBit(m) \in Int \X Host /\ DownBit(m) \in Int \X Agg \X Tor
        BY <3>3, <3>4, BitTypes
      <3>6. [slot |-> s, src_agg |-> a, dst_agg |-> a] \in Entry
        BY DEF Entry
      <3> HIDE DEF m
      <3> QED
        BY <2>3, <3>1, <3>3, <3>4, <3>5, <3>6
        DEF AllocateSamePod, Visit, TypeOK, demand, m
    <2> QED
      BY <1>3, <2>1, <2>2, <2>3 DEF AllocateUplink
  <1>4. ASSUME NEW m \in pending, HandlePacket(m) PROVE TypeOK'
    <2>0. /\ m \in Event /\ PairOf(m) \in Pair
          /\ m.dst_agg = None <=> m.type \in {"IPR", "IPD"}
          /\ m.dst_agg # None => m.dst_agg \in Agg
      BY DEF TypeOK, Event
    <2>1. CASE GrantDownlink(m)
      <3>1. PICK b \in FreeDownAggs(m) :
              LET r == [m EXCEPT !.type = "CORE_RTS", !.dst_agg = b] IN
              /\ host_is_dst' = host_is_dst \union {DstBit(r)}
              /\ Agg2ToR' = Agg2ToR \union {DownBit(r)}
              /\ Become(m, {r, [r EXCEPT !.type = "IPS"]})
        BY <2>1 DEF GrantDownlink
      <3> DEFINE r == [m EXCEPT !.type = "CORE_RTS", !.dst_agg = b]
                 i == [r EXCEPT !.type = "IPS"]
      <3>2. b \in Agg /\ b # None
        BY <2>0, SearchTypes, TopologyAssumption, SlotAssumption
      <3>3. /\ r \in Event /\ PairOf(r) = PairOf(m)
            /\ r.type = "CORE_RTS" /\ r.dst_agg = b
        BY <2>0, <3>2 DEF EventType, Event, PairOf
      <3>4. i \in Event /\ PairOf(i) = PairOf(m) /\ i.type = "IPS" /\ i.dst_agg = b
        BY <2>0, <3>2 DEF EventType, Event, PairOf
      <3>5. DstBit(r) \in Int \X Host /\ DownBit(r) \in Int \X Agg \X Tor
        BY <3>2, <3>3, BitTypes
      <3>6. /\ host_is_dst' = host_is_dst \union {DstBit(r)}
            /\ Agg2ToR' = Agg2ToR \union {DownBit(r)}
            /\ pending' = (pending \ {m}) \union {r, i}
        BY <3>1 DEF Become
      <3> HIDE DEF r, i
      <3> QED
        BY <2>0, <2>1, <3>2, <3>3, <3>4, <3>5, <3>6
        DEF GrantDownlink, TypeOK, demand
    <2>2. CASE DenyDownlink(m)
      <3> DEFINE r == [m EXCEPT !.type = "IPD"]
      <3>1. /\ r \in Event /\ PairOf(r) = PairOf(m)
            /\ r.type = "IPD" /\ r.dst_agg = m.dst_agg
        BY <2>0 DEF Event, EventType, PairOf
      <3>2. m.dst_agg = None /\ pending' = (pending \ {m}) \union {r}
        BY <2>0, <2>2 DEF DenyDownlink, Become, Take
      <3> HIDE DEF r
      <3> QED
        BY <2>0, <2>2, <3>1, <3>2 DEF DenyDownlink, TypeOK, tables, demand
    <2>3. CASE ReceiveIps(m)
      <3>1. m.dst_agg \in Agg
        BY <2>0, <2>3 DEF ReceiveIps, Take
      <3>2. \A e \in Entry : EntryWithIps(e, m) \in Entry
        BY <3>1 DEF Entry, EntryWithIps
      <3>3. pending' \subseteq pending
        BY <2>3 DEF ReceiveIps, Become
      <3>4. routing_table' \in [Pair -> Entry \union {None}]
        BY <2>0, <2>3, <3>2 DEF ReceiveIps, TypeOK
      <3> QED
        BY <2>3, <3>3, <3>4 DEF ReceiveIps, TypeOK, tables, demand
    <2>4. CASE ReceiveIpd(m) \/ ReceiveDenySrc(m)
      BY <2>0, <2>4
      DEF ReceiveIpd, ReceiveDenySrc, ReleaseUplink, Check, Become, TypeOK, demand
    <2>5. CASE GrantCore(m)
      <3> DEFINE r == [m EXCEPT !.type = "CORE_SCHD"]
      <3>1. /\ r \in Event /\ PairOf(r) = PairOf(m)
            /\ r.type = "CORE_SCHD" /\ r.dst_agg = m.dst_agg
        BY <2>0 DEF Event, EventType, PairOf
      <3>2. m.dst_agg # None /\ pending' = (pending \ {m}) \union {r}
        BY <2>0, <2>5 DEF GrantCore, Become, Take
      <3>3. InBit(m) \in Int \X Core \X Agg /\ OutBit(m) \in Int \X Core \X Agg
        BY <2>0, <3>2, BitTypes
      <3> HIDE DEF r
      <3> QED
        BY <2>0, <2>5, <3>1, <3>2, <3>3 DEF GrantCore, TypeOK, demand
    <2>6. CASE DenyCore(m)
      <3> DEFINE r == [m EXCEPT !.type = "DENY_SRC"]
                 d == [m EXCEPT !.type = "DENY_DST"]
      <3>1. /\ r \in Event /\ PairOf(r) = PairOf(m)
            /\ r.type = "DENY_SRC" /\ r.dst_agg = m.dst_agg
            /\ d \in Event /\ PairOf(d) = PairOf(m)
            /\ d.type = "DENY_DST" /\ d.dst_agg = m.dst_agg
        BY <2>0 DEF Event, EventType, PairOf
      <3>2. m.dst_agg # None /\ pending' = (pending \ {m}) \union {r, d}
        BY <2>0, <2>6 DEF DenyCore, Become, Take
      <3> HIDE DEF r, d
      <3> QED
        BY <2>0, <2>6, <3>1, <3>2 DEF DenyCore, TypeOK, tables, demand
    <2>7. CASE ReceiveCoreSchd(m)
      <3>1. CASE routing_table[PairOf(m)] = None
        BY <2>7, <3>1 DEF ReceiveCoreSchd, TypeOK, tables, demand
      <3>2. CASE routing_table[PairOf(m)] # None
        <4> DEFINE e == routing_table[PairOf(m)]
                   r == [m EXCEPT !.type = "RESTORE_LINK"]
                   g == [src |-> m.src, dst |-> m.dst, slot |-> e.slot,
                         src_agg |-> e.src_agg, dst_agg |-> e.dst_agg,
                         core |-> CoreOf[<<m.src_agg, m.dst_agg>>]]
        <4>1. /\ r \in Event /\ PairOf(r) = PairOf(m)
              /\ r.type = "RESTORE_LINK" /\ r.dst_agg = m.dst_agg
          BY <2>0 DEF Event, EventType, PairOf
        <4>2. m.dst_agg \in Agg /\ pending' = (pending \ {m}) \union {r}
          BY <2>0, <2>7, <3>2 DEF ReceiveCoreSchd, Become, Take
        <4>3. CoreOf[<<m.src_agg, m.dst_agg>>] \in Core
          BY <2>0, <4>2, TopologyAssumption DEF Event
        <4>4. e \in Entry
          BY <2>0, <3>2 DEF TypeOK
        <4>5. g \in Schedule
          BY <2>0, <4>3, <4>4 DEF Event, Entry, Schedule
        <4>6. grants' = grants \union {g}
          BY <2>7, <3>2 DEF ReceiveCoreSchd
        <4>7. /\ size_table' \in [Pair -> Nat]
              /\ granted' \in [Pair -> Nat]
          BY <2>0, <2>7, <3>2, SlotAssumption DEF ReceiveCoreSchd, TypeOK, Served
        <4>8. routing_table' \in [Pair -> Entry \union {None}]
          BY <2>0, <2>7, <3>2 DEF ReceiveCoreSchd, TypeOK
        <4>9. UNCHANGED <<now, due, todo, tables, tx, announced, failed>>
          BY <2>7, <3>2 DEF ReceiveCoreSchd
        <4>10. /\ pending' \subseteq Event
               /\ \A n \in pending' :
                    /\ PairOf(n) \in Pair
                    /\ n.dst_agg = None <=> n.type \in {"IPR", "IPD"}
          <5> HIDE DEF r, g, e
          <5> QED
            BY <2>0, <4>1, <4>2, TopologyAssumption DEF TypeOK
        <4> HIDE DEF r, g, e
        <4> QED
          BY <4>5, <4>6, <4>7, <4>8, <4>9, <4>10 DEF TypeOK, tables
      <3> QED
        BY <3>1, <3>2
    <2>8. CASE ReceiveDenyDst(m)
      BY <2>0, <2>8 DEF ReceiveDenyDst, Check, Become, TypeOK, demand
    <2> QED
      BY <1>4, <2>1, <2>2, <2>3, <2>4, <2>5, <2>6, <2>7, <2>8 DEF HandlePacket
  <1>5. ASSUME NEW m \in pending, RestoreLink(m) PROVE TypeOK'
    BY <1>5 DEF RestoreLink, Become, TypeOK, demand
  <1>6. ASSUME NEW g \in grants, ReceiveSchd(g) PROVE TypeOK'
    BY <1>6 DEF ReceiveSchd, Check, TypeOK, tables, demand
  <1>7. CASE Tick
    BY <1>7 DEF Tick, TypeOK, tables, demand
  <1>8. CASE UNCHANGED vars
    BY <1>8 DEF vars, TypeOK, tables, demand
  <1> QED
    BY <1>1, <1>2, <1>3, <1>4, <1>5, <1>6, <1>7, <1>8 DEF Next

\* Every variable keeps its type, whatever the fabric, the table length, the lag
\* and the demand (the whole of coresim/node.cpp's slot arbitration).
THEOREM TypeCorrect == Spec => []TypeOK
  BY TypeInit, TypeStep, PTL DEF Spec

(***************************************************************************)
(* The inductive invariant of the arbitration and what follows from it.    *)
(* Each half of a reservation (uplink, downlink, core) is treated by one   *)
(* lemma on how a step may change the events that claim it: nothing,       *)
(* replace one by another of the same reservation, add one whose bits were *)
(* clear, or drop one together with its bits.                              *)
(***************************************************************************)

SrcOwned ==
  /\ host_is_src = {SrcBit(m) : m \in SrcClaims}
  /\ ToR2Agg = {UpBit(m) : m \in SrcClaims}
  /\ \A m, n \in SrcClaims :
       SrcBit(m) = SrcBit(n) \/ UpBit(m) = UpBit(n) => m = n

DstOwned ==
  /\ host_is_dst = {DstBit(m) : m \in DstClaims}
  /\ Agg2ToR = {DownBit(m) : m \in DstClaims}
  /\ \A m, n \in DstClaims :
       DstBit(m) = DstBit(n) \/ DownBit(m) = DownBit(n) => m = n

CoreOwned ==
  /\ CoreOccupationIn = {InBit(m) : m \in CoreClaims}
  /\ CoreOccupationOut = {OutBit(m) : m \in CoreClaims}
  /\ \A m, n \in CoreClaims :
       InBit(m) = InBit(n) \/ OutBit(m) = OutBit(n) => m = n

\* What a host accepted is not over yet.
TxCurrent == \A g \in tx : g.slot >= now

\* The inductive invariant.
IInv ==
  /\ TypeOK
  /\ SrcOwned /\ DstOwned /\ CoreOwned
  /\ OneTokenPerEntry
  /\ SwitchCarried
  /\ SchedulesBacked
  /\ TxCurrent
  /\ ArbitersNeverFail

(***************************************************************************)
(* How the claims may change.                                              *)
(***************************************************************************)
LEMMA SrcSteps ==
  ASSUME SrcOwned
  PROVE
  /\ /\ SrcClaims' = SrcClaims
     /\ host_is_src' = host_is_src /\ ToR2Agg' = ToR2Agg
     => SrcOwned'
  /\ \A m \in SrcClaims : \A r :
       /\ SrcClaims' = (SrcClaims \ {m}) \union {r}
       /\ SrcBit(r) = SrcBit(m) /\ UpBit(r) = UpBit(m)
       /\ host_is_src' = host_is_src /\ ToR2Agg' = ToR2Agg
       => SrcOwned'
  /\ \A r :
       /\ SrcClaims' = SrcClaims \union {r}
       /\ SrcBit(r) \notin host_is_src /\ UpBit(r) \notin ToR2Agg
       /\ host_is_src' = host_is_src \union {SrcBit(r)}
       /\ ToR2Agg' = ToR2Agg \union {UpBit(r)}
       => SrcOwned'
  /\ \A m \in SrcClaims :
       /\ SrcClaims' = SrcClaims \ {m}
       /\ host_is_src' = host_is_src \ {SrcBit(m)}
       /\ ToR2Agg' = ToR2Agg \ {UpBit(m)}
       => SrcOwned'
  BY DEF SrcOwned

LEMMA DstSteps ==
  ASSUME DstOwned
  PROVE
  /\ /\ DstClaims' = DstClaims
     /\ host_is_dst' = host_is_dst /\ Agg2ToR' = Agg2ToR
     => DstOwned'
  /\ \A m \in DstClaims : \A r :
       /\ DstClaims' = (DstClaims \ {m}) \union {r}
       /\ DstBit(r) = DstBit(m) /\ DownBit(r) = DownBit(m)
       /\ host_is_dst' = host_is_dst /\ Agg2ToR' = Agg2ToR
       => DstOwned'
  /\ \A r :
       /\ DstClaims' = DstClaims \union {r}
       /\ DstBit(r) \notin host_is_dst /\ DownBit(r) \notin Agg2ToR
       /\ host_is_dst' = host_is_dst \union {DstBit(r)}
       /\ Agg2ToR' = Agg2ToR \union {DownBit(r)}
       => DstOwned'
  /\ \A m \in DstClaims :
       /\ DstClaims' = DstClaims \ {m}
       /\ host_is_dst' = host_is_dst \ {DstBit(m)}
       /\ Agg2ToR' = Agg2ToR \ {DownBit(m)}
       => DstOwned'
  BY DEF DstOwned

LEMMA CoreSteps ==
  ASSUME CoreOwned
  PROVE
  /\ /\ CoreClaims' = CoreClaims
     /\ CoreOccupationIn' = CoreOccupationIn
     /\ CoreOccupationOut' = CoreOccupationOut
     => CoreOwned'
  /\ \A m \in CoreClaims : \A r :
       /\ CoreClaims' = (CoreClaims \ {m}) \union {r}
       /\ InBit(r) = InBit(m) /\ OutBit(r) = OutBit(m)
       /\ CoreOccupationIn' = CoreOccupationIn
       /\ CoreOccupationOut' = CoreOccupationOut
       => CoreOwned'
  /\ \A r :
       /\ CoreClaims' = CoreClaims \union {r}
       /\ InBit(r) \notin CoreOccupationIn /\ OutBit(r) \notin CoreOccupationOut
       /\ CoreOccupationIn' = CoreOccupationIn \union {InBit(r)}
       /\ CoreOccupationOut' = CoreOccupationOut \union {OutBit(r)}
       => CoreOwned'
  /\ \A m \in CoreClaims :
       /\ CoreClaims' = CoreClaims \ {m}
       /\ CoreOccupationIn' = CoreOccupationIn \ {InBit(m)}
       /\ CoreOccupationOut' = CoreOccupationOut \ {OutBit(m)}
       => CoreOwned'
  BY DEF CoreOwned

(***************************************************************************)
(* How the tokens of the entries may change.                               *)
(***************************************************************************)

\* The reservation of a pair goes on with another event, or is left alone.
LEMMA TokenSteps ==
  ASSUME OneTokenPerEntry, routing_table' = routing_table
  PROVE
  /\ (\A q \in Pair : Tokens(q)' = Tokens(q)) => OneTokenPerEntry'
  /\ \A p \in Pair : \A m \in Tokens(p) : \A r :
       /\ Tokens(p)' = (Tokens(p) \ {m}) \union {r}
       /\ r.slot = m.slot /\ r.src_agg = m.src_agg
       /\ \A q \in Pair \ {p} : Tokens(q)' = Tokens(q)
       => OneTokenPerEntry'
  BY DEF OneTokenPerEntry

\* The reservation of a pair is over.
LEMMA TokenSettled ==
  ASSUME OneTokenPerEntry, TypeOK, NEW p \in Pair, NEW m \in Tokens(p),
         routing_table' = [routing_table EXCEPT ![p] = None],
         Tokens(p)' = Tokens(p) \ {m},
         \A q \in Pair \ {p} : Tokens(q)' = Tokens(q)
  PROVE  OneTokenPerEntry'
  <1>1. Tokens(p) = {m}
    BY DEF OneTokenPerEntry
  <1>2. routing_table'[p] = None
    BY DEF TypeOK
  <1>3. \A q \in Pair \ {p} : routing_table'[q] = routing_table[q]
    BY DEF TypeOK
  <1> QED
    BY <1>1, <1>2, <1>3 DEF OneTokenPerEntry

\* A pair without entry gets an entry and its event.
LEMMA TokenNew ==
  ASSUME OneTokenPerEntry, TypeOK, NEW p \in Pair, NEW r, NEW e \in Entry,
         routing_table[p] = None,
         routing_table' = [routing_table EXCEPT ![p] = e],
         r.slot = e.slot, r.src_agg = e.src_agg,
         Tokens(p)' = Tokens(p) \union {r},
         \A q \in Pair \ {p} : Tokens(q)' = Tokens(q)
  PROVE  OneTokenPerEntry'
  <1>1. Tokens(p) = {}
    BY DEF OneTokenPerEntry
  <1>2. routing_table'[p] = e /\ e # None
    BY NoneAssumption DEF TypeOK
  <1>3. \A q \in Pair \ {p} : routing_table'[q] = routing_table[q]
    BY DEF TypeOK
  <1> QED
    BY <1>1, <1>2, <1>3 DEF OneTokenPerEntry

\* An event that replaces another keeps its pair and its bits.
LEMMA SameBits ==
  ASSUME NEW m \in Event, NEW t \in EventType
  PROVE  LET r == [m EXCEPT !.type = t] IN
         /\ r \in Event /\ r.type = t /\ PairOf(r) = PairOf(m)
         /\ r.src = m.src /\ r.dst = m.dst /\ r.slot = m.slot
         /\ r.src_agg = m.src_agg /\ r.dst_agg = m.dst_agg
         /\ SrcBit(r) = SrcBit(m) /\ UpBit(r) = UpBit(m)
         /\ DstBit(r) = DstBit(m) /\ DownBit(r) = DownBit(m)
         /\ InBit(r) = InBit(m) /\ OutBit(r) = OutBit(m)
  BY DEF Event, PairOf, SrcBit, UpBit, DstBit, DownBit, InBit, OutBit

\* The claims and tokens are events of the queue, by type.
LEMMA ClaimsAndTokens ==
  ASSUME TypeOK, NEW m \in pending
  PROVE  /\ m \in Event /\ PairOf(m) \in Pair
         /\ m.type \in SrcTypes => m \in SrcClaims
         /\ m.type \in DstTypes => m \in DstClaims
         /\ m.type \in CoreTypes => m \in CoreClaims
         /\ m.type \in TokenTypes => m \in Tokens(PairOf(m))
  BY DEF TypeOK, SrcClaims, DstClaims, CoreClaims, Tokens

(***************************************************************************)
(* Schedules: a step that keeps the restores still due and adds no         *)
(* schedule keeps them backed.                                             *)
(***************************************************************************)
LEMMA BackedKept ==
  ASSUME SchedulesBacked, TypeOK, grants' \union tx' \subseteq grants \union tx,
         now' = now \/ now' = now + 1,
         \A m \in pending : m.type = "RESTORE_LINK" /\ m.slot >= now'
                             => m \in pending'
  PROVE  SchedulesBacked'
  <1> SUFFICES ASSUME NEW g \in grants \union tx, g.slot >= now'
               PROVE  \E m \in pending' :
                        /\ m.type = "RESTORE_LINK"
                        /\ m.src = g.src /\ m.dst = g.dst /\ m.slot = g.slot
                        /\ m.src_agg = g.src_agg /\ m.dst_agg = g.dst_agg
                        /\ g.core = CoreOf[<<m.src_agg, m.dst_agg>>]
    BY DEF SchedulesBacked
  <1>1. g.slot >= now
    BY DEF TypeOK, Schedule
  <1>2. PICK m \in pending :
          /\ m.type = "RESTORE_LINK"
          /\ m.src = g.src /\ m.dst = g.dst /\ m.slot = g.slot
          /\ m.src_agg = g.src_agg /\ m.dst_agg = g.dst_agg
          /\ g.core = CoreOf[<<m.src_agg, m.dst_agg>>]
    BY <1>1 DEF SchedulesBacked
  <1>3. m \in pending'
    BY <1>2
  <1> QED
    BY <1>2, <1>3

(***************************************************************************)
(* One lemma per kind of step.                                             *)
(***************************************************************************)

\* Steps that touch neither the tables nor the queue of events: an RTS, the
\* start of a loop, a visit without effect, a schedule received, a slot passing.
LEMMA IdleStep ==
  ASSUME IInv, TypeOK', UNCHANGED <<tables, routing_table, pending>>,
         now' = now \/ now' = now + 1,
         grants' \union tx' \subseteq grants \union tx,
         TxCurrent', ArbitersNeverFail'
  PROVE  IInv'
  <1> USE DEF IInv
  <1>1. /\ SrcClaims' = SrcClaims /\ DstClaims' = DstClaims
        /\ CoreClaims' = CoreClaims /\ \A q \in Pair : Tokens(q)' = Tokens(q)
    BY DEF SrcClaims, DstClaims, CoreClaims, Tokens
  <1>2. SrcOwned' /\ DstOwned' /\ CoreOwned'
    BY <1>1, SrcSteps, DstSteps, CoreSteps DEF tables
  <1>3. OneTokenPerEntry'
    BY <1>1, TokenSteps
  <1>4. SwitchCarried'
    BY DEF SwitchCarried, IpsDelivered
  <1>5. SchedulesBacked'
    BY BackedKept
  <1> QED
    BY <1>2, <1>3, <1>4, <1>5

\* An entry is filled and its event queued.  SwitchCarried only reads the entries
\* of pairs with a token, and the pair had none.
LEMMA SwitchCarriedNew ==
  ASSUME IInv, NEW p \in Pair, NEW r \in Event, NEW e \in Entry,
         routing_table[p] = None, PairOf(r) = p,
         routing_table' = [routing_table EXCEPT ![p] = e],
         pending' = pending \union {r},
         \/ r.type = "IPR"
         \/ r.type = "CORE_RTS" /\ e.dst_agg = r.dst_agg
  PROVE  SwitchCarried'
  <1> USE DEF IInv
  <1> SUFFICES ASSUME NEW m \in pending'
               PROVE  /\ m.type = "IPS" =>
                           [m EXCEPT !.type = "CORE_RTS"] \in pending'
                      /\ m.type = "CORE_SCHD"
                           \/ (m.type = "CORE_RTS" /\ IpsDelivered(m)') =>
                           /\ routing_table'[PairOf(m)] # None
                           /\ routing_table'[PairOf(m)].dst_agg = m.dst_agg
    BY DEF SwitchCarried
  <1>1. e # None /\ routing_table'[p] = e
    BY NoneAssumption DEF TypeOK
  <1>2. CASE m = r
    BY <1>1, <1>2
  <1>3. CASE m \in pending
    <2>1. m.type = "IPS" => [m EXCEPT !.type = "CORE_RTS"] \in pending'
      BY <1>3 DEF SwitchCarried
    <2>2. ASSUME m.type = "CORE_SCHD"
                 \/ (m.type = "CORE_RTS" /\ IpsDelivered(m)')
          PROVE  /\ routing_table'[PairOf(m)] # None
                 /\ routing_table'[PairOf(m)].dst_agg = m.dst_agg
      <3>1. m \in Tokens(PairOf(m)) /\ PairOf(m) \in Pair
        BY <1>3, <2>2, ClaimsAndTokens DEF TokenTypes
      <3>2. PairOf(m) # p
        BY <3>1 DEF OneTokenPerEntry
      <3>3. routing_table'[PairOf(m)] = routing_table[PairOf(m)]
        BY <3>1, <3>2 DEF TypeOK
      <3>4. m.type = "CORE_SCHD" \/ (m.type = "CORE_RTS" /\ IpsDelivered(m))
        BY <2>2 DEF IpsDelivered
      <3> QED
        BY <1>3, <3>3, <3>4 DEF SwitchCarried
    <2> QED
      BY <2>1, <2>2
  <1> QED
    BY <1>2, <1>3

LEMMA RequestDownlinkStep ==
  ASSUME IInv, TypeOK', NEW p \in Pair, RequestDownlink(p)
  PROVE  IInv'
  <1> USE DEF IInv
  <1>1. PICK s \in Nat, a \in Agg :
          LET m == NewEvent("IPR", p, s, a, None) IN
          /\ a \in FreeAggs(s, p[1]) /\ UplinkFree(s, p[1])
          /\ host_is_src' = host_is_src \union {SrcBit(m)}
          /\ ToR2Agg' = ToR2Agg \union {UpBit(m)}
          /\ routing_table' =
               [routing_table EXCEPT ![p] =
                  [slot |-> s, src_agg |-> a, dst_agg |-> None]]
          /\ pending' = pending \union {m}
    BY SearchTypes DEF RequestDownlink, FirstFree
  <1> DEFINE r == NewEvent("IPR", p, s, a, None)
             e == [slot |-> s, src_agg |-> a, dst_agg |-> None]
  <1>2. r \in Event /\ PairOf(r) = p
    BY NewEventType DEF EventType
  <1>3. /\ r.type = "IPR" /\ r.slot = s /\ r.src_agg = a /\ r.src = p[1]
        /\ e \in Entry /\ e.slot = s /\ e.src_agg = a
    BY DEF NewEvent, Entry
  <1>4. SrcBit(r) \notin host_is_src /\ UpBit(r) \notin ToR2Agg
    BY <1>1, <1>3 DEF SrcBit, UpBit, FreeAggs, UplinkFree
  <1>5. /\ routing_table[p] = None
        /\ routing_table' = [routing_table EXCEPT ![p] = e]
        /\ pending' = pending \union {r}
        /\ host_is_src' = host_is_src \union {SrcBit(r)}
        /\ ToR2Agg' = ToR2Agg \union {UpBit(r)}
        /\ UNCHANGED <<host_is_dst, Agg2ToR, CoreOccupationIn, CoreOccupationOut,
                       now, grants, tx, failed>>
    BY <1>1 DEF RequestDownlink, Unbooked, Visit
  <1> HIDE DEF r, e
  <1>6. /\ SrcClaims' = SrcClaims \union {r} /\ DstClaims' = DstClaims
        /\ CoreClaims' = CoreClaims
        /\ Tokens(p)' = Tokens(p) \union {r}
        /\ \A q \in Pair \ {p} : Tokens(q)' = Tokens(q)
    BY <1>2, <1>3, <1>5
    DEF SrcClaims, DstClaims, CoreClaims, Tokens, SrcTypes, DstTypes, CoreTypes,
        TokenTypes
  <1>7. SrcOwned' /\ DstOwned' /\ CoreOwned'
    BY <1>4, <1>5, <1>6, SrcSteps, DstSteps, CoreSteps
  <1>8. OneTokenPerEntry'
    BY <1>3, <1>5, <1>6, TokenNew
  <1>9. SwitchCarried'
    BY <1>2, <1>3, <1>5, SwitchCarriedNew
  <1>10. SchedulesBacked'
    BY <1>5, BackedKept
  <1>11. TxCurrent' /\ ArbitersNeverFail'
    BY <1>5 DEF TxCurrent, ArbitersNeverFail
  <1> QED
    BY <1>7, <1>8, <1>9, <1>10, <1>11

LEMMA AllocateSamePodStep ==
  ASSUME IInv, TypeOK', NEW p \in Pair, AllocateSamePod(p)
  PROVE  IInv'
  <1> USE DEF IInv
  <1>1. PICK s \in Nat, a \in Agg :
          LET m == NewEvent("CORE_RTS", p, s, a, a) IN
          /\ a \in FreeAggs(s, p[1]) /\ UplinkFree(s, p[1])
          /\ DstBit(m) \notin host_is_dst /\ DownBit(m) \notin Agg2ToR
          /\ host_is_src' = host_is_src \union {SrcBit(m)}
          /\ ToR2Agg' = ToR2Agg \union {UpBit(m)}
          /\ host_is_dst' = host_is_dst \union {DstBit(m)}
          /\ Agg2ToR' = Agg2ToR \union {DownBit(m)}
          /\ routing_table' =
               [routing_table EXCEPT ![p] =
                  [slot |-> s, src_agg |-> a, dst_agg |-> a]]
          /\ pending' = pending \union {m}
    BY SearchTypes DEF AllocateSamePod, FirstFree
  <1> DEFINE r == NewEvent("CORE_RTS", p, s, a, a)
             e == [slot |-> s, src_agg |-> a, dst_agg |-> a]
  <1>2. r \in Event /\ PairOf(r) = p
    BY NewEventType DEF EventType
  <1>3. /\ r.type = "CORE_RTS" /\ r.slot = s /\ r.src_agg = a /\ r.src = p[1]
        /\ e.dst_agg = r.dst_agg
        /\ e \in Entry /\ e.slot = s /\ e.src_agg = a
    BY DEF NewEvent, Entry
  <1>4. SrcBit(r) \notin host_is_src /\ UpBit(r) \notin ToR2Agg
    BY <1>1, <1>3 DEF SrcBit, UpBit, FreeAggs, UplinkFree
  <1>5. /\ routing_table[p] = None
        /\ routing_table' = [routing_table EXCEPT ![p] = e]
        /\ pending' = pending \union {r}
        /\ host_is_src' = host_is_src \union {SrcBit(r)}
        /\ ToR2Agg' = ToR2Agg \union {UpBit(r)}
        /\ DstBit(r) \notin host_is_dst /\ DownBit(r) \notin Agg2ToR
        /\ host_is_dst' = host_is_dst \union {DstBit(r)}
        /\ Agg2ToR' = Agg2ToR \union {DownBit(r)}
        /\ UNCHANGED <<CoreOccupationIn, CoreOccupationOut, now, grants, tx,
                       failed>>
    BY <1>1 DEF AllocateSamePod, Unbooked, Visit
  <1> HIDE DEF r, e
  <1>6. /\ SrcClaims' = SrcClaims \union {r} /\ DstClaims' = DstClaims \union {r}
        /\ CoreClaims' = CoreClaims
        /\ Tokens(p)' = Tokens(p) \union {r}
        /\ \A q \in Pair \ {p} : Tokens(q)' = Tokens(q)
    BY <1>2, <1>3, <1>5
    DEF SrcClaims, DstClaims, CoreClaims, Tokens, SrcTypes, DstTypes, CoreTypes,
        TokenTypes
  <1>7. SrcOwned' /\ DstOwned' /\ CoreOwned'
    BY <1>4, <1>5, <1>6, SrcSteps, DstSteps, CoreSteps
  <1>8. OneTokenPerEntry'
    BY <1>3, <1>5, <1>6, TokenNew
  <1>9. SwitchCarried'
    BY <1>2, <1>3, <1>5, SwitchCarriedNew
  <1>10. SchedulesBacked'
    BY <1>5, BackedKept
  <1>11. TxCurrent' /\ ArbitersNeverFail'
    BY <1>5 DEF TxCurrent, ArbitersNeverFail
  <1> QED
    BY <1>7, <1>8, <1>9, <1>10, <1>11

\* Steps that take an event away from the queue, put events in that are neither
\* IPS nor CORE_RTS, and leave the entries of the pairs whose core request or
\* core schedule is still pending.
LEMMA SwitchCarriedKept ==
  ASSUME SwitchCarried, TypeOK,
         \A m \in pending' :
           m \in pending \/ m.type \notin {"IPS", "CORE_RTS", "CORE_SCHD"},
         \A m \in pending : m.type \in {"IPS", "CORE_RTS"} => m \in pending',
         \A m \in pending' : m.type \in {"CORE_RTS", "CORE_SCHD"} =>
           routing_table'[PairOf(m)] = routing_table[PairOf(m)]
  PROVE  SwitchCarried'
  <1>1. \A m \in Event : [m EXCEPT !.type = "CORE_RTS"].type = "CORE_RTS"
    BY DEF Event
  <1>2. \A m \in Event : [m EXCEPT !.type = "IPS"].type = "IPS"
    BY DEF Event
  <1> QED
    BY <1>1, <1>2 DEF SwitchCarried, IpsDelivered, TypeOK

LEMMA GrantDownlinkStep ==
  ASSUME IInv, TypeOK', NEW m \in pending, GrantDownlink(m)
  PROVE  IInv'
  <1> USE DEF IInv
  <1>1. PICK b \in Agg :
          LET r == [m EXCEPT !.type = "CORE_RTS", !.dst_agg = b] IN
          /\ b \in FreeDownAggs(m)
          /\ host_is_dst' = host_is_dst \union {DstBit(r)}
          /\ Agg2ToR' = Agg2ToR \union {DownBit(r)}
          /\ Become(m, {r, [r EXCEPT !.type = "IPS"]})
    BY ClaimsAndTokens, SearchTypes, SlotAssumption DEF GrantDownlink
  <1> DEFINE r == [m EXCEPT !.type = "CORE_RTS", !.dst_agg = b]
             i == [r EXCEPT !.type = "IPS"]
  <1>2. /\ m \in Event /\ PairOf(m) \in Pair /\ m.type = "IPR"
        /\ m \in SrcClaims /\ m \in Tokens(PairOf(m))
    BY ClaimsAndTokens DEF GrantDownlink, Take, SrcTypes, TokenTypes
  <1>3. /\ r \in Event /\ r.type = "CORE_RTS" /\ PairOf(r) = PairOf(m)
        /\ r.slot = m.slot /\ r.src_agg = m.src_agg /\ r.dst_agg = b
        /\ SrcBit(r) = SrcBit(m) /\ UpBit(r) = UpBit(m) /\ DstBit(r) = DstBit(m)
        /\ DownBit(r) = <<Idx(m.slot), b, TorOf[m.dst]>>
    BY <1>2 DEF Event, EventType, PairOf, SrcBit, UpBit, DstBit, DownBit
  <1>4. /\ i.type = "IPS" /\ PairOf(i) = PairOf(m)
        /\ [i EXCEPT !.type = "CORE_RTS"] = r
        /\ [r EXCEPT !.type = "IPS"] = i
    BY <1>2, <1>3 DEF Event, EventType, PairOf
  <1>5. DstBit(r) \notin host_is_dst /\ DownBit(r) \notin Agg2ToR
    BY <1>1, <1>3 DEF GrantDownlink, DownlinkFree, FreeDownAggs
  <1>6. /\ host_is_dst' = host_is_dst \union {DstBit(r)}
        /\ Agg2ToR' = Agg2ToR \union {DownBit(r)}
        /\ pending' = (pending \ {m}) \union {r, i}
        /\ UNCHANGED <<host_is_src, ToR2Agg, CoreOccupationIn,
                       CoreOccupationOut, routing_table, now, grants, tx, failed>>
    BY <1>1 DEF GrantDownlink, Become
  <1> HIDE DEF r, i
  <1>7. /\ SrcClaims' = (SrcClaims \ {m}) \union {r}
        /\ DstClaims' = DstClaims \union {r}
        /\ CoreClaims' = CoreClaims
        /\ Tokens(PairOf(m))' = (Tokens(PairOf(m)) \ {m}) \union {r}
        /\ \A q \in Pair \ {PairOf(m)} : Tokens(q)' = Tokens(q)
    BY <1>2, <1>3, <1>4, <1>6
    DEF SrcClaims, DstClaims, CoreClaims, Tokens, SrcTypes, DstTypes, CoreTypes,
        TokenTypes
  <1>8. SrcOwned' /\ DstOwned' /\ CoreOwned'
    BY <1>2, <1>3, <1>5, <1>6, <1>7, SrcSteps, DstSteps, CoreSteps
  <1>9. OneTokenPerEntry'
    BY <1>2, <1>3, <1>6, <1>7, TokenSteps
  <1>10. SwitchCarried'
    <2> SUFFICES ASSUME NEW n \in pending'
                 PROVE  /\ n.type = "IPS" =>
                             [n EXCEPT !.type = "CORE_RTS"] \in pending'
                        /\ n.type = "CORE_SCHD"
                             \/ (n.type = "CORE_RTS" /\ IpsDelivered(n)') =>
                             /\ routing_table'[PairOf(n)] # None
                             /\ routing_table'[PairOf(n)].dst_agg = n.dst_agg
      BY DEF SwitchCarried
    <2>1. CASE n = r
      BY <1>3, <1>4, <1>6, <2>1 DEF IpsDelivered
    <2>2. CASE n = i
      BY <1>4, <1>6, <2>2
    <2>3. CASE n \in pending
      <3>1. n.type = "IPS" => [n EXCEPT !.type = "CORE_RTS"] \in pending'
        <4>1. n \in Event
          BY <2>3 DEF TypeOK
        <4>2. [n EXCEPT !.type = "CORE_RTS"] # m
          BY <1>2, <4>1 DEF Event
        <4> QED
          BY <1>6, <2>3, <4>2 DEF SwitchCarried
      <3>2. n.type = "CORE_RTS" /\ IpsDelivered(n)' =>
              n.type = "CORE_RTS" /\ IpsDelivered(n)
        <4>1. n \in Event
          BY <2>3 DEF TypeOK
        <4>2. [n EXCEPT !.type = "IPS"] # m
          BY <1>2, <4>1 DEF Event
        <4> QED
          BY <1>6, <4>2 DEF IpsDelivered
      <3> QED
        BY <1>6, <2>3, <3>1, <3>2 DEF SwitchCarried
    <2> QED
      BY <1>6, <2>1, <2>2, <2>3
  <1>11. SchedulesBacked'
    BY <1>2, <1>6, BackedKept
  <1>12. TxCurrent' /\ ArbitersNeverFail'
    BY <1>6 DEF TxCurrent, ArbitersNeverFail
  <1> QED
    BY <1>8, <1>9, <1>10, <1>11, <1>12

LEMMA DenyDownlinkStep ==
  ASSUME IInv, TypeOK', NEW m \in pending, DenyDownlink(m)
  PROVE  IInv'
  <1> USE DEF IInv
  <1> DEFINE r == [m EXCEPT !.type = "IPD"]
  <1>1. /\ m \in Event /\ PairOf(m) \in Pair /\ m.type = "IPR"
        /\ m \in SrcClaims /\ m \in Tokens(PairOf(m))
    BY ClaimsAndTokens DEF DenyDownlink, Take, SrcTypes, TokenTypes
  <1>2. /\ r \in Event /\ r.type = "IPD" /\ PairOf(r) = PairOf(m)
        /\ r.slot = m.slot /\ r.src_agg = m.src_agg
        /\ SrcBit(r) = SrcBit(m) /\ UpBit(r) = UpBit(m)
    BY <1>1, SameBits DEF EventType
  <1>3. /\ pending' = (pending \ {m}) \union {r}
        /\ UNCHANGED <<tables, routing_table, now, grants, tx, failed>>
    BY DEF DenyDownlink, Become
  <1> HIDE DEF r
  <1>4. /\ SrcClaims' = (SrcClaims \ {m}) \union {r}
        /\ DstClaims' = DstClaims /\ CoreClaims' = CoreClaims
        /\ Tokens(PairOf(m))' = (Tokens(PairOf(m)) \ {m}) \union {r}
        /\ \A q \in Pair \ {PairOf(m)} : Tokens(q)' = Tokens(q)
    BY <1>1, <1>2, <1>3
    DEF SrcClaims, DstClaims, CoreClaims, Tokens, SrcTypes, DstTypes, CoreTypes,
        TokenTypes
  <1>5. SrcOwned' /\ DstOwned' /\ CoreOwned'
    BY <1>1, <1>2, <1>3, <1>4, SrcSteps, DstSteps, CoreSteps DEF tables
  <1>6. OneTokenPerEntry'
    BY <1>1, <1>2, <1>3, <1>4, TokenSteps
  <1>7. SwitchCarried'
    BY <1>1, <1>2, <1>3, SwitchCarriedKept
  <1>8. SchedulesBacked'
    BY <1>1, <1>3, BackedKept
  <1>9. TxCurrent' /\ ArbitersNeverFail'
    BY <1>3 DEF TxCurrent, ArbitersNeverFail
  <1> QED
    BY <1>5, <1>6, <1>7, <1>8, <1>9

\* The uplink is taken back, for a refused downlink or a refused core link: the
\* asserts of take_back_link hold.
LEMMA ReleaseUplinkStep ==
  ASSUME IInv, TypeOK', NEW m \in pending, ReceiveIpd(m) \/ ReceiveDenySrc(m)
  PROVE  IInv'
  <1> USE DEF IInv
  <1>1. /\ m \in Event /\ PairOf(m) \in Pair /\ m.type \in {"IPD", "DENY_SRC"}
        /\ m \in SrcClaims /\ m \in Tokens(PairOf(m))
    BY ClaimsAndTokens
    DEF ReceiveIpd, ReceiveDenySrc, Take, SrcTypes, TokenTypes
  <1>2. SrcBit(m) \in host_is_src /\ UpBit(m) \in ToR2Agg
    BY <1>1 DEF SrcOwned
  <1>3. /\ pending' = pending \ {m}
        /\ host_is_src' = host_is_src \ {SrcBit(m)}
        /\ ToR2Agg' = ToR2Agg \ {UpBit(m)}
        /\ routing_table' = [routing_table EXCEPT ![PairOf(m)] = None]
        /\ UNCHANGED <<host_is_dst, Agg2ToR, CoreOccupationIn,
                       CoreOccupationOut, now, grants, tx, failed>>
    BY <1>2 DEF ReceiveIpd, ReceiveDenySrc, ReleaseUplink, Check, Become
  <1>4. /\ SrcClaims' = SrcClaims \ {m}
        /\ DstClaims' = DstClaims /\ CoreClaims' = CoreClaims
        /\ Tokens(PairOf(m))' = Tokens(PairOf(m)) \ {m}
        /\ \A q \in Pair \ {PairOf(m)} : Tokens(q)' = Tokens(q)
    BY <1>1, <1>3
    DEF SrcClaims, DstClaims, CoreClaims, Tokens, SrcTypes, DstTypes, CoreTypes,
        TokenTypes
  <1>5. SrcOwned' /\ DstOwned' /\ CoreOwned'
    BY <1>1, <1>3, <1>4, SrcSteps, DstSteps, CoreSteps
  <1>6. OneTokenPerEntry'
    BY <1>1, <1>3, <1>4, TokenSettled
  <1>7. SwitchCarried'
    <2>1. \A n \in pending' : n.type \in {"CORE_RTS", "CORE_SCHD"} =>
            PairOf(n) \in Pair \ {PairOf(m)}
      BY <1>1, <1>3, ClaimsAndTokens DEF OneTokenPerEntry, TokenTypes
    <2>2. \A n \in pending' : n.type \in {"CORE_RTS", "CORE_SCHD"} =>
            routing_table'[PairOf(n)] = routing_table[PairOf(n)]
      BY <1>3, <2>1 DEF TypeOK
    <2> QED
      BY <1>1, <1>3, <2>2, SwitchCarriedKept
  <1>8. SchedulesBacked'
    BY <1>1, <1>3, BackedKept
  <1>9. TxCurrent' /\ ArbitersNeverFail'
    BY <1>3 DEF TxCurrent, ArbitersNeverFail
  <1> QED
    BY <1>5, <1>6, <1>7, <1>8, <1>9

\* The IPS finds its entry, for the same slot: its CORE_RTS is the event of it.
LEMMA ReceiveIpsStep ==
  ASSUME IInv, TypeOK', NEW m \in pending, ReceiveIps(m)
  PROVE  IInv'
  <1> USE DEF IInv
  <1> DEFINE p == PairOf(m)
             c == [m EXCEPT !.type = "CORE_RTS"]
             e == routing_table[p]
  <1>1. m \in Event /\ p \in Pair /\ m.type = "IPS"
    BY ClaimsAndTokens DEF ReceiveIps, Take
  <1>2. /\ c \in pending /\ c.type = "CORE_RTS" /\ PairOf(c) = p
        /\ c.slot = m.slot /\ c.dst_agg = m.dst_agg
        /\ [c EXCEPT !.type = "IPS"] = m
    <2>1. c \in pending
      BY <1>1 DEF SwitchCarried
    <2> QED
      BY <1>1, <2>1 DEF Event, EventType, PairOf
  <1>3. c \in Tokens(p)
    BY <1>2, ClaimsAndTokens DEF TokenTypes
  <1> HIDE DEF c, p
  <1>4. e # None /\ e.slot = m.slot /\ e \in Entry
    BY <1>1, <1>2, <1>3 DEF OneTokenPerEntry, TypeOK
  <1>5. /\ pending' = pending \ {m}
        /\ routing_table' = [routing_table EXCEPT ![p] = EntryWithIps(e, m)]
        /\ UNCHANGED <<tables, now, grants, tx, failed>>
    BY <1>4 DEF ReceiveIps, Become, p
  <1>6. /\ EntryWithIps(e, m) \in Entry
        /\ EntryWithIps(e, m).slot = e.slot
        /\ EntryWithIps(e, m).src_agg = e.src_agg
        /\ EntryWithIps(e, m).dst_agg = m.dst_agg
    <2>1. m.dst_agg \in Agg \union {None}
      BY <1>1 DEF Event
    <2> QED
      BY <1>4, <2>1 DEF EntryWithIps, Entry
  <1>7. routing_table'[p] = EntryWithIps(e, m) /\ EntryWithIps(e, m) # None
    BY <1>1, <1>5, <1>6, NoneAssumption DEF TypeOK
  <1>8. \A q \in Pair \ {p} : routing_table'[q] = routing_table[q]
    BY <1>5 DEF TypeOK
  <1>9. /\ SrcClaims' = SrcClaims /\ DstClaims' = DstClaims
        /\ CoreClaims' = CoreClaims
        /\ \A q \in Pair : Tokens(q)' = Tokens(q)
    BY <1>1, <1>5
    DEF SrcClaims, DstClaims, CoreClaims, Tokens, SrcTypes, DstTypes, CoreTypes,
        TokenTypes
  <1> HIDE DEF c, e, p
  <1>10. SrcOwned' /\ DstOwned' /\ CoreOwned'
    BY <1>5, <1>9, SrcSteps, DstSteps, CoreSteps DEF tables
  <1>11. OneTokenPerEntry'
    BY <1>4, <1>6, <1>7, <1>8, <1>9 DEF OneTokenPerEntry, e
  <1>12. SwitchCarried'
    <2> SUFFICES ASSUME NEW n \in pending'
                 PROVE  /\ n.type = "IPS" =>
                             [n EXCEPT !.type = "CORE_RTS"] \in pending'
                        /\ n.type = "CORE_SCHD"
                             \/ (n.type = "CORE_RTS" /\ IpsDelivered(n)') =>
                             /\ routing_table'[PairOf(n)] # None
                             /\ routing_table'[PairOf(n)].dst_agg = n.dst_agg
      BY DEF SwitchCarried
    <2>1. n \in pending /\ n \in Event /\ PairOf(n) \in Pair
      BY <1>5, ClaimsAndTokens
    <2>2. n.type = "IPS" => [n EXCEPT !.type = "CORE_RTS"] \in pending'
      <3>1. [n EXCEPT !.type = "CORE_RTS"].type = "CORE_RTS"
        BY <2>1 DEF Event
      <3> QED
        BY <1>1, <1>5, <2>1, <3>1 DEF SwitchCarried
    <2>3. ASSUME n.type = "CORE_SCHD"
                 \/ (n.type = "CORE_RTS" /\ IpsDelivered(n)')
          PROVE  /\ routing_table'[PairOf(n)] # None
                 /\ routing_table'[PairOf(n)].dst_agg = n.dst_agg
      <3>1. n \in Tokens(PairOf(n))
        BY <2>1, <2>3, ClaimsAndTokens DEF TokenTypes
      <3>2. CASE PairOf(n) = p
        <4>1. n = c
          BY <1>1, <1>3, <3>1, <3>2 DEF OneTokenPerEntry
        <4> QED
          BY <1>2, <1>6, <1>7, <3>2, <4>1
      <3>3. CASE PairOf(n) # p
        <4>1. [n EXCEPT !.type = "IPS"] # m
          BY <2>1, <3>3 DEF PairOf, Event, p
        <4>2. n.type = "CORE_SCHD" \/ (n.type = "CORE_RTS" /\ IpsDelivered(n))
          BY <1>5, <2>3, <4>1 DEF IpsDelivered
        <4> QED
          BY <1>8, <2>1, <3>3, <4>2 DEF SwitchCarried
      <3> QED
        BY <3>2, <3>3
    <2> QED
      BY <2>2, <2>3
  <1>13. SchedulesBacked'
    BY <1>1, <1>5, BackedKept
  <1>14. TxCurrent' /\ ArbitersNeverFail'
    BY <1>5 DEF TxCurrent, ArbitersNeverFail
  <1> QED
    BY <1>10, <1>11, <1>12, <1>13, <1>14

LEMMA GrantCoreStep ==
  ASSUME IInv, TypeOK', NEW m \in pending, GrantCore(m)
  PROVE  IInv'
  <1> USE DEF IInv
  <1> DEFINE r == [m EXCEPT !.type = "CORE_SCHD"]
  <1>1. /\ m \in Event /\ PairOf(m) \in Pair /\ m.type = "CORE_RTS"
        /\ m \in SrcClaims /\ m \in DstClaims /\ m \in Tokens(PairOf(m))
        /\ IpsDelivered(m)
    BY ClaimsAndTokens DEF GrantCore, Take, SrcTypes, DstTypes, TokenTypes
  <1>2. /\ r \in Event /\ r.type = "CORE_SCHD" /\ PairOf(r) = PairOf(m)
        /\ r.slot = m.slot /\ r.src_agg = m.src_agg /\ r.dst_agg = m.dst_agg
        /\ SrcBit(r) = SrcBit(m) /\ UpBit(r) = UpBit(m)
        /\ DstBit(r) = DstBit(m) /\ DownBit(r) = DownBit(m)
        /\ InBit(r) = InBit(m) /\ OutBit(r) = OutBit(m)
    BY <1>1, SameBits DEF EventType
  <1>3. /\ pending' = (pending \ {m}) \union {r}
        /\ InBit(r) \notin CoreOccupationIn /\ OutBit(r) \notin CoreOccupationOut
        /\ CoreOccupationIn' = CoreOccupationIn \union {InBit(r)}
        /\ CoreOccupationOut' = CoreOccupationOut \union {OutBit(r)}
        /\ UNCHANGED <<host_is_src, ToR2Agg, host_is_dst, Agg2ToR,
                       routing_table, now, grants, tx, failed>>
    BY <1>2 DEF GrantCore, CoreFree, Become
  <1>4. [m EXCEPT !.type = "IPS"] \notin pending
    BY <1>1 DEF IpsDelivered
  <1> HIDE DEF r
  <1>5. /\ SrcClaims' = (SrcClaims \ {m}) \union {r}
        /\ DstClaims' = (DstClaims \ {m}) \union {r}
        /\ CoreClaims' = CoreClaims \union {r}
        /\ Tokens(PairOf(m))' = (Tokens(PairOf(m)) \ {m}) \union {r}
        /\ \A q \in Pair \ {PairOf(m)} : Tokens(q)' = Tokens(q)
    BY <1>1, <1>2, <1>3
    DEF SrcClaims, DstClaims, CoreClaims, Tokens, SrcTypes, DstTypes, CoreTypes,
        TokenTypes
  <1>6. SrcOwned' /\ DstOwned' /\ CoreOwned'
    BY <1>1, <1>2, <1>3, <1>5, SrcSteps, DstSteps, CoreSteps
  <1>7. OneTokenPerEntry'
    BY <1>1, <1>2, <1>3, <1>5, TokenSteps
  <1>8. SwitchCarried'
    <2> SUFFICES ASSUME NEW n \in pending'
                 PROVE  /\ n.type = "IPS" =>
                             [n EXCEPT !.type = "CORE_RTS"] \in pending'
                        /\ n.type = "CORE_SCHD"
                             \/ (n.type = "CORE_RTS" /\ IpsDelivered(n)') =>
                             /\ routing_table'[PairOf(n)] # None
                             /\ routing_table'[PairOf(n)].dst_agg = n.dst_agg
      BY DEF SwitchCarried
    <2>1. CASE n = r
      BY <1>1, <1>2, <1>3, <2>1 DEF SwitchCarried
    <2>2. CASE n \in pending
      <3>1. n \in Event
        BY <2>2 DEF TypeOK
      <3>2. n.type = "IPS" => [n EXCEPT !.type = "CORE_RTS"] # m
        BY <1>4, <2>2, <3>1 DEF Event
      <3>3. n.type = "IPS" => [n EXCEPT !.type = "CORE_RTS"] \in pending'
        BY <1>3, <2>2, <3>2 DEF SwitchCarried
      <3>4. [n EXCEPT !.type = "IPS"] # m
        BY <1>1, <3>1 DEF Event
      <3>5. IpsDelivered(n)' => IpsDelivered(n)
        BY <1>3, <3>4 DEF IpsDelivered
      <3> QED
        BY <1>3, <2>2, <3>3, <3>5 DEF SwitchCarried
    <2> QED
      BY <1>3, <2>1, <2>2
  <1>9. SchedulesBacked'
    BY <1>1, <1>3, BackedKept
  <1>10. TxCurrent' /\ ArbitersNeverFail'
    BY <1>3 DEF TxCurrent, ArbitersNeverFail
  <1> QED
    BY <1>6, <1>7, <1>8, <1>9, <1>10

LEMMA DenyCoreStep ==
  ASSUME IInv, TypeOK', NEW m \in pending, DenyCore(m)
  PROVE  IInv'
  <1> USE DEF IInv
  <1> DEFINE r == [m EXCEPT !.type = "DENY_SRC"]
             d == [m EXCEPT !.type = "DENY_DST"]
  <1>1. /\ m \in Event /\ PairOf(m) \in Pair /\ m.type = "CORE_RTS"
        /\ m \in SrcClaims /\ m \in DstClaims /\ m \in Tokens(PairOf(m))
        /\ IpsDelivered(m)
    BY ClaimsAndTokens DEF DenyCore, Take, SrcTypes, DstTypes, TokenTypes
  <1>2. /\ r.type = "DENY_SRC" /\ PairOf(r) = PairOf(m)
        /\ r.slot = m.slot /\ r.src_agg = m.src_agg
        /\ SrcBit(r) = SrcBit(m) /\ UpBit(r) = UpBit(m)
        /\ d.type = "DENY_DST" /\ PairOf(d) = PairOf(m)
        /\ DstBit(d) = DstBit(m) /\ DownBit(d) = DownBit(m)
    BY <1>1, SameBits DEF EventType
  <1>3. /\ pending' = (pending \ {m}) \union {r, d}
        /\ UNCHANGED <<tables, routing_table, now, grants, tx, failed>>
    BY DEF DenyCore, Become
  <1>4. [m EXCEPT !.type = "IPS"] \notin pending
    BY <1>1 DEF IpsDelivered
  <1> HIDE DEF r, d
  <1>5. /\ SrcClaims' = (SrcClaims \ {m}) \union {r}
        /\ DstClaims' = (DstClaims \ {m}) \union {d}
        /\ CoreClaims' = CoreClaims
        /\ Tokens(PairOf(m))' = (Tokens(PairOf(m)) \ {m}) \union {r}
        /\ \A q \in Pair \ {PairOf(m)} : Tokens(q)' = Tokens(q)
    BY <1>1, <1>2, <1>3
    DEF SrcClaims, DstClaims, CoreClaims, Tokens, SrcTypes, DstTypes, CoreTypes,
        TokenTypes
  <1>6. SrcOwned' /\ DstOwned' /\ CoreOwned'
    BY <1>1, <1>2, <1>3, <1>5, SrcSteps, DstSteps, CoreSteps DEF tables
  <1>7. OneTokenPerEntry'
    BY <1>1, <1>2, <1>3, <1>5, TokenSteps
  <1>8. SwitchCarried'
    <2> SUFFICES ASSUME NEW n \in pending,
                        n.type \in {"IPS", "CORE_RTS", "CORE_SCHD"}
                 PROVE  /\ n.type = "IPS" =>
                             [n EXCEPT !.type = "CORE_RTS"] \in pending'
                        /\ n.type = "CORE_SCHD"
                             \/ (n.type = "CORE_RTS" /\ IpsDelivered(n)') =>
                             /\ routing_table[PairOf(n)] # None
                             /\ routing_table[PairOf(n)].dst_agg = n.dst_agg
      BY <1>2, <1>3 DEF SwitchCarried
    <2>1. n \in Event
      BY DEF TypeOK
    <2>2. n.type = "IPS" => [n EXCEPT !.type = "CORE_RTS"] # m
      BY <1>4, <2>1 DEF Event
    <2>3. n.type = "IPS" => [n EXCEPT !.type = "CORE_RTS"] \in pending'
      BY <1>3, <2>2 DEF SwitchCarried
    <2>4. [n EXCEPT !.type = "IPS"] # m
      BY <1>1, <2>1 DEF Event
    <2>5. IpsDelivered(n)' => IpsDelivered(n)
      BY <1>3, <2>4 DEF IpsDelivered
    <2> QED
      BY <2>3, <2>5 DEF SwitchCarried
  <1>9. SchedulesBacked'
    BY <1>1, <1>3, BackedKept
  <1>10. TxCurrent' /\ ArbitersNeverFail'
    BY <1>3 DEF TxCurrent, ArbitersNeverFail
  <1> QED
    BY <1>6, <1>7, <1>8, <1>9, <1>10

\* The entry a core schedule completes exists and names the switches of its
\* reservation, so the schedule sent names the links of the restore queued.
LEMMA ReceiveCoreSchdStep ==
  ASSUME IInv, TypeOK', NEW m \in pending, ReceiveCoreSchd(m)
  PROVE  IInv'
  <1> USE DEF IInv
  <1> DEFINE p == PairOf(m)
             r == [m EXCEPT !.type = "RESTORE_LINK"]
             e == routing_table[p]
             g == [src |-> m.src, dst |-> m.dst, slot |-> e.slot,
                   src_agg |-> e.src_agg, dst_agg |-> e.dst_agg,
                   core |-> CoreOf[<<m.src_agg, m.dst_agg>>]]
  <1>1. /\ m \in Event /\ p \in Pair /\ m.type = "CORE_SCHD"
        /\ m \in SrcClaims /\ m \in DstClaims /\ m \in CoreClaims
        /\ m \in Tokens(p)
    BY ClaimsAndTokens
    DEF ReceiveCoreSchd, Take, SrcTypes, DstTypes, CoreTypes, TokenTypes
  <1>2. /\ r.type = "RESTORE_LINK" /\ PairOf(r) = p
        /\ r.src = m.src /\ r.dst = m.dst /\ r.slot = m.slot
        /\ r.src_agg = m.src_agg /\ r.dst_agg = m.dst_agg
        /\ SrcBit(r) = SrcBit(m) /\ UpBit(r) = UpBit(m)
        /\ DstBit(r) = DstBit(m) /\ DownBit(r) = DownBit(m)
        /\ InBit(r) = InBit(m) /\ OutBit(r) = OutBit(m)
    BY <1>1, SameBits DEF EventType
  <1>3. e # None /\ e.slot = m.slot /\ e.src_agg = m.src_agg
    BY <1>1 DEF OneTokenPerEntry
  <1>4. e.dst_agg = m.dst_agg
    BY <1>1 DEF SwitchCarried
  <1>5. /\ pending' = (pending \ {m}) \union {r}
        /\ grants' = grants \union {g}
        /\ routing_table' = [routing_table EXCEPT ![p] = None]
        /\ UNCHANGED <<tables, now, tx, failed>>
    BY <1>3 DEF ReceiveCoreSchd, Become
  <1>6. /\ g.src = r.src /\ g.dst = r.dst /\ g.slot = r.slot
        /\ g.src_agg = r.src_agg /\ g.dst_agg = r.dst_agg
        /\ g.core = CoreOf[<<r.src_agg, r.dst_agg>>]
    BY <1>2, <1>3, <1>4
  <1> HIDE DEF r, g, e, p
  <1>7. /\ SrcClaims' = (SrcClaims \ {m}) \union {r}
        /\ DstClaims' = (DstClaims \ {m}) \union {r}
        /\ CoreClaims' = (CoreClaims \ {m}) \union {r}
        /\ Tokens(p)' = Tokens(p) \ {m}
        /\ \A q \in Pair \ {p} : Tokens(q)' = Tokens(q)
    BY <1>1, <1>2, <1>5
    DEF SrcClaims, DstClaims, CoreClaims, Tokens, SrcTypes, DstTypes, CoreTypes,
        TokenTypes, p
  <1>8. SrcOwned' /\ DstOwned' /\ CoreOwned'
    BY <1>1, <1>2, <1>5, <1>7, SrcSteps, DstSteps, CoreSteps DEF tables
  <1>9. OneTokenPerEntry'
    BY <1>1, <1>5, <1>7, TokenSettled
  <1>10. SwitchCarried'
    <2>1. \A n \in pending' : n.type \in {"CORE_RTS", "CORE_SCHD"} =>
            n \in pending /\ n # m /\ n \in Tokens(PairOf(n)) /\ PairOf(n) \in Pair
      <3>1. m \notin pending'
        BY <1>1, <1>2, <1>5
      <3> QED
        BY <1>2, <1>5, <3>1, ClaimsAndTokens DEF TokenTypes
    <2>2. \A n \in pending' : n.type \in {"CORE_RTS", "CORE_SCHD"} =>
            PairOf(n) \in Pair \ {p}
      BY <1>1, <2>1 DEF OneTokenPerEntry
    <2>3. \A n \in pending' : n.type \in {"CORE_RTS", "CORE_SCHD"} =>
            routing_table'[PairOf(n)] = routing_table[PairOf(n)]
      BY <1>5, <2>2 DEF TypeOK
    <2> QED
      BY <1>1, <1>2, <1>5, <2>3, SwitchCarriedKept
  <1>11. SchedulesBacked'
    <2> SUFFICES ASSUME NEW h \in grants' \union tx', h.slot >= now'
                 PROVE  \E n \in pending' :
                          /\ n.type = "RESTORE_LINK"
                          /\ n.src = h.src /\ n.dst = h.dst /\ n.slot = h.slot
                          /\ n.src_agg = h.src_agg /\ n.dst_agg = h.dst_agg
                          /\ h.core = CoreOf[<<n.src_agg, n.dst_agg>>]
      BY DEF SchedulesBacked
    <2>1. CASE h = g
      BY <1>2, <1>5, <1>6, <2>1
    <2>2. CASE h \in grants \union tx
      <3>1. PICK n \in pending :
              /\ n.type = "RESTORE_LINK"
              /\ n.src = h.src /\ n.dst = h.dst /\ n.slot = h.slot
              /\ n.src_agg = h.src_agg /\ n.dst_agg = h.dst_agg
              /\ h.core = CoreOf[<<n.src_agg, n.dst_agg>>]
        BY <1>5, <2>2 DEF SchedulesBacked
      <3> QED
        BY <1>1, <1>5, <3>1
    <2> QED
      BY <1>5, <2>1, <2>2
  <1>12. TxCurrent' /\ ArbitersNeverFail'
    BY <1>5 DEF TxCurrent, ArbitersNeverFail
  <1> QED
    BY <1>8, <1>9, <1>10, <1>11, <1>12

\* The downlink is taken back: the asserts of take_back_link hold.
LEMMA ReceiveDenyDstStep ==
  ASSUME IInv, TypeOK', NEW m \in pending, ReceiveDenyDst(m)
  PROVE  IInv'
  <1> USE DEF IInv
  <1>1. /\ m \in Event /\ PairOf(m) \in Pair /\ m.type = "DENY_DST"
        /\ m \in DstClaims
    BY ClaimsAndTokens DEF ReceiveDenyDst, Take, DstTypes
  <1>2. DstBit(m) \in host_is_dst /\ DownBit(m) \in Agg2ToR
    BY <1>1 DEF DstOwned
  <1>3. /\ pending' = pending \ {m}
        /\ host_is_dst' = host_is_dst \ {DstBit(m)}
        /\ Agg2ToR' = Agg2ToR \ {DownBit(m)}
        /\ UNCHANGED <<host_is_src, ToR2Agg, CoreOccupationIn, CoreOccupationOut,
                       routing_table, now, grants, tx, failed>>
    BY <1>2 DEF ReceiveDenyDst, Check, Become
  <1>4. /\ SrcClaims' = SrcClaims /\ DstClaims' = DstClaims \ {m}
        /\ CoreClaims' = CoreClaims
        /\ \A q \in Pair : Tokens(q)' = Tokens(q)
    BY <1>1, <1>3
    DEF SrcClaims, DstClaims, CoreClaims, Tokens, SrcTypes, DstTypes, CoreTypes,
        TokenTypes
  <1>5. SrcOwned' /\ DstOwned' /\ CoreOwned'
    BY <1>1, <1>3, <1>4, SrcSteps, DstSteps, CoreSteps
  <1>6. OneTokenPerEntry'
    BY <1>3, <1>4, TokenSteps
  <1>7. SwitchCarried'
    BY <1>1, <1>3, SwitchCarriedKept
  <1>8. SchedulesBacked'
    BY <1>1, <1>3, BackedKept
  <1>9. TxCurrent' /\ ArbitersNeverFail'
    BY <1>3 DEF TxCurrent, ArbitersNeverFail
  <1> QED
    BY <1>5, <1>6, <1>7, <1>8, <1>9

\* The six bits are cleared once the slot has started.
LEMMA RestoreLinkStep ==
  ASSUME IInv, TypeOK', NEW m \in pending, RestoreLink(m)
  PROVE  IInv'
  <1> USE DEF IInv
  <1>1. /\ m \in Event /\ m.type = "RESTORE_LINK" /\ m.slot < now
        /\ m \in SrcClaims /\ m \in DstClaims /\ m \in CoreClaims
    BY ClaimsAndTokens
    DEF RestoreLink, RestoreDue, SrcTypes, DstTypes, CoreTypes
  <1>2. /\ pending' = pending \ {m}
        /\ host_is_src' = host_is_src \ {SrcBit(m)}
        /\ ToR2Agg' = ToR2Agg \ {UpBit(m)}
        /\ host_is_dst' = host_is_dst \ {DstBit(m)}
        /\ Agg2ToR' = Agg2ToR \ {DownBit(m)}
        /\ CoreOccupationIn' = CoreOccupationIn \ {InBit(m)}
        /\ CoreOccupationOut' = CoreOccupationOut \ {OutBit(m)}
        /\ UNCHANGED <<routing_table, now, grants, tx, failed>>
    BY DEF RestoreLink, Become
  <1>3. /\ SrcClaims' = SrcClaims \ {m} /\ DstClaims' = DstClaims \ {m}
        /\ CoreClaims' = CoreClaims \ {m}
        /\ \A q \in Pair : Tokens(q)' = Tokens(q)
    BY <1>1, <1>2 DEF SrcClaims, DstClaims, CoreClaims, Tokens, TokenTypes
  <1>4. SrcOwned' /\ DstOwned' /\ CoreOwned'
    BY <1>1, <1>2, <1>3, SrcSteps, DstSteps, CoreSteps
  <1>5. OneTokenPerEntry'
    BY <1>2, <1>3, TokenSteps
  <1>6. SwitchCarried'
    BY <1>1, <1>2, SwitchCarriedKept
  <1>7. SchedulesBacked'
    <2>1. m.slot \in Nat /\ now \in Nat
      BY <1>1 DEF Event, TypeOK
    <2> QED
      BY <1>1, <1>2, <2>1, BackedKept
  <1>8. TxCurrent' /\ ArbitersNeverFail'
    BY <1>2 DEF TxCurrent, ArbitersNeverFail
  <1> QED
    BY <1>4, <1>5, <1>6, <1>7, <1>8

(***************************************************************************)
(* The invariant.                                                          *)
(***************************************************************************)
LEMMA InvInit == Init => IInv
  <1> SUFFICES ASSUME Init PROVE IInv
    OBVIOUS
  <1>1. TypeOK
    BY TypeInit
  <1>2. SrcClaims = {} /\ DstClaims = {} /\ CoreClaims = {}
    BY DEF Init, SrcClaims, DstClaims, CoreClaims
  <1>3. SrcOwned /\ DstOwned /\ CoreOwned
    BY <1>2 DEF Init, SrcOwned, DstOwned, CoreOwned
  <1>4. OneTokenPerEntry
    BY DEF Init, OneTokenPerEntry, Tokens
  <1> QED
    BY <1>1, <1>3, <1>4
    DEF Init, IInv, SwitchCarried, SchedulesBacked, TxCurrent, ArbitersNeverFail

LEMMA InvStep == IInv /\ [Next]_vars => IInv'
  <1> SUFFICES ASSUME IInv, [Next]_vars PROVE IInv'
    OBVIOUS
  <1>0. TypeOK'
    BY TypeStep DEF IInv
  <1>1. ASSUME NEW p \in Pair, NEW size \in RtsSizes, ReceiveRts(p, size)
        PROVE  IInv'
    BY <1>0, <1>1, IdleStep
    DEF ReceiveRts, IInv, TxCurrent, ArbitersNeverFail
  <1>2. ASSUME NEW l \in LA, AllocateUplinkEvent(l) PROVE IInv'
    BY <1>0, <1>2, IdleStep
    DEF AllocateUplinkEvent, IInv, TxCurrent, ArbitersNeverFail
  <1>3. ASSUME NEW p \in Pair, AllocateUplink(p) PROVE IInv'
    <2>1. CASE SkipRouted(p) \/ UplinkFull(p) \/ RefuseSamePod(p)
      BY <1>0, <2>1, IdleStep
      DEF SkipRouted, UplinkFull, RefuseSamePod, Visit, IInv, TxCurrent,
          ArbitersNeverFail
    <2> QED
      BY <1>0, <1>3, <2>1, RequestDownlinkStep, AllocateSamePodStep
      DEF AllocateUplink
  <1>4. ASSUME NEW m \in pending, HandlePacket(m) PROVE IInv'
    BY <1>0, <1>4, GrantDownlinkStep, DenyDownlinkStep, ReleaseUplinkStep,
       ReceiveIpsStep, GrantCoreStep, DenyCoreStep, ReceiveCoreSchdStep,
       ReceiveDenyDstStep
    DEF HandlePacket
  <1>5. ASSUME NEW m \in pending, RestoreLink(m) PROVE IInv'
    BY <1>0, <1>5, RestoreLinkStep
  <1>6. ASSUME NEW g \in grants, ReceiveSchd(g) PROVE IInv'
    <2>1. grants' \union tx' \subseteq grants \union tx /\ TxCurrent'
      BY <1>6 DEF ReceiveSchd, InTime, IInv, TxCurrent
    <2>2. ArbitersNeverFail'
      BY <1>6 DEF ReceiveSchd, Check, IInv, ArbitersNeverFail
    <2> QED
      BY <1>0, <1>6, <2>1, <2>2, IdleStep DEF ReceiveSchd
  <1>7. CASE Tick
    BY <1>0, <1>7, IdleStep DEF Tick, IInv, TxCurrent, ArbitersNeverFail
  <1>8. CASE UNCHANGED vars
    BY <1>0, <1>8, IdleStep DEF vars, IInv, TxCurrent, ArbitersNeverFail
  <1> QED
    BY <1>1, <1>2, <1>3, <1>4, <1>5, <1>6, <1>7, <1>8 DEF Next

\* The inductive invariant holds in every reachable state.
THEOREM InvHolds == Spec => []IInv
  BY InvInit, InvStep, PTL DEF Spec

(***************************************************************************)
(* What follows.                                                           *)
(***************************************************************************)

\* No link bit is leaked or freed early (take_back_link, RestoreLinkEvent).
THEOREM BitsAlwaysOwned == Spec => []BitsOwned
  <1>1. IInv => BitsOwned
    BY DEF IInv, SrcOwned, DstOwned, CoreOwned, BitsOwned
  <1> QED
    BY <1>1, InvHolds, PTL

\* No link bit is held by two reservations, aliased slots included.
THEOREM NeverDoubleBooked == Spec => []NoDoubleBooking
  <1>1. IInv => NoDoubleBooking
    BY DEF IInv, SrcOwned, DstOwned, CoreOwned, NoDoubleBooking
  <1> QED
    BY <1>1, InvHolds, PTL

\* No assertion of an arbiter fails, and generate_full_path finds its entry.
THEOREM ArbitersSafe == Spec => []ArbitersNeverFail
  <1>1. IInv => ArbitersNeverFail
    BY DEF IInv
  <1> QED
    BY <1>1, InvHolds, PTL

\* No routing-table entry is orphaned, and none is shared by two reservations.
THEOREM EntriesOwned == Spec => []OneTokenPerEntry
  <1>1. IInv => OneTokenPerEntry
    BY DEF IInv
  <1> QED
    BY <1>1, InvHolds, PTL

\* The destination switch of the entry is that of the core request.
THEOREM SwitchesAgree == Spec => []SwitchCarried
  <1>1. IInv => SwitchCarried
    BY DEF IInv
  <1> QED
    BY <1>1, InvHolds, PTL

\* Every schedule on its way, or accepted, still has its six links.
THEOREM SchedulesKeepLinks == Spec => []SchedulesBacked
  <1>1. IInv => SchedulesBacked
    BY DEF IInv
  <1> QED
    BY <1>1, InvHolds, PTL

\* Two schedules that are issued for the same slot, still to come, and meet on a
\* link are one: their restores share a bit.
LEMMA IssuedNeverCollide ==
  ASSUME IInv, NEW g \in grants \union tx, NEW h \in grants \union tx,
         g.slot >= now, h.slot >= now, Collide(g, h)
  PROVE  g = h
  <1>1. PICK m \in pending :
          /\ m.type = "RESTORE_LINK"
          /\ m.src = g.src /\ m.dst = g.dst /\ m.slot = g.slot
          /\ m.src_agg = g.src_agg /\ m.dst_agg = g.dst_agg
          /\ g.core = CoreOf[<<m.src_agg, m.dst_agg>>]
    BY DEF IInv, SchedulesBacked
  <1>2. PICK n \in pending :
          /\ n.type = "RESTORE_LINK"
          /\ n.src = h.src /\ n.dst = h.dst /\ n.slot = h.slot
          /\ n.src_agg = h.src_agg /\ n.dst_agg = h.dst_agg
          /\ h.core = CoreOf[<<n.src_agg, n.dst_agg>>]
    BY DEF IInv, SchedulesBacked
  <1>3. /\ m \in SrcClaims /\ m \in DstClaims /\ m \in CoreClaims
        /\ n \in SrcClaims /\ n \in DstClaims /\ n \in CoreClaims
    BY <1>1, <1>2
    DEF SrcClaims, DstClaims, CoreClaims, SrcTypes, DstTypes, CoreTypes
  <1>4. \/ SrcBit(m) = SrcBit(n) \/ UpBit(m) = UpBit(n)
        \/ DstBit(m) = DstBit(n) \/ DownBit(m) = DownBit(n)
        \/ InBit(m) = InBit(n) \/ OutBit(m) = OutBit(n)
    BY <1>1, <1>2
    DEF Collide, HostToTor, TorToAgg, AggToCore, CoreToAgg, AggToTor, TorToHost,
        SrcBit, UpBit, DstBit, DownBit, InBit, OutBit
  <1>5. m = n
    BY <1>3, <1>4 DEF IInv, SrcOwned, DstOwned, CoreOwned
  <1>6. g \in Schedule /\ h \in Schedule
    BY DEF IInv, TypeOK
  <1> QED
    BY <1>1, <1>2, <1>5, <1>6 DEF Schedule

\* The data plane never sees two packets meet: what hosts accepted never collides.
THEOREM NeverCollide == Spec => []CollisionFree
  <1>1. IInv => CollisionFree
    BY IssuedNeverCollide DEF IInv, TxCurrent, CollisionFree
  <1> QED
    BY <1>1, InvHolds, PTL

\* The arbitration implements SlotBooking: accepting a schedule is a booking that
\* fits, a tick passes a slot, every other step changes neither.
THEOREM Refinement == Spec => ImplementsSlotBooking
  <1>1. Init => Booking!Init
    BY DEF Init, Booking!Init
  <1>2. IInv /\ [Next]_vars => [Booking!Next]_<<now, tx>>
    <2> SUFFICES ASSUME IInv, [Next]_vars PROVE [Booking!Next]_<<now, tx>>
      OBVIOUS
    <2>1. CASE \E g \in grants : ReceiveSchd(g)
      <3>1. PICK g \in grants : ReceiveSchd(g)
        BY <2>1
      <3>2. CASE ~InTime(g) \/ g \in tx
        BY <3>1, <3>2 DEF ReceiveSchd
      <3>3. CASE InTime(g) /\ g \notin tx
        <4>1. tx' = tx \union {g} /\ now' = now /\ g.slot >= now
          BY <3>1, <3>3 DEF ReceiveSchd, InTime
        <4>2. g \in Booking!Schedule
          BY DEF IInv, TypeOK, Schedule, Booking!Schedule
        <4>3. Booking!Fits(g)
          <5>1. \A h \in tx : ~Collide(g, h)
            BY <3>3, <4>1, IssuedNeverCollide DEF IInv, TxCurrent
          <5>2. \A h \in tx : Booking!Collide(g, h) => Collide(g, h)
            BY DEF Collide, HostToTor, TorToAgg, AggToCore, CoreToAgg, AggToTor,
               TorToHost, Booking!Collide, Booking!HostToTor, Booking!TorToAgg,
               Booking!AggToCore, Booking!CoreToAgg, Booking!AggToTor,
               Booking!TorToHost
          <5> QED
            BY <5>1, <5>2 DEF Booking!Fits
        <4>4. Booking!Book(g)
          BY <4>1, <4>2, <4>3 DEF Booking!Book
        <4>5. g \in tx' \ tx
          BY <3>3, <4>1
        <4> QED
          BY <4>4, <4>5 DEF Booking!Next
      <3> QED
        BY <3>2, <3>3
    <2>2. CASE Tick
      BY <2>2 DEF Tick, Booking!Next, Booking!Pass
    <2>3. CASE ~Tick /\ ~\E g \in grants : ReceiveSchd(g)
      <3> SUFFICES UNCHANGED <<now, tx>>
        OBVIOUS
      <3>1. CASE \E p \in Pair, size \in RtsSizes : ReceiveRts(p, size)
        BY <3>1 DEF ReceiveRts
      <3>2. CASE \E l \in LA : AllocateUplinkEvent(l)
        BY <3>2 DEF AllocateUplinkEvent
      <3>3. CASE \E p \in Pair : AllocateUplink(p)
        BY <3>3 DEF AllocateUplink, SkipRouted, UplinkFull, RequestDownlink,
                    AllocateSamePod, RefuseSamePod, Visit
      <3>4. CASE \E m \in pending : HandlePacket(m)
        BY <3>4
        DEF HandlePacket, GrantDownlink, DenyDownlink, ReceiveIps, ReceiveIpd,
            GrantCore, DenyCore, ReceiveCoreSchd, ReceiveDenySrc, ReceiveDenyDst
      <3>5. CASE \E m \in pending : RestoreLink(m)
        BY <3>5 DEF RestoreLink
      <3>6. CASE UNCHANGED vars
        BY <3>6 DEF vars
      <3> QED
        BY <2>3, <3>1, <3>2, <3>3, <3>4, <3>5, <3>6 DEF Next
    <2> QED
      BY <2>1, <2>2, <2>3
  <1> QED
    BY <1>1, <1>2, InvHolds, PTL DEF Spec, ImplementsSlotBooking, Booking!Spec

(***************************************************************************)
(* Demand.                                                                 *)
(***************************************************************************)

\* The loop only visits pairs that still have demand.
TodoWaiting == \A p \in todo : size_table[p] > 0

\* One more slot serves at most SlotBytes bytes, and at least one.
LEMMA ServedBounds ==
  ASSUME NEW bytes \in Nat, bytes > 0
  PROVE  /\ Served(bytes) \in Nat
         /\ bytes <= Served(bytes) + SlotBytes
         /\ Served(bytes) + 1 <= bytes
  BY SlotAssumption DEF Served

\* No byte announced is forgotten and no slot is issued for nothing
\* (receive_rts, generate_full_path).
THEOREM DemandAlwaysCovered == Spec => []DemandCovered
  <1> DEFINE DInv == TypeOK /\ DemandCovered /\ TodoWaiting
  <1>1. Init => DInv
    BY TypeInit, SlotAssumption DEF Init, DemandCovered, TodoWaiting
  <1>2. DInv /\ [Next]_vars => DInv'
    <2> SUFFICES ASSUME DInv, [Next]_vars PROVE DInv'
      OBVIOUS
    <2>0. TypeOK'
      BY TypeStep
    <2>1. ASSUME NEW p \in Pair, NEW size \in RtsSizes, ReceiveRts(p, size)
          PROVE  DInv'
      <3>1. size \in Nat \ {0}
        BY SlotAssumption
      <3>2. /\ size_table' = [size_table EXCEPT ![p] = @ + size]
            /\ announced' = [announced EXCEPT ![p] = @ + size]
            /\ UNCHANGED <<granted, routing_table>> /\ todo = {} /\ todo' = {}
        BY <2>1 DEF ReceiveRts, Turn, Quiet
      <3>3. DemandCovered'
        <4> SUFFICES ASSUME NEW q \in Pair
                     PROVE  /\ announced'[q] <=
                                 size_table'[q] + granted'[q] * SlotBytes
                            /\ granted'[q] + size_table'[q] <= announced'[q]
                            /\ routing_table'[q] # None => size_table'[q] > 0
          BY DEF DemandCovered
        <4>1. /\ announced[q] \in Nat /\ size_table[q] \in Nat
              /\ granted[q] \in Nat /\ granted[q] * SlotBytes \in Nat
          BY SlotAssumption DEF TypeOK
        <4>2. /\ announced[q] <= size_table[q] + granted[q] * SlotBytes
              /\ granted[q] + size_table[q] <= announced[q]
              /\ routing_table[q] # None => size_table[q] > 0
          BY DEF DemandCovered
        <4>3. CASE q = p
          <5>1. size_table'[q] = size_table[q] + size
                /\ announced'[q] = announced[q] + size
            BY <3>2, <4>3 DEF TypeOK
          <5> QED
            BY <3>1, <3>2, <4>1, <4>2, <5>1
        <4>4. CASE q # p
          <5>1. size_table'[q] = size_table[q] /\ announced'[q] = announced[q]
            BY <3>2, <4>4 DEF TypeOK
          <5> QED
            BY <3>2, <4>2, <5>1
        <4> QED
          BY <4>3, <4>4
      <3> QED
        BY <2>0, <3>2, <3>3 DEF TodoWaiting
    <2>2. ASSUME NEW l \in LA, AllocateUplinkEvent(l) PROVE DInv'
      BY <2>0, <2>2 DEF AllocateUplinkEvent, DemandCovered, TodoWaiting, demand
    <2>3. ASSUME NEW p \in Pair, AllocateUplink(p) PROVE DInv'
      <3>1. /\ p \in todo /\ todo' = todo \ {p} /\ UNCHANGED demand
            /\ \/ routing_table' = routing_table
               \/ \E e : routing_table' = [routing_table EXCEPT ![p] = e]
        BY <2>3 DEF AllocateUplink, SkipRouted, UplinkFull, RequestDownlink,
                    AllocateSamePod, RefuseSamePod, Visit
      <3>2. \A q \in Pair : routing_table'[q] = routing_table[q] \/ q = p
        BY <3>1 DEF TypeOK
      <3>3. size_table[p] > 0
        BY <3>1 DEF TodoWaiting
      <3> QED
        BY <2>0, <3>1, <3>2, <3>3 DEF DemandCovered, TodoWaiting, demand
    <2>4. ASSUME NEW m \in pending, HandlePacket(m) PROVE DInv'
      <3>0. PairOf(m) \in Pair /\ todo = {}
        BY <2>4
        DEF TypeOK, HandlePacket, GrantDownlink, DenyDownlink, ReceiveIps,
            ReceiveIpd, GrantCore, DenyCore, ReceiveCoreSchd, ReceiveDenySrc,
            ReceiveDenyDst, Take, Turn, Quiet
      <3>1. CASE ReceiveCoreSchd(m) /\ routing_table[PairOf(m)] # None
        <4> DEFINE p == PairOf(m)
        <4>1. /\ routing_table' = [routing_table EXCEPT ![p] = None]
              /\ size_table' = [size_table EXCEPT ![p] = Served(@)]
              /\ granted' = [granted EXCEPT ![p] = @ + 1]
              /\ UNCHANGED <<announced, todo>>
          BY <3>1 DEF ReceiveCoreSchd
        <4>2. DemandCovered'
          <5> SUFFICES ASSUME NEW q \in Pair
                       PROVE  /\ announced'[q] <=
                                   size_table'[q] + granted'[q] * SlotBytes
                              /\ granted'[q] + size_table'[q] <= announced'[q]
                              /\ routing_table'[q] # None => size_table'[q] > 0
            BY DEF DemandCovered
          <5>1. /\ announced[q] <= size_table[q] + granted[q] * SlotBytes
                /\ granted[q] + size_table[q] <= announced[q]
                /\ routing_table[q] # None => size_table[q] > 0
            BY DEF DemandCovered
          <5>2. CASE q = p
            <6>1. /\ routing_table'[q] = None
                  /\ size_table'[q] = Served(size_table[q])
                  /\ granted'[q] = granted[q] + 1
                  /\ announced'[q] = announced[q]
              BY <4>1, <5>2 DEF TypeOK
            <6>2. /\ announced[q] \in Nat /\ size_table[q] \in Nat
                  /\ granted[q] \in Nat /\ granted[q] * SlotBytes \in Nat
              BY SlotAssumption DEF TypeOK
            <6>3. /\ Served(size_table[q]) \in Nat
                  /\ size_table[q] <= Served(size_table[q]) + SlotBytes
                  /\ Served(size_table[q]) + 1 <= size_table[q]
              BY <3>1, <5>1, <5>2, <6>2, ServedBounds
            <6>4. (granted[q] + 1) * SlotBytes = granted[q] * SlotBytes + SlotBytes
              BY <6>2, SlotAssumption
            <6> QED
              BY <5>1, <6>1, <6>2, <6>3, <6>4, SlotAssumption
          <5>3. CASE q # p
            <6>1. /\ routing_table'[q] = routing_table[q]
                  /\ size_table'[q] = size_table[q]
                  /\ granted'[q] = granted[q] /\ announced'[q] = announced[q]
              BY <4>1, <5>3 DEF TypeOK
            <6> QED
              BY <5>1, <6>1
          <5> QED
            BY <5>2, <5>3
        <4> QED
          BY <2>0, <3>0, <4>1, <4>2 DEF TodoWaiting
      <3>2. CASE ~(ReceiveCoreSchd(m) /\ routing_table[PairOf(m)] # None)
        <4>1. UNCHANGED <<demand, todo>>
          BY <2>4, <3>2
          DEF HandlePacket, GrantDownlink, DenyDownlink, ReceiveIps, ReceiveIpd,
              GrantCore, DenyCore, ReceiveCoreSchd, ReceiveDenySrc, ReceiveDenyDst
        <4>2. \/ routing_table' = routing_table
              \/ routing_table' = [routing_table EXCEPT ![PairOf(m)] = None]
              \/ /\ routing_table[PairOf(m)] # None
                 /\ routing_table' = [routing_table EXCEPT ![PairOf(m)] =
                                EntryWithIps(routing_table[PairOf(m)], m)]
          BY <2>4, <3>2
          DEF HandlePacket, GrantDownlink, DenyDownlink, ReceiveIps, ReceiveIpd,
              GrantCore, DenyCore, ReceiveCoreSchd, ReceiveDenySrc,
              ReceiveDenyDst, ReleaseUplink, tables
        <4>3. \A q \in Pair : routing_table'[q] # None => routing_table[q] # None
          BY <3>0, <4>2 DEF TypeOK
        <4> QED
          BY <2>0, <3>0, <4>1, <4>3 DEF DemandCovered, TodoWaiting, demand
      <3> QED
        BY <3>1, <3>2
    <2>5. ASSUME NEW m \in pending, RestoreLink(m) PROVE DInv'
      BY <2>0, <2>5 DEF RestoreLink, DemandCovered, TodoWaiting, demand
    <2>6. ASSUME NEW g \in grants, ReceiveSchd(g) PROVE DInv'
      BY <2>0, <2>6 DEF ReceiveSchd, DemandCovered, TodoWaiting, demand
    <2>7. CASE Tick
      BY <2>0, <2>7 DEF Tick, DemandCovered, TodoWaiting, demand
    <2>8. CASE UNCHANGED vars
      BY <2>0, <2>8 DEF vars, DemandCovered, TodoWaiting, demand
    <2> QED
      BY <2>1, <2>2, <2>3, <2>4, <2>5, <2>6, <2>7, <2>8 DEF Next
  <1> QED
    BY <1>1, <1>2, PTL DEF Spec

=============================================================================
