---------------------------- MODULE CentralProofs ----------------------------
(***************************************************************************)
(* Safety of the transports with a central arbiter.                        *)
(*                                                                         *)
(* Fastpass, for any flows, hosts, sizes and epochs: what the arbiter may  *)
(* allot to a flow is what the sender has left to send, so no sender is    *)
(* told to send when it has nothing to send.  The slots a flow has are     *)
(* partly in the arbiter, partly in the sender and partly under way, so    *)
(* the proof weighs the bag of packets: for each flow, by the slots they   *)
(* ask for or bring, and by the packets of data they are.                  *)
(*                                                                         *)
(* Ideal, for any flows, hosts and sizes: the arbiter's list, the timers   *)
(* and the events of the hosts agree, and no flow waits for idle hosts.    *)
(***************************************************************************)
EXTENDS Central, Sequences, FiniteFacts

(***************************************************************************)
(* The weight of a bag.                                                    *)
(***************************************************************************)
Weigh(W, B) == SumFunctionOnSet([m \in DOMAIN B |-> W[m] * B[m]], DOMAIN B)

Weighable(W, B) ==
  /\ IsABag(B) /\ IsFiniteSet(DOMAIN B)
  /\ \A m \in DOMAIN B : W[m] \in Nat

\* Terms that are zero do not count.
LEMMA SumPad ==
  ASSUME NEW F, NEW U, IsFiniteSet(U), NEW S \in SUBSET U,
         \A x \in U : F[x] \in Nat, \A x \in U \ S : F[x] = 0
  PROVE  SumFunctionOnSet(F, U) = SumFunctionOnSet(F, S)
  <1> DEFINE G == {s \in SUBSET (U \ S) :
                     SumFunctionOnSet(F, S \union s) = SumFunctionOnSet(F, S)}
  <1>1. IsFiniteSet(U \ S) /\ IsFiniteSet(S)
    BY FS_Subset
  <1>2. {} \in G
    <2>1. S \union {} = S
      OBVIOUS
    <2> QED
      BY <2>1
  <1>3. ASSUME NEW s \in SUBSET (U \ S), NEW x \in (U \ S) \ s, s \in G
        PROVE  s \union {x} \in G
    <2>1. IsFiniteSet(S \union s) /\ \A y \in (S \union s) \union {x} : F[y] \in Nat
      <3>1. S \union s \in SUBSET U
        OBVIOUS
      <3> QED
        BY <3>1, FS_Subset
    <2>2. /\ SumFunctionOnSet(F, (S \union s) \union {x})
               = F[x] + SumFunctionOnSet(F, S \union s)
          /\ SumFunctionOnSet(F, S \union s) \in Nat
      <3>1. x \notin S \union s
        OBVIOUS
      <3> QED
        BY <2>1, <3>1, SumWith
    <2>3. S \union (s \union {x}) = (S \union s) \union {x}
      OBVIOUS
    <2>4. F[x] + SumFunctionOnSet(F, S \union s) = SumFunctionOnSet(F, S \union s)
      BY <2>2, F[x] = 0
    <2>5. SumFunctionOnSet(F, S \union (s \union {x})) = SumFunctionOnSet(F, S)
      BY ONLY <1>3, <2>2, <2>3, <2>4
    <2> QED
      BY <2>5
  <1> HIDE DEF G
  <1>4. \A s \in SUBSET (U \ S) : s \in G
    BY ZenonT(30), <1>1, <1>2, <1>3, EverySubset
  <1>5. S \union (U \ S) = U
    OBVIOUS
  <1>6. U \ S \in G
    BY <1>4
  <1> QED
    BY <1>5, <1>6 DEF G

\* A sum of one term.
LEMMA SumSingle ==
  ASSUME NEW F, NEW x, F[x] \in Nat
  PROVE  SumFunctionOnSet(F, {x}) = F[x]
  <1>1. IsFiniteSet({}) /\ SumFunctionOnSet(F, {}) = 0
    BY FS_EmptySet, SumFacts
  <1>2. {} \union {x} = {x} /\ x \notin {}
    OBVIOUS
  <1>3. SumFunctionOnSet(F, {} \union {x}) = F[x] + SumFunctionOnSet(F, {})
    BY <1>1, SumWith
  <1> QED
    BY <1>1, <1>2, <1>3

LEMMA WeighFacts ==
  ASSUME NEW W, NEW B, Weighable(W, B)
  PROVE  /\ Weigh(W, B) \in Nat
         /\ (\A m \in DOMAIN B : W[m] = 0) => Weigh(W, B) = 0
  <1> DEFINE F == [m \in DOMAIN B |-> W[m] * B[m]]
  <1>1. \A m \in DOMAIN B : B[m] \in Nat /\ W[m] \in Nat
    BY DEF Weighable, IsABag
  <1>2. \A m \in DOMAIN B : F[m] \in Nat
    BY <1>1
  <1>3. (\A m \in DOMAIN B : W[m] = 0) => \A m \in DOMAIN B : F[m] = 0
    BY <1>1
  <1>4. IsFiniteSet(DOMAIN B)
    BY DEF Weighable
  <1> HIDE DEF F
  <1>5. SumFunctionOnSet(F, DOMAIN B) \in Nat
    BY <1>2, <1>4, SumFacts
  <1>6. (\A m \in DOMAIN B : F[m] = 0) => SumFunctionOnSet(F, DOMAIN B) = 0
    BY <1>4, SumNone
  <1> QED
    BY <1>3, <1>5, <1>6 DEF Weigh, F

\* A set of packets adds its weight.
LEMMA WeighPlus ==
  ASSUME NEW W, NEW B, Weighable(W, B), NEW T, IsFiniteSet(T), \A m \in T : W[m] \in Nat
  PROVE  /\ Weighable(W, B (+) SetToBag(T))
         /\ DOMAIN (B (+) SetToBag(T)) = DOMAIN B \union T
         /\ Weigh(W, B (+) SetToBag(T)) = Weigh(W, B) + SumFunctionOnSet(W, T)
  <1>1. PICK C : C = B (+) SetToBag(T)
    OBVIOUS
  <1>2. PICK U : U = DOMAIN B \union T
    OBVIOUS
  <1>3. C = [m \in U |-> (IF m \in DOMAIN B THEN B[m] ELSE 0) + (IF m \in T THEN 1 ELSE 0)]
    BY <1>1, <1>2 DEF (+), SetToBag
  <1>4. IsFiniteSet(U) /\ DOMAIN B \in SUBSET U /\ T \in SUBSET U
    BY <1>2, FS_Union DEF Weighable
  <1>5. \A m \in DOMAIN B : B[m] \in Nat /\ B[m] > 0 /\ W[m] \in Nat
    BY DEF Weighable, IsABag
  <1>6. IsABag(C) /\ DOMAIN C = U
    <2>1. \A m \in U : C[m] \in Nat /\ C[m] > 0
      BY <1>2, <1>3, <1>5
    <2> QED
      BY <1>3, <2>1 DEF IsABag
  <1> DEFINE F == [m \in DOMAIN B |-> W[m] * B[m]]
             FU == [m \in U |-> IF m \in DOMAIN B THEN W[m] * B[m] ELSE 0]
             GU == [m \in U |-> IF m \in T THEN W[m] ELSE 0]
             H == [m \in U |-> W[m] * C[m]]
  <1>7. \A m \in U : FU[m] \in Nat /\ GU[m] \in Nat /\ H[m] = FU[m] + GU[m]
    <2> SUFFICES ASSUME NEW m \in U PROVE FU[m] \in Nat /\ GU[m] \in Nat /\ H[m] = FU[m] + GU[m]
      OBVIOUS
    <2>1. W[m] \in Nat
      BY <1>2, <1>5
    <2>2. CASE m \in DOMAIN B /\ m \in T
      BY <1>3, <1>5, <2>1, <2>2
    <2>3. CASE m \in DOMAIN B /\ m \notin T
      BY <1>3, <1>5, <2>1, <2>3
    <2>4. CASE m \notin DOMAIN B
      BY <1>2, <1>3, <2>1, <2>4
    <2> QED
      BY <2>2, <2>3, <2>4
  <1>8. /\ \A m \in U \ DOMAIN B : FU[m] = 0
        /\ \A m \in U \ T : GU[m] = 0
        /\ \A m \in DOMAIN B : FU[m] = F[m]
        /\ \A m \in T : GU[m] = W[m]
    BY <1>4
  <1> HIDE DEF F, FU, GU, H
  <1>9. SumFunctionOnSet(H, U) = SumFunctionOnSet(FU, U) + SumFunctionOnSet(GU, U)
    BY <1>4, <1>7, SumPlus
  <1>10. SumFunctionOnSet(FU, U) = SumFunctionOnSet(F, DOMAIN B)
    <2>1. SumFunctionOnSet(FU, U) = SumFunctionOnSet(FU, DOMAIN B)
      BY <1>4, <1>7, <1>8, SumPad
    <2>2. SumFunctionOnSet(FU, DOMAIN B) = SumFunctionOnSet(F, DOMAIN B)
      BY <1>4, <1>7, <1>8, SumSame DEF Weighable
    <2> QED
      BY <2>1, <2>2
  <1>11. SumFunctionOnSet(GU, U) = SumFunctionOnSet(W, T)
    <2>1. SumFunctionOnSet(GU, U) = SumFunctionOnSet(GU, T)
      BY <1>4, <1>7, <1>8, SumPad
    <2>2. SumFunctionOnSet(GU, T) = SumFunctionOnSet(W, T)
      BY <1>4, <1>7, <1>8, SumSame
    <2> QED
      BY <2>1, <2>2
  <1>12. \A m \in U : W[m] \in Nat
    BY <1>2, <1>5
  <1>13. Weigh(W, C) = SumFunctionOnSet(H, U) /\ Weigh(W, B) = SumFunctionOnSet(F, DOMAIN B)
    BY <1>6 DEF Weigh, H, F
  <1> QED
    BY <1>1, <1>2, <1>4, <1>6, <1>9, <1>10, <1>11, <1>12, <1>13 DEF Weighable

\* One packet adds its weight, and takes it away.
LEMMA WeighOne ==
  ASSUME NEW W, NEW B, Weighable(W, B), NEW m, W[m] \in Nat
  PROVE  /\ Weighable(W, B (+) One(m))
         /\ DOMAIN (B (+) One(m)) = DOMAIN B \union {m}
         /\ Weigh(W, B (+) One(m)) = Weigh(W, B) + W[m]
  <1>1. IsFiniteSet({m}) /\ \A x \in {m} : W[x] \in Nat
    BY FS_Singleton
  <1>2. SumFunctionOnSet(W, {m}) = W[m]
    BY SumSingle
  <1> QED
    BY <1>1, <1>2, WeighPlus DEF One

LEMMA WeighLess ==
  ASSUME NEW W, NEW B, Weighable(W, B), NEW m \in DOMAIN B
  PROVE  /\ Weighable(W, B (-) One(m))
         /\ DOMAIN (B (-) One(m)) \subseteq DOMAIN B
         /\ Weigh(W, B) = Weigh(W, B (-) One(m)) + W[m]
  <1>1. PICK C : C = B (-) One(m)
    OBVIOUS
  <1>2. \A x \in DOMAIN B : B[x] \in Nat /\ B[x] > 0
    BY DEF Weighable, IsABag
  <1> DEFINE L == [x \in DOMAIN B |-> IF x = m THEN B[x] - 1 ELSE B[x]]
  <1>3. C = [x \in {y \in DOMAIN B : L[y] > 0} |-> L[x]]
    <2>1. C = [x \in {y \in DOMAIN L : L[y] > 0} |-> L[x]]
      BY <1>1 DEF (-), One, SetToBag
    <2> QED
      BY <2>1
  <1>4. DOMAIN C = {y \in DOMAIN B : L[y] > 0} /\ \A x \in DOMAIN C : C[x] = L[x]
    BY ONLY <1>3
  <1>5. \A x \in DOMAIN C : x \in DOMAIN B /\ C[x] \in Nat /\ C[x] > 0
    BY <1>2, <1>4
  <1>6. IsABag(C)
    BY <1>3, <1>5 DEF IsABag
  <1>7. DOMAIN C \in SUBSET DOMAIN B /\ IsFiniteSet(DOMAIN C)
    BY <1>5, FS_Subset DEF Weighable
  <1>8. Weighable(W, C)
    BY <1>5, <1>6, <1>7 DEF Weighable
  <1>9. C (+) One(m) = B
    <2>1. C (+) One(m) = [x \in DOMAIN C \union {m} |-> (IF x \in DOMAIN C THEN C[x] ELSE 0)
                                                   + (IF x \in {m} THEN 1 ELSE 0)]
      BY DEF (+), One, SetToBag
    <2>2. DOMAIN C \union {m} = DOMAIN B
      BY <1>2, <1>4
    <2>3. ASSUME NEW x \in DOMAIN B
          PROVE  (IF x \in DOMAIN C THEN C[x] ELSE 0) + (IF x \in {m} THEN 1 ELSE 0) = B[x]
      BY <1>2, <1>4, <2>3
    <2>4. C (+) One(m) = [x \in DOMAIN B |-> B[x]]
      BY <2>1, <2>2, <2>3
    <2> QED
      BY <2>4 DEF Weighable, IsABag
  <1>10. W[m] \in Nat
    BY DEF Weighable
  <1>11. Weigh(W, C (+) One(m)) = Weigh(W, C) + W[m]
    BY <1>8, <1>10, WeighOne
  <1> QED
    BY <1>1, <1>7, <1>8, <1>9, <1>11

(***************************************************************************)
(* The packets, and what they weigh for a flow.                            *)
(***************************************************************************)
RtsPacket == [type : {"RTS"}, flow : Flows, remaining_num_pkts : Int]
FlowPacket == [type : {"DATA", "ACK"}, flow : Flows, pkt : Nat]
SchedulePacket == [type : {"SCHEDULE"}, slots : [Flows -> Nat]]
Packet == RtsPacket \union FlowPacket \union SchedulePacket

DueTo(f) == [m \in Packet |-> Due(m, f)]
Fly(m, f) == IF m \in FlowPacket /\ m.flow = f THEN 1 ELSE 0
IsOf(f) == [m \in Packet |-> Fly(m, f)]

Dues(f, B) == Weigh(DueTo(f), B)
Flights(f, B) == Weigh(IsOf(f), B)

NetBag(B) == IsABag(B) /\ IsFiniteSet(DOMAIN B) /\ DOMAIN B \subseteq Packet

\* Setting a finite set of packets under way leaves a bag of packets.
LEMMA NetPlus ==
  ASSUME NEW B, NetBag(B), NEW T, IsFiniteSet(T), T \subseteq Packet
  PROVE  NetBag(B (+) SetToBag(T)) /\ DOMAIN (B (+) SetToBag(T)) = DOMAIN B \union T
  <1>1. PICK C : C = B (+) SetToBag(T)
    OBVIOUS
  <1>2. PICK U : U = DOMAIN B \union T
    OBVIOUS
  <1>3. C = [m \in U |-> (IF m \in DOMAIN B THEN B[m] ELSE 0) + (IF m \in T THEN 1 ELSE 0)]
    BY <1>1, <1>2 DEF (+), SetToBag
  <1>4. IsFiniteSet(U) /\ U \subseteq Packet
    BY <1>2, FS_Union DEF NetBag
  <1>5. \A m \in DOMAIN B : B[m] \in Nat /\ B[m] > 0
    BY DEF NetBag, IsABag
  <1>6. \A m \in U : C[m] \in Nat /\ C[m] > 0
    BY <1>2, <1>3, <1>5
  <1>7. DOMAIN C = U /\ IsABag(C)
    BY <1>3, <1>6 DEF IsABag
  <1> QED
    BY <1>1, <1>2, <1>4, <1>7 DEF NetBag

LEMMA MaxZero == ASSUME NEW n \in Int PROVE Max({0, n}) = IF n > 0 THEN n ELSE 0
  <1>1. PICK k \in {0, n} : k = IF n > 0 THEN n ELSE 0
    OBVIOUS
  <1>2. \A y \in {0, n} : k >= y
    BY <1>1
  <1>3. \A x \in {0, n} : (\A y \in {0, n} : x >= y) => x = k
    BY <1>1, <1>2
  <1> QED
    BY <1>1, <1>2, <1>3 DEF Max

\* What the packets of each kind weigh.
LEMMA PacketWeights ==
  ASSUME NEW m \in Packet, NEW f \in Flows
  PROVE  /\ Due(m, f) \in Nat /\ Fly(m, f) \in {0, 1}
         /\ m \in RtsPacket => /\ m.type = "RTS" /\ Fly(m, f) = 0 /\ m.flow \in Flows
                               /\ m.flow # f => Due(m, f) = 0
                               /\ m.flow = f => Due(m, f) = IF m.remaining_num_pkts > 0
                                                            THEN m.remaining_num_pkts ELSE 0
         /\ m \in FlowPacket => /\ m.type \in {"DATA", "ACK"} /\ m.flow \in Flows
                                /\ Due(m, f) = 0
                                /\ Fly(m, f) = IF m.flow = f THEN 1 ELSE 0
         /\ m \in SchedulePacket => /\ m.type = "SCHEDULE" /\ Fly(m, f) = 0
                                    /\ Due(m, f) = m.slots[f] /\ m.slots \in [Flows -> Nat]
  <1>1. CASE m \in RtsPacket
    <2>1. m.type = "RTS" /\ m.flow \in Flows /\ m.remaining_num_pkts \in Int
      BY <1>1 DEF RtsPacket
    <2>2. m \notin FlowPacket /\ m \notin SchedulePacket
      BY <2>1 DEF FlowPacket, SchedulePacket
    <2>3. Max({0, m.remaining_num_pkts})
            = IF m.remaining_num_pkts > 0 THEN m.remaining_num_pkts ELSE 0
      BY <2>1, MaxZero
    <2> QED
      BY <2>1, <2>2, <2>3 DEF Due, Fly
  <1>2. CASE m \in FlowPacket
    <2>1. m.type \in {"DATA", "ACK"} /\ m.flow \in Flows
      BY <1>2 DEF FlowPacket
    <2>2. m \notin RtsPacket /\ m \notin SchedulePacket
      BY <2>1 DEF RtsPacket, SchedulePacket
    <2> QED
      BY <1>2, <2>1, <2>2 DEF Due, Fly
  <1>3. CASE m \in SchedulePacket
    <2>1. m.type = "SCHEDULE" /\ m.slots \in [Flows -> Nat]
      BY <1>3 DEF SchedulePacket
    <2>2. m \notin RtsPacket /\ m \notin FlowPacket
      BY <2>1 DEF RtsPacket, FlowPacket
    <2> QED
      BY <2>1, <2>2 DEF Due, Fly
  <1> QED
    BY <1>1, <1>2, <1>3 DEF Packet

LEMMA NetWeights ==
  ASSUME NEW B, NetBag(B), NEW f \in Flows
  PROVE  /\ Weighable(DueTo(f), B) /\ Weighable(IsOf(f), B)
         /\ Dues(f, B) \in Nat /\ Flights(f, B) \in Nat
         /\ (\A m \in DOMAIN B : Fly(m, f) = 0) => Flights(f, B) = 0
  <1>1. \A m \in Packet : DueTo(f)[m] = Due(m, f) /\ IsOf(f)[m] = Fly(m, f)
    BY DEF DueTo, IsOf
  <1>2. \A m \in Packet : Due(m, f) \in Nat /\ Fly(m, f) \in Nat
    BY PacketWeights
  <1>3. Weighable(DueTo(f), B) /\ Weighable(IsOf(f), B)
    BY <1>1, <1>2 DEF Weighable, NetBag
  <1>4. \A m \in DOMAIN B : IsOf(f)[m] = Fly(m, f)
    BY <1>1 DEF NetBag
  <1> QED
    BY <1>3, <1>4, WeighFacts DEF Dues, Flights

\* A packet is sent, or taken off the network.
Added(B, m, C) ==
  /\ NetBag(C) /\ DOMAIN C = DOMAIN B \union {m}
  /\ \A f \in Flows : /\ Dues(f, C) = Dues(f, B) + Due(m, f)
                      /\ Flights(f, C) = Flights(f, B) + Fly(m, f)

LEMMA AddPacket ==
  ASSUME NEW B, NetBag(B), NEW m \in Packet
  PROVE  Added(B, m, B (+) One(m))
  <1>0. PICK C : C = B (+) One(m)
    OBVIOUS
  <1>1. ASSUME NEW f \in Flows
        PROVE  /\ Weighable(DueTo(f), C) /\ DOMAIN C = DOMAIN B \union {m}
               /\ Dues(f, C) = Dues(f, B) + Due(m, f)
               /\ Flights(f, C) = Flights(f, B) + Fly(m, f)
    <2>1. DueTo(f)[m] = Due(m, f) /\ IsOf(f)[m] = Fly(m, f)
      BY DEF DueTo, IsOf
    <2>2. DueTo(f)[m] \in Nat /\ IsOf(f)[m] \in Nat
      BY <2>1, PacketWeights
    <2>3. Weighable(DueTo(f), B) /\ Weighable(IsOf(f), B)
      BY NetWeights
    <2>4. /\ Weighable(DueTo(f), C) /\ DOMAIN C = DOMAIN B \union {m}
          /\ Weigh(DueTo(f), C) = Weigh(DueTo(f), B) + DueTo(f)[m]
      BY <1>0, <2>2, <2>3, WeighOne
    <2>5. Weigh(IsOf(f), C) = Weigh(IsOf(f), B) + IsOf(f)[m]
      BY <1>0, <2>2, <2>3, WeighOne
    <2> QED
      BY <2>1, <2>4, <2>5 DEF Dues, Flights
  <1> DEFINE Z == [x \in Packet |-> 0]
  <1>2. Weighable(Z, B) /\ Z[m] \in Nat
    BY DEF Weighable, NetBag
  <1> HIDE DEF Z
  <1>3. Weighable(Z, C) /\ DOMAIN C = DOMAIN B \union {m}
    BY <1>0, <1>2, WeighOne
  <1>4. NetBag(C)
    BY <1>3 DEF NetBag, Weighable
  <1> QED
    BY <1>0, <1>1, <1>3, <1>4 DEF Added

LEMMA DropPacket ==
  ASSUME NEW B, NetBag(B), NEW m \in DOMAIN B, NEW C, C = B (-) One(m)
  PROVE  /\ NetBag(C) /\ DOMAIN C \subseteq DOMAIN B /\ m \in Packet
         /\ \A f \in Flows : /\ Dues(f, B) = Dues(f, C) + Due(m, f)
                             /\ Flights(f, B) = Flights(f, C) + Fly(m, f)
  <1>0. m \in Packet
    BY DEF NetBag
  <1>1. ASSUME NEW f \in Flows
        PROVE  /\ Dues(f, B) = Dues(f, C) + Due(m, f)
               /\ Flights(f, B) = Flights(f, C) + Fly(m, f)
    <2>1. DueTo(f)[m] = Due(m, f) /\ IsOf(f)[m] = Fly(m, f)
      BY <1>0 DEF DueTo, IsOf
    <2>3. Weighable(DueTo(f), B) /\ Weighable(IsOf(f), B)
      BY NetWeights
    <2>4. Weigh(DueTo(f), B) = Weigh(DueTo(f), C) + DueTo(f)[m]
      BY <2>3, WeighLess
    <2>5. Weigh(IsOf(f), B) = Weigh(IsOf(f), C) + IsOf(f)[m]
      BY <2>3, WeighLess
    <2> QED
      BY <2>1, <2>4, <2>5 DEF Dues, Flights
  <1> DEFINE Z == [x \in Packet |-> 0]
  <1>2. Weighable(Z, B)
    BY DEF Weighable, NetBag
  <1> HIDE DEF Z
  <1>3. Weighable(Z, C) /\ DOMAIN C \subseteq DOMAIN B
    BY <1>2, WeighLess
  <1>4. NetBag(C)
    BY <1>3 DEF NetBag, Weighable
  <1> QED
    BY <1>0, <1>1, <1>3, <1>4

(***************************************************************************)
(* The invariant.                                                          *)
(***************************************************************************)
Types ==
  /\ started \subseteq Flows /\ sender_finished \subseteq started
  /\ early \subseteq started /\ lost \subseteq Flows /\ faults \in 0 .. MaxFaults
  /\ arbiter_flows \subseteq started /\ arbiter_finished \subseteq arbiter_flows
  /\ sender_remaining_num_pkts \in [Flows -> Nat]
  /\ sender_last_pkt_sent \in [Flows -> Int]
  /\ sender_acked \in [Flows -> SUBSET Nat]
  /\ timeouts \in [Flows -> Nat] /\ sends \in [Flows -> Nat]
  /\ arbiter_remaining_num_pkts \in [Flows -> Nat]
  /\ failed \in BOOLEAN /\ NetBag(net)

\* An announcement is the last one, or holds for as long as it is under way.
PacketOK(m) ==
  \/ /\ m \in RtsPacket /\ m.flow \in started
     /\ \/ m.remaining_num_pkts = -1 /\ m.flow \in sender_finished
        \/ /\ m.remaining_num_pkts \in 1 .. SizeInPkt[m.flow]
           /\ m.flow \notin early => m.remaining_num_pkts = sender_remaining_num_pkts[m.flow]
  \/ m \in FlowPacket /\ m.pkt \in Pkts(m.flow) /\ m.flow \in started
  \/ m \in SchedulePacket

PacketsOK == \A m \in DOMAIN net : PacketOK(m)

Bounded(f) ==
  /\ sender_remaining_num_pkts[f] <= SizeInPkt[f]
  /\ sender_last_pkt_sent[f] \in {-1} \union Pkts(f)
  /\ sender_acked[f] \subseteq Pkts(f)
  /\ arbiter_remaining_num_pkts[f] <= SizeInPkt[f]
  /\ f \in sender_finished <=> sender_acked[f] = Pkts(f)

\* What a flow has got or may get of the arbiter.
Granted(f) == arbiter_remaining_num_pkts[f] + sends[f] + Dues(f, net)

NotYet(f) ==
  f \notin started => /\ Granted(f) = 0 /\ timeouts[f] = 0
                      /\ sender_remaining_num_pkts[f] = SizeInPkt[f]

\* A sender has that many packets left that it has not sent since they were announced;
\* a timer that runs waits for the rest.
Balanced(f) ==
  f \notin early =>
    /\ sender_remaining_num_pkts[f] + Cardinality(sender_acked[f]) + Flights(f, net)
         <= SizeInPkt[f]
    /\ Granted(f) <= sender_remaining_num_pkts[f]
    /\ f \in started \ lost => Granted(f) = sender_remaining_num_pkts[f]
    /\ timeouts[f] <= 1
    /\ timeouts[f] = 1 => sender_remaining_num_pkts[f] = 0

FlowsOK == \A f \in Flows : Bounded(f) /\ NotYet(f) /\ Balanced(f)

Inv == Types /\ PacketsOK /\ FlowsOK /\ SendsHaveAPacket

(***************************************************************************)
(* The invariant holds of the first state, and every step keeps it.        *)
(***************************************************************************)
LEMMA AckedFacts ==
  ASSUME NEW f \in Flows, NEW S, S \subseteq Pkts(f)
  PROVE  /\ SizeInPkt[f] \in Nat /\ SizeInPkt[f] >= 1
         /\ IsFiniteSet(S) /\ Cardinality(S) \in Nat /\ Cardinality(S) <= SizeInPkt[f]
         /\ Cardinality(S) = SizeInPkt[f] <=> S = Pkts(f)
  <1>1. SizeInPkt[f] \in Nat /\ SizeInPkt[f] >= 1
    BY FastpassAssumption
  <1>2. IsFiniteSet(Pkts(f)) /\ Cardinality(Pkts(f)) = SizeInPkt[f]
    <2>1. 0 \in Int /\ SizeInPkt[f] - 1 \in Int
      BY <1>1
    <2>2. IsFiniteSet(0 .. SizeInPkt[f] - 1)
      BY ONLY <2>1, FS_Interval
    <2>3. Cardinality(0 .. SizeInPkt[f] - 1)
            = IF 0 > SizeInPkt[f] - 1 THEN 0 ELSE (SizeInPkt[f] - 1) - 0 + 1
      BY ONLY <2>1, FS_Interval
    <2> QED
      BY <1>1, <2>2, <2>3 DEF Pkts
  <1>3. S \in SUBSET Pkts(f)
    OBVIOUS
  <1>4. IsFiniteSet(S) /\ Cardinality(S) <= Cardinality(Pkts(f))
    BY <1>2, <1>3, FS_Subset
  <1>5. Cardinality(Pkts(f)) = Cardinality(S) => Pkts(f) = S
    BY <1>2, <1>3, FS_Subset
  <1>6. Cardinality(S) \in Nat
    BY <1>4, FS_CardinalityType
  <1> QED
    BY <1>1, <1>2, <1>4, <1>5, <1>6

LEMMA NumberTypes ==
  ASSUME Types, NEW f \in Flows
  PROVE  /\ sender_remaining_num_pkts[f] \in Nat /\ arbiter_remaining_num_pkts[f] \in Nat
         /\ sends[f] \in Nat /\ timeouts[f] \in Nat
         /\ Dues(f, net) \in Nat /\ Flights(f, net) \in Nat /\ Granted(f) \in Nat
         /\ SizeInPkt[f] \in Nat /\ SizeInPkt[f] >= 1
  <1>1. Dues(f, net) \in Nat /\ Flights(f, net) \in Nat
    BY NetWeights DEF Types
  <1>2. /\ sender_remaining_num_pkts[f] \in Nat /\ arbiter_remaining_num_pkts[f] \in Nat
        /\ sends[f] \in Nat /\ timeouts[f] \in Nat
    BY DEF Types
  <1>3. SizeInPkt[f] \in Nat /\ SizeInPkt[f] >= 1
    BY FastpassAssumption
  <1> QED
    BY <1>1, <1>2, <1>3 DEF Granted

LEMMA InvInit == Init => Inv
  <1> SUFFICES ASSUME Init PROVE Inv
    OBVIOUS
  <1>1. NetBag(net) /\ DOMAIN net = {}
    <2>1. net = EmptyBag /\ IsFiniteSet({})
      BY FS_EmptySet DEF Init
    <2> QED
      BY <2>1 DEF NetBag, EmptyBag, SetToBag, IsABag
  <1>2. Types
    <2>1. SizeInPkt \in [Flows -> Nat]
      BY FastpassAssumption
    <2>2. 0 \in 0 .. MaxFaults
      BY FastpassAssumption
    <2>3. /\ sender_last_pkt_sent \in [Flows -> Int] /\ timeouts \in [Flows -> Nat]
          /\ sends \in [Flows -> Nat] /\ arbiter_remaining_num_pkts \in [Flows -> Nat]
      BY DEF Init
    <2>4. sender_acked \in [Flows -> SUBSET Nat]
      BY DEF Init
    <2> QED
      BY <1>1, <2>1, <2>2, <2>3, <2>4 DEF Init, Types
  <1>3. PacketsOK
    BY <1>1 DEF PacketsOK
  <1>4. ASSUME NEW f \in Flows PROVE Bounded(f) /\ NotYet(f) /\ Balanced(f)
    <2>1. Dues(f, net) = 0 /\ Flights(f, net) = 0
      <3>1. Weighable(DueTo(f), net)
        BY <1>1, NetWeights
      <3>2. Weigh(DueTo(f), net) = 0
        BY <1>1, <3>1, WeighFacts
      <3> QED
        BY <1>1, <3>2, NetWeights DEF Dues
    <2>2. SizeInPkt[f] \in Nat /\ SizeInPkt[f] >= 1
      BY FastpassAssumption
    <2>3. Cardinality(sender_acked[f]) = 0 /\ sender_acked[f] = {} /\ 0 \in Pkts(f)
      BY <2>2, FS_EmptySet DEF Init, Pkts
    <2>4. Granted(f) = 0
      BY <2>1 DEF Granted, Init
    <2>5. Bounded(f)
      BY <2>2, <2>3 DEF Init, Bounded
    <2>6. NotYet(f)
      BY <2>4 DEF Init, NotYet
    <2>7. Balanced(f)
      BY <2>1, <2>2, <2>3, <2>4 DEF Init, Balanced
    <2> QED
      BY <2>5, <2>6, <2>7
  <1>5. SendsHaveAPacket
    BY DEF Init, SendsHaveAPacket
  <1> QED
    BY <1>2, <1>3, <1>4, <1>5 DEF Inv, FlowsOK

\* What a step that only moves the slots and packets of a flow leaves alone.
Same(f) ==
  /\ f \in started' <=> f \in started
  /\ f \in sender_finished' <=> f \in sender_finished
  /\ sender_remaining_num_pkts'[f] = sender_remaining_num_pkts[f]
  /\ sender_last_pkt_sent'[f] = sender_last_pkt_sent[f]
  /\ sender_acked'[f] = sender_acked[f] /\ timeouts'[f] = timeouts[f]
  /\ f \notin early => /\ Granted(f)' <= Granted(f)
                       /\ f \notin lost' => Granted(f)' = Granted(f)
  /\ arbiter_remaining_num_pkts'[f] <= SizeInPkt[f]
  /\ Flights(f, net') <= Flights(f, net)
  /\ f \in early => f \in early'
  /\ f \in lost => f \in lost'

LEMMA SameFlow ==
  ASSUME Inv, NEW f \in Flows, Same(f), Types'
  PROVE  Bounded(f)' /\ NotYet(f)' /\ Balanced(f)'
  <1>1. Bounded(f) /\ NotYet(f) /\ Balanced(f)
    BY DEF Inv, FlowsOK
  <1>2. /\ SizeInPkt[f] \in Nat /\ Cardinality(sender_acked[f]) \in Nat
        /\ sender_remaining_num_pkts[f] \in Nat /\ Flights(f, net) \in Nat
        /\ Granted(f) \in Nat /\ early \subseteq started
    BY <1>1, AckedFacts, NumberTypes DEF Bounded, Inv, Types
  <1>3. arbiter_remaining_num_pkts'[f] \in Nat /\ Flights(f, net') \in Nat /\ Granted(f)' \in Nat
    <2>1. NetBag(net')
      BY DEF Types
    <2>2. Flights(f, net') \in Nat /\ Dues(f, net') \in Nat
      BY <2>1, NetWeights
    <2>3. arbiter_remaining_num_pkts'[f] \in Nat /\ sends'[f] \in Nat
      BY DEF Types
    <2> QED
      BY <2>2, <2>3 DEF Granted
  <1>4. Bounded(f)'
    BY <1>1, <1>2, <1>3 DEF Bounded, Same
  <1>5. NotYet(f)'
    BY <1>1, <1>2, <1>3 DEF NotYet, Same
  <1>6. Balanced(f)'
    BY <1>1, <1>2, <1>3 DEF Balanced, Same
  <1> QED
    BY <1>4, <1>5, <1>6

\* A packet on its way weighs no more than all of them.
LEMMA DueBound ==
  ASSUME NetBag(net), NEW m \in DOMAIN net, NEW f \in Flows
  PROVE  Due(m, f) <= Dues(f, net) /\ Fly(m, f) <= Flights(f, net)
  <1>1. PICK C : C = net (-) One(m)
    OBVIOUS
  <1>2. /\ NetBag(C) /\ m \in Packet
        /\ Dues(f, net) = Dues(f, C) + Due(m, f)
        /\ Flights(f, net) = Flights(f, C) + Fly(m, f)
    BY <1>1, DropPacket
  <1>3. Dues(f, C) \in Nat /\ Flights(f, C) \in Nat
    BY <1>2, NetWeights
  <1>4. Due(m, f) \in Nat /\ Fly(m, f) \in Nat
    BY <1>2, PacketWeights
  <1> QED
    BY <1>2, <1>3, <1>4

\* start_flow
LEMMA StartStep == ASSUME Inv, NEW f \in Flows, StartFlow(f) PROVE Inv'
  <1>1. PICK m : m = Rts(f, sender_remaining_num_pkts[f])
    OBVIOUS
  <1>2. /\ Types /\ Bounded(f) /\ NotYet(f) /\ Balanced(f)
        /\ SizeInPkt[f] \in Nat /\ SizeInPkt[f] >= 1 /\ f \notin started
        /\ sender_remaining_num_pkts[f] = SizeInPkt[f] /\ Granted(f) = 0
    BY NumberTypes DEF Inv, FlowsOK, NotYet, StartFlow
  <1>3. m \in RtsPacket /\ m.flow = f /\ m.remaining_num_pkts = SizeInPkt[f] /\ m \in Packet
    BY <1>1, <1>2 DEF Rts, RtsPacket, Packet
  <1>4. net' = net (+) One(m)
    BY <1>1 DEF StartFlow
  <1>5. /\ NetBag(net') /\ DOMAIN net' = DOMAIN net \union {m}
        /\ \A g \in Flows : /\ Dues(g, net') = Dues(g, net) + Due(m, g)
                            /\ Flights(g, net') = Flights(g, net) + Fly(m, g)
    <2>1. NetBag(net)
      BY <1>2 DEF Types
    <2>2. Added(net, m, net (+) One(m))
      BY <1>3, <2>1, AddPacket
    <2> QED
      BY <1>4, <2>2 DEF Added
  <1>6. Types'
    BY <1>2, <1>5 DEF Types, StartFlow, sending, acking, arbiter, history
  <1>7. PacketsOK'
    <2>1. ASSUME NEW k \in DOMAIN net PROVE PacketOK(k)'
      <3>1. PacketOK(k)
        BY DEF Inv, PacketsOK
      <3> QED
        BY <3>1 DEF PacketOK, StartFlow, sending, acking, history
    <2>2. PacketOK(m)'
      BY <1>2, <1>3 DEF PacketOK, StartFlow, sending, acking, history
    <2> QED
      BY <1>5, <2>1, <2>2 DEF PacketsOK
  <1>8. ASSUME NEW g \in Flows, g # f PROVE Same(g)
    <2>1. Due(m, g) = 0 /\ Fly(m, g) = 0
      BY <1>3, <1>8, PacketWeights
    <2>2. Dues(g, net') = Dues(g, net) /\ Flights(g, net') = Flights(g, net)
      BY <1>2, <1>5, <2>1, NumberTypes
    <2>3. arbiter_remaining_num_pkts[g] <= SizeInPkt[g]
      BY DEF Inv, FlowsOK, Bounded
    <2> QED
      BY <1>2, <1>8, <2>2, <2>3, NumberTypes
      DEF Same, StartFlow, sending, acking, arbiter, history, Granted
  <1>9. Bounded(f)' /\ NotYet(f)' /\ Balanced(f)'
    <2>1. Due(m, f) = SizeInPkt[f] /\ Fly(m, f) = 0
      BY <1>2, <1>3, PacketWeights
    <2>2. /\ Dues(f, net') = Dues(f, net) + SizeInPkt[f] /\ Flights(f, net') = Flights(f, net)
          /\ Dues(f, net) \in Nat /\ sends[f] \in Nat /\ arbiter_remaining_num_pkts[f] \in Nat
      BY <1>2, <1>5, <2>1, NumberTypes
    <2>3. Granted(f)' = SizeInPkt[f]
      BY <1>2, <2>2 DEF Granted, StartFlow, sending, arbiter
    <2>4. Bounded(f)'
      BY <1>2 DEF Bounded, StartFlow, sending, acking, arbiter
    <2>5. NotYet(f)'
      BY DEF NotYet, StartFlow
    <2>6. Balanced(f)'
      BY <1>2, <2>2, <2>3 DEF Balanced, StartFlow, sending, acking, history
    <2> QED
      BY <2>4, <2>5, <2>6
  <1>10. FlowsOK'
    BY <1>6, <1>8, <1>9, SameFlow DEF FlowsOK
  <1>11. SendsHaveAPacket'
    BY DEF Inv, SendsHaveAPacket, StartFlow, history
  <1> QED
    BY <1>6, <1>7, <1>10, <1>11 DEF Inv

\* The kind of a packet is its type.
LEMMA PacketKinds ==
  ASSUME Inv, NEW m \in DOMAIN net
  PROVE  /\ m \in Packet /\ PacketOK(m) /\ Types
         /\ m.type = "RTS" => m \in RtsPacket
         /\ m.type \in {"DATA", "ACK"} => m \in FlowPacket
         /\ m.type = "SCHEDULE" => m \in SchedulePacket
  <1>1. m \in Packet /\ PacketOK(m) /\ Types
    BY DEF Inv, Types, NetBag, PacketsOK
  <1>2. m \in RtsPacket => m.type = "RTS"
    BY DEF RtsPacket
  <1>3. m \in FlowPacket => m.type \in {"DATA", "ACK"}
    BY DEF FlowPacket
  <1>4. m \in SchedulePacket => m.type = "SCHEDULE"
    BY DEF SchedulePacket
  <1> QED
    BY <1>1, <1>2, <1>3, <1>4 DEF Packet

\* Steps that change nothing an announcement under way says.
LEMMA PacketsStay ==
  ASSUME Inv, started' = started, sender_finished \subseteq sender_finished',
         sender_remaining_num_pkts' = sender_remaining_num_pkts, early \subseteq early'
  PROVE  \A m \in DOMAIN net : PacketOK(m)'
  <1> SUFFICES ASSUME NEW m \in DOMAIN net PROVE PacketOK(m)'
    OBVIOUS
  <1>1. PacketOK(m)
    BY DEF Inv, PacketsOK
  <1> QED
    BY <1>1 DEF PacketOK

LEMMA SameFlows ==
  ASSUME Inv, Types', \A f \in Flows : Same(f)
  PROVE  FlowsOK'
  BY SameFlow DEF FlowsOK

\* receive_schedule_pkt
LEMMA ScheduleReceived == ASSUME Inv, NEW m \in DOMAIN net, ReceiveSchedule(m) PROVE Inv'
  <1>1. m \in SchedulePacket /\ m \in Packet /\ Types /\ m.slots \in [Flows -> Nat]
    BY PacketKinds DEF ReceiveSchedule, SchedulePacket
  <1>2. /\ NetBag(net') /\ DOMAIN net' \subseteq DOMAIN net
        /\ \A f \in Flows : /\ Dues(f, net) = Dues(f, net') + Due(m, f)
                            /\ Flights(f, net) = Flights(f, net') + Fly(m, f)
    BY <1>1, DropPacket DEF ReceiveSchedule, Types
  <1>3. sends' = [f \in Flows |-> sends[f] + m.slots[f]]
    BY DEF ReceiveSchedule
  <1>4. Types'
    <2>1. sends' \in [Flows -> Nat]
      BY <1>1, <1>3 DEF Types
    <2> QED
      BY <1>1, <1>2, <2>1 DEF Types, ReceiveSchedule, acking, arbiter, history
  <1>5. PacketsOK'
    BY <1>2, PacketsStay DEF PacketsOK, ReceiveSchedule, acking, history
  <1>6. ASSUME NEW f \in Flows PROVE Same(f)
    <2>1. Due(m, f) = m.slots[f] /\ Fly(m, f) = 0 /\ m.slots[f] \in Nat
      BY <1>1, PacketWeights
    <2>2. /\ Dues(f, net) = Dues(f, net') + m.slots[f] /\ Flights(f, net) = Flights(f, net')
          /\ Dues(f, net') \in Nat /\ Flights(f, net') \in Nat
      BY <1>2, <2>1, NetWeights
    <2>3. sends'[f] = sends[f] + m.slots[f]
      BY <1>3
    <2>4. arbiter_remaining_num_pkts[f] <= SizeInPkt[f]
      BY DEF Inv, FlowsOK, Bounded
    <2>5. Granted(f)' = Granted(f)
      BY <1>1, <2>1, <2>2, <2>3, NumberTypes DEF Granted, ReceiveSchedule, arbiter
    <2>6. Granted(f) \in Nat
      BY <1>1, NumberTypes
    <2> QED
      BY <2>2, <2>4, <2>5, <2>6 DEF Same, ReceiveSchedule, acking, arbiter, history
  <1>7. SendsHaveAPacket'
    BY DEF Inv, SendsHaveAPacket, ReceiveSchedule, history
  <1> QED
    BY <1>4, <1>5, <1>6, <1>7, SameFlows DEF Inv

\* receive: a data packet is acknowledged
LEMMA DataReceived == ASSUME Inv, NEW m \in DOMAIN net, ReceiveData(m) PROVE Inv'
  <1>1. m \in FlowPacket /\ m \in Packet /\ Types /\ PacketOK(m) /\ NetBag(net)
    BY PacketKinds DEF ReceiveData, Types
  <1>2. PICK a : a = Ack(m.flow, m.pkt)
    OBVIOUS
  <1>3. PICK C : C = net (-) One(m)
    OBVIOUS
  <1>4. /\ NetBag(C) /\ DOMAIN C \subseteq DOMAIN net
        /\ \A f \in Flows : /\ Dues(f, net) = Dues(f, C) + Due(m, f)
                            /\ Flights(f, net) = Flights(f, C) + Fly(m, f)
    BY <1>1, <1>3, DropPacket
  <1>5. a \in FlowPacket /\ a \in Packet /\ a.flow = m.flow /\ a.pkt = m.pkt
    BY <1>1, <1>2 DEF Ack, FlowPacket, Packet
  <1>6. net' = C (+) One(a)
    BY <1>2, <1>3 DEF ReceiveData
  <1>7. /\ NetBag(net') /\ DOMAIN net' = DOMAIN C \union {a}
        /\ \A f \in Flows : /\ Dues(f, net') = Dues(f, C) + Due(a, f)
                            /\ Flights(f, net') = Flights(f, C) + Fly(a, f)
    <2>1. Added(C, a, C (+) One(a))
      BY <1>4, <1>5, AddPacket
    <2> QED
      BY <1>6, <2>1 DEF Added
  <1>8. Types'
    BY <1>1, <1>7 DEF Types, ReceiveData, sending, acking, arbiter, history
  <1>9. PacketsOK'
    <2>1. m \notin RtsPacket /\ m \notin SchedulePacket
      <3>1. m.type = "DATA"
        BY DEF ReceiveData
      <3> QED
        BY <3>1 DEF RtsPacket, SchedulePacket
    <2>2. m.pkt \in Pkts(m.flow) /\ m.flow \in started
      BY <1>1, <2>1 DEF PacketOK
    <2>3. PacketOK(a)'
      BY <1>5, <2>2 DEF PacketOK, ReceiveData
    <2>4. \A k \in DOMAIN net : PacketOK(k)'
      BY PacketsStay DEF ReceiveData, sending, acking, history
    <2> QED
      BY <1>4, <1>7, <2>3, <2>4 DEF PacketsOK
  <1>10. ASSUME NEW f \in Flows PROVE Same(f)
    <2>1. Due(m, f) = 0 /\ Due(a, f) = 0 /\ Fly(m, f) = Fly(a, f) /\ Fly(m, f) \in Nat
      BY <1>1, <1>5, PacketWeights
    <2>2. Dues(f, C) \in Nat /\ Flights(f, C) \in Nat
      BY <1>4, NetWeights
    <2>3. Dues(f, net') = Dues(f, net) /\ Flights(f, net') = Flights(f, net)
      BY <1>4, <1>7, <2>1, <2>2
    <2>4. arbiter_remaining_num_pkts[f] <= SizeInPkt[f] /\ Granted(f) \in Nat
          /\ Flights(f, net) \in Nat
      BY <1>1, NumberTypes DEF Inv, FlowsOK, Bounded
    <2>5. Granted(f)' = Granted(f)
      BY <2>3 DEF Granted, ReceiveData, sending, arbiter
    <2> QED
      BY <2>3, <2>4, <2>5 DEF Same, ReceiveData, sending, acking, arbiter, history
  <1>11. SendsHaveAPacket'
    BY DEF Inv, SendsHaveAPacket, ReceiveData, history
  <1> QED
    BY <1>8, <1>9, <1>10, <1>11, SameFlows DEF Inv

\* Queue::drop
LEMMA LoseStep == ASSUME Inv, NEW m \in DOMAIN net, Lose(m) PROVE Inv'
  <1>1. m \in Packet /\ Types /\ NetBag(net)
    BY PacketKinds DEF Types
  <1>2. /\ NetBag(net') /\ DOMAIN net' \subseteq DOMAIN net
        /\ \A f \in Flows : /\ Dues(f, net) = Dues(f, net') + Due(m, f)
                            /\ Flights(f, net) = Flights(f, net') + Fly(m, f)
    BY <1>1, DropPacket DEF Lose
  <1>3. FlowsOf(m) \subseteq Flows
    <2>1. m \in RtsPacket \union FlowPacket => m.flow \in Flows
      BY DEF RtsPacket, FlowPacket
    <2>2. m \in SchedulePacket => m.type = "SCHEDULE"
      BY DEF SchedulePacket
    <2> QED
      BY <1>1, <2>1, <2>2 DEF FlowsOf, Packet
  <1>4. Types'
    <2>1. faults' \in 0 .. MaxFaults
      BY <1>1, FastpassAssumption DEF Types, Lose, Fault
    <2>2. lost' \subseteq Flows
      BY <1>1, <1>3 DEF Types, Lose
    <2> QED
      BY <1>1, <1>2, <2>1, <2>2 DEF Types, Lose, sending, acking, arbiter
  <1>5. PacketsOK'
    BY <1>2, PacketsStay DEF PacketsOK, Lose, sending, acking
  <1>6. ASSUME NEW f \in Flows PROVE Same(f)
    <2>1. /\ Due(m, f) \in Nat /\ Fly(m, f) \in Nat
          /\ Dues(f, net') \in Nat /\ Flights(f, net') \in Nat
          /\ arbiter_remaining_num_pkts[f] \in Nat /\ sends[f] \in Nat
      BY <1>1, <1>2, PacketWeights, NetWeights, NumberTypes
    <2>2. f \notin lost' => Due(m, f) = 0
      <3> SUFFICES ASSUME f \notin lost', Due(m, f) # 0 PROVE FALSE
        OBVIOUS
      <3>1. m.type \in {"RTS", "SCHEDULE"} /\ f \in FlowsOf(m)
        BY <2>1 DEF Due, FlowsOf
      <3> QED
        BY <3>1 DEF Lose
    <2>3. arbiter_remaining_num_pkts[f] <= SizeInPkt[f]
      BY DEF Inv, FlowsOK, Bounded
    <2>4. Flights(f, net') <= Flights(f, net) /\ Dues(f, net') <= Dues(f, net)
      BY <1>2, <2>1
    <2>5. f \notin lost' => Dues(f, net') = Dues(f, net)
      BY <1>2, <2>1, <2>2
    <2>6. Dues(f, net) \in Nat
      BY <1>1, NumberTypes
    <2>7. Granted(f)' <= Granted(f) /\ (f \notin lost' => Granted(f)' = Granted(f))
      BY <2>1, <2>4, <2>5, <2>6 DEF Granted, Lose, sending, arbiter
    <2>8. f \in lost => f \in lost'
      BY DEF Lose
    <2> QED
      BY <2>3, <2>4, <2>7, <2>8 DEF Same, Lose, sending, acking, arbiter
  <1>7. SendsHaveAPacket'
    BY DEF Inv, SendsHaveAPacket, Lose
  <1> QED
    BY <1>4, <1>5, <1>6, <1>7, SameFlows DEF Inv

\* receive_rts: nothing is granted of a flow that is announced, so that the number
\* announced can take the place of the one the arbiter had.
LEMMA RtsReceived == ASSUME Inv, NEW m \in DOMAIN net, ReceiveRts(m) PROVE Inv'
  <1>1. m \in RtsPacket /\ m \in Packet /\ Types /\ PacketOK(m) /\ NetBag(net)
    BY PacketKinds DEF ReceiveRts, Types
  <1>2. /\ NetBag(net') /\ DOMAIN net' \subseteq DOMAIN net
        /\ \A f \in Flows : /\ Dues(f, net) = Dues(f, net') + Due(m, f)
                            /\ Flights(f, net) = Flights(f, net') + Fly(m, f)
    BY <1>1, DropPacket DEF ReceiveRts
  <1>3. PICK g \in Flows : g = m.flow
    BY <1>1 DEF RtsPacket
  <1>4. PICK n \in Int : n = m.remaining_num_pkts
    BY <1>1 DEF RtsPacket
  <1>5. PICK k \in Nat : k = (IF n > 0 THEN n ELSE 0) /\ Max({0, n}) = k
    BY MaxZero
  <1>6. /\ g \in started
        /\ \/ n = -1 /\ g \in sender_finished
           \/ /\ n \in 1 .. SizeInPkt[g]
              /\ g \notin early => n = sender_remaining_num_pkts[g]
    <2>1. m.type = "RTS"
      BY DEF ReceiveRts
    <2>2. m \notin FlowPacket /\ m \notin SchedulePacket
      BY <2>1 DEF FlowPacket, SchedulePacket
    <2> QED
      BY <1>1, <1>3, <1>4, <2>2 DEF PacketOK
  <1>7. arbiter_remaining_num_pkts' = [arbiter_remaining_num_pkts EXCEPT ![g] = k]
    BY <1>3, <1>4, <1>5 DEF ReceiveRts
  <1>8. Types'
    <2>1. arbiter_remaining_num_pkts' \in [Flows -> Nat]
      BY <1>1, <1>7 DEF Types
    <2>2. arbiter_flows' \subseteq started' /\ arbiter_finished' \subseteq arbiter_flows'
      BY <1>1, <1>3, <1>6 DEF Types, ReceiveRts
    <2> QED
      BY <1>1, <1>2, <2>1, <2>2 DEF Types, ReceiveRts, sending, acking, history
  <1>9. PacketsOK'
    BY <1>2, PacketsStay DEF PacketsOK, ReceiveRts, sending, acking, history
  <1>10. ASSUME NEW f \in Flows PROVE Same(f)
    <2>1. /\ Dues(f, net') \in Nat /\ Flights(f, net') \in Nat /\ Flights(f, net) \in Nat
          /\ arbiter_remaining_num_pkts[f] \in Nat /\ sends[f] \in Nat
          /\ sender_remaining_num_pkts[f] \in Nat
          /\ SizeInPkt[f] \in Nat /\ SizeInPkt[f] >= 1
          /\ Granted(f) \in Nat /\ Dues(f, net) \in Nat
      BY <1>1, <1>2, NetWeights, NumberTypes
    <2>2. /\ Fly(m, f) = 0 /\ (f # g => Due(m, f) = 0) /\ (f = g => Due(m, f) = k)
      BY <1>1, <1>3, <1>4, <1>5, PacketWeights
    <2>3. /\ Flights(f, net') = Flights(f, net)
          /\ f # g => Dues(f, net) = Dues(f, net')
          /\ f = g => Dues(f, net) = Dues(f, net') + k
      BY <1>2, <2>1, <2>2
    <2>4. Bounded(f) /\ Balanced(f)
      BY DEF Inv, FlowsOK
    <2>5. arbiter_remaining_num_pkts'[f] = IF f = g THEN k ELSE arbiter_remaining_num_pkts[f]
      BY <1>1, <1>7 DEF Types
    <2>6. arbiter_remaining_num_pkts'[f] <= SizeInPkt[f]
      BY <1>5, <1>6, <2>1, <2>4, <2>5 DEF Bounded
    <2>7. Granted(f)' = arbiter_remaining_num_pkts'[f] + sends[f] + Dues(f, net')
      BY DEF Granted, ReceiveRts, sending
    <2>8. CASE f # g
      <3>1. Granted(f)' = Granted(f)
        BY <2>3, <2>5, <2>7, <2>8 DEF Granted
      <3> QED
        BY <2>1, <2>3, <2>6, <3>1 DEF Same, ReceiveRts, sending, acking, history
    <2>9. CASE f = g /\ f \in early
      BY <2>1, <2>3, <2>6, <2>9 DEF Same, ReceiveRts, sending, acking, history
    <2>10. CASE f = g /\ f \notin early
      <3>1. Granted(f) <= sender_remaining_num_pkts[f]
        BY <2>4, <2>10 DEF Balanced
      <3>2. arbiter_remaining_num_pkts[f] = 0
        <4>1. CASE n = -1
          <5>1. sender_acked[f] = Pkts(f)
            BY <1>6, <2>4, <2>10, <4>1 DEF Bounded
          <5>2. Cardinality(sender_acked[f]) = SizeInPkt[f]
            BY <5>1, AckedFacts
          <5>3. sender_remaining_num_pkts[f] = 0
            BY <2>1, <2>4, <2>10, <5>2 DEF Balanced
          <5> QED
            BY <2>1, <3>1, <5>3 DEF Granted
        <4>2. CASE n # -1
          <5>1. k = sender_remaining_num_pkts[f]
            BY <1>5, <1>6, <2>10, <4>2
          <5> QED
            BY <2>1, <2>3, <2>10, <3>1, <5>1 DEF Granted
        <4> QED
          BY <4>1, <4>2
      <3>3. Granted(f)' = Granted(f)
        BY <2>1, <2>3, <2>5, <2>7, <2>10, <3>2 DEF Granted
      <3> QED
        BY <2>1, <2>3, <2>6, <3>3 DEF Same, ReceiveRts, sending, acking, history
    <2> QED
      BY <2>8, <2>9, <2>10
  <1>11. SendsHaveAPacket'
    BY DEF Inv, SendsHaveAPacket, ReceiveRts, history
  <1> QED
    BY <1>8, <1>9, <1>10, <1>11, SameFlows DEF Inv

(***************************************************************************)
(* An epoch.                                                               *)
(***************************************************************************)
\* The slots of an epoch that a flow has are no more than the arbiter had left for it.
LEMMA TakenFacts ==
  ASSUME Types, NEW epoch \in Epochs, NEW f \in Flows
  PROVE  /\ Taken(epoch, EpochPkts)[f] \in Nat
         /\ Taken(epoch, EpochPkts)[f] <= arbiter_remaining_num_pkts[f]
  <1> DEFINE I(n) == {i \in 1 .. n : f \in epoch[i]}
  <1>1. EpochPkts \in Nat /\ arbiter_remaining_num_pkts[f] \in Nat
    BY FastpassAssumption DEF Types
  <1>2. \A n \in Nat : IsFiniteSet(I(n)) /\ Cardinality(I(n)) \in Nat
    <2> SUFFICES ASSUME NEW n \in Nat PROVE IsFiniteSet(I(n)) /\ Cardinality(I(n)) \in Nat
      OBVIOUS
    <2>1. IsFiniteSet(1 .. n)
      BY FS_Interval
    <2>2. I(n) \in SUBSET (1 .. n)
      OBVIOUS
    <2> QED
      BY <2>1, <2>2, FS_Subset, FS_CardinalityType
  <1>3. \A n : Taken(epoch, n)[f] = Cardinality(I(n))
    BY DEF Taken
  <1>4. CASE I(EpochPkts) = {}
    BY <1>1, <1>3, <1>4, FS_EmptySet
  <1>5. CASE I(EpochPkts) # {}
    <2>1. I(EpochPkts) \subseteq 0 .. EpochPkts
      BY <1>1
    <2>2. PICK m \in I(EpochPkts) : \A i \in I(EpochPkts) : i <= m
      BY <1>1, <1>5, <2>1, MaxFacts
    <2>3. m \in 1 .. EpochPkts /\ f \in epoch[m]
      BY <2>2
    <2>4. PICK n \in Nat : n = m - 1 /\ n < m
      BY <1>1, <2>3
    <2>5. Timeslot(epoch[m], [g \in Flows |->
                                arbiter_remaining_num_pkts[g] - Taken(epoch, n)[g]])
      BY <2>3, <2>4 DEF Epochs
    <2>6. f \in Able([g \in Flows |-> arbiter_remaining_num_pkts[g] - Taken(epoch, n)[g]])
      BY <2>3, <2>5 DEF Timeslot
    <2>7. arbiter_remaining_num_pkts[f] - Taken(epoch, n)[f] > 0
      BY <2>6 DEF Able
    <2>8. I(EpochPkts) = I(n) \union {m} /\ m \notin I(n)
      <3>1. \A i \in I(EpochPkts) : i = m \/ i \in 1 .. n
        BY <1>1, <2>2, <2>4
      <3>2. \A i \in 1 .. n : i \in 1 .. EpochPkts /\ i # m
        BY <1>1, <2>3, <2>4
      <3> QED
        BY <2>2, <3>1, <3>2
    <2> HIDE DEF I
    <2>9. Cardinality(I(EpochPkts)) = Cardinality(I(n)) + 1
      BY <1>2, <2>8, FS_AddElement
    <2> QED
      BY <1>1, <1>2, <1>3, <2>7, <2>9
  <1> QED
    BY <1>4, <1>5

\* The slots of the hosts: a flow has them in the schedule of its source.
SlotsOf(count) == [h \in Hosts |-> [f \in Flows |-> IF Src[f] = h THEN count[f] ELSE 0]]
Told(count) == {h \in Hosts : \E f \in Flows : SlotsOf(count)[h][f] > 0}
Schedules(count) == {Schedule(SlotsOf(count)[h]) : h \in Told(count)}

LEMMA ScheduleWeights ==
  ASSUME NEW count \in [Flows -> Nat]
  PROVE  /\ IsFiniteSet(Schedules(count)) /\ Schedules(count) \subseteq SchedulePacket
         /\ \A f \in Flows : /\ SumFunctionOnSet(DueTo(f), Schedules(count)) = count[f]
                             /\ SumFunctionOnSet(IsOf(f), Schedules(count)) = 0
  <1>1. Src \in [Flows -> Hosts]
    BY FastpassAssumption
  <1>2. \A h \in Hosts : SlotsOf(count)[h] \in [Flows -> Nat]
    BY DEF SlotsOf
  <1>3. \A h \in Hosts, f \in Flows : SlotsOf(count)[h][f] = IF Src[f] = h THEN count[f] ELSE 0
    BY DEF SlotsOf
  <1>4. Schedules(count) \subseteq SchedulePacket
    BY <1>2 DEF Schedules, Told, Schedule, SchedulePacket
  <1>5. IsFiniteSet(Schedules(count))
    <2>1. IsFiniteSet(Flows)
      BY FastpassAssumption, FS_Interval DEF Flows
    <2> DEFINE All == {Schedule(SlotsOf(count)[Src[f]]) : f \in Flows}
    <2>2. [f \in Flows |-> Schedule(SlotsOf(count)[Src[f]])] \in Surjection(Flows, All)
      BY DEF Surjection
    <2> HIDE DEF All
    <2>3. Schedules(count) \in SUBSET All
      BY <1>3 DEF Schedules, Told, All
    <2>4. IsFiniteSet(All)
      BY <2>1, <2>2, FS_Surjection
    <2> QED
      BY <2>3, <2>4, FS_Subset
  <1>6. ASSUME NEW f \in Flows, NEW m \in Schedules(count)
        PROVE  /\ DueTo(f)[m] = m.slots[f] /\ m.slots[f] \in Nat /\ IsOf(f)[m] = 0
    <2>1. m \in SchedulePacket /\ m \in Packet
      BY <1>4 DEF Packet
    <2>2. Due(m, f) = m.slots[f] /\ Fly(m, f) = 0 /\ m.slots[f] \in Nat
      BY <2>1, PacketWeights
    <2> QED
      BY <2>1, <2>2 DEF DueTo, IsOf
  <1>7. ASSUME NEW f \in Flows
        PROVE  /\ SumFunctionOnSet(DueTo(f), Schedules(count)) = count[f]
               /\ SumFunctionOnSet(IsOf(f), Schedules(count)) = 0
    <2>1. SumFunctionOnSet(IsOf(f), Schedules(count)) = 0
      BY <1>5, <1>6, SumNone
    <2>2. PICK b : b = Schedule(SlotsOf(count)[Src[f]])
      OBVIOUS
    <2>3. b.slots[f] = count[f] /\ Src[f] \in Hosts /\ count[f] \in Nat
      BY <1>1, <1>3, <2>2 DEF Schedule
    <2>4. ASSUME NEW m \in Schedules(count), m # b PROVE DueTo(f)[m] = 0
      <3>1. PICK h \in Hosts : m = Schedule(SlotsOf(count)[h])
        BY DEF Schedules, Told
      <3>2. h # Src[f]
        BY <2>2, <2>4, <3>1
      <3>3. m.slots[f] = 0
        BY <1>3, <3>1, <3>2 DEF Schedule
      <3> QED
        BY <1>6, <3>3
    <2>5. CASE b \in Schedules(count)
      <3>1. SumFunctionOnSet(DueTo(f), Schedules(count))
              = DueTo(f)[b] + SumFunctionOnSet(DueTo(f), Schedules(count) \ {b})
        BY <1>5, <1>6, <2>5, SumFacts
      <3>2. IsFiniteSet(Schedules(count) \ {b})
        BY <1>5, FS_Subset
      <3>3. SumFunctionOnSet(DueTo(f), Schedules(count) \ {b}) = 0
        BY <2>4, <3>2, SumNone
      <3> QED
        BY <1>6, <2>1, <2>3, <2>5, <3>1, <3>3
    <2>6. CASE b \notin Schedules(count)
      <3>1. count[f] = 0
        BY <1>3, <2>2, <2>3, <2>6 DEF Schedules, Told
      <3>2. \A m \in Schedules(count) : DueTo(f)[m] = 0
        BY <2>4, <2>6
      <3>3. SumFunctionOnSet(DueTo(f), Schedules(count)) = 0
        BY <1>5, <3>2, SumNone
      <3> QED
        BY <2>1, <3>1, <3>3
    <2> QED
      BY <2>5, <2>6
  <1> QED
    BY <1>4, <1>5, <1>7

\* schedule_epoch
LEMMA EpochStep == ASSUME Inv, ScheduleEpoch PROVE Inv'
  <1>1. Types /\ NetBag(net)
    BY DEF Inv, Types
  <1>2. PICK epoch \in Epochs :
          LET count == Taken(epoch, EpochPkts)
              of == [h \in Hosts |-> [f \in Flows |-> IF Src[f] = h THEN count[f] ELSE 0]]
              told == {h \in Hosts : \E f \in Flows : of[h][f] > 0}
          IN /\ arbiter_remaining_num_pkts' =
                  [f \in Flows |-> arbiter_remaining_num_pkts[f] - count[f]]
             /\ net' = net (+) SetToBag({Schedule(of[h]) : h \in told})
    BY DEF ScheduleEpoch
  <1>3. PICK count : count = Taken(epoch, EpochPkts)
    OBVIOUS
  <1>4. \A f \in Flows : count[f] \in Nat /\ count[f] <= arbiter_remaining_num_pkts[f]
    BY <1>1, <1>3, TakenFacts
  <1>5. count \in [Flows -> Nat]
    BY <1>3, <1>4 DEF Taken
  <1>6. /\ arbiter_remaining_num_pkts' = [f \in Flows |-> arbiter_remaining_num_pkts[f] - count[f]]
        /\ net' = net (+) SetToBag(Schedules(count))
    BY <1>2, <1>3 DEF Schedules, Told, SlotsOf
  <1>7. PICK T : T = Schedules(count)
    OBVIOUS
  <1>8. /\ IsFiniteSet(T) /\ T \subseteq SchedulePacket /\ T \subseteq Packet
        /\ \A f \in Flows : /\ SumFunctionOnSet(DueTo(f), T) = count[f]
                            /\ SumFunctionOnSet(IsOf(f), T) = 0
    BY <1>5, <1>7, ScheduleWeights DEF Packet
  <1>9. ASSUME NEW f \in Flows
        PROVE  /\ Dues(f, net') = Dues(f, net) + count[f]
               /\ Flights(f, net') = Flights(f, net)
    <2>1. \A m \in T : DueTo(f)[m] \in Nat /\ IsOf(f)[m] \in Nat
      <3>1. \A m \in Packet : DueTo(f)[m] = Due(m, f) /\ IsOf(f)[m] = Fly(m, f)
        BY DEF DueTo, IsOf
      <3> QED
        BY <1>8, <3>1, PacketWeights
    <2>2. /\ Weigh(DueTo(f), net') = Weigh(DueTo(f), net) + count[f]
          /\ Weigh(IsOf(f), net') = Weigh(IsOf(f), net) + 0
      <3>1. Weighable(DueTo(f), net) /\ Weighable(IsOf(f), net)
        BY <1>1, NetWeights
      <3>2. net' = net (+) SetToBag(T)
        BY <1>6, <1>7
      <3>3. Weigh(DueTo(f), net') = Weigh(DueTo(f), net) + SumFunctionOnSet(DueTo(f), T)
        BY <1>8, <2>1, <3>1, <3>2, WeighPlus
      <3>4. Weigh(IsOf(f), net') = Weigh(IsOf(f), net) + SumFunctionOnSet(IsOf(f), T)
        BY <1>8, <2>1, <3>1, <3>2, WeighPlus
      <3> QED
        BY <1>8, <3>3, <3>4
    <2>3. Weigh(IsOf(f), net) \in Nat
      BY <1>1, NetWeights DEF Flights
    <2> QED
      BY <2>2, <2>3 DEF Dues, Flights
  <1>10. NetBag(net') /\ DOMAIN net' = DOMAIN net \union T
    BY <1>1, <1>6, <1>7, <1>8, NetPlus
  <1>11. Types'
    <2>1. \A f \in Flows : arbiter_remaining_num_pkts[f] - count[f] \in Nat
      BY <1>1, <1>4 DEF Types
    <2>2. arbiter_remaining_num_pkts' \in [Flows -> Nat]
      BY <1>6, <2>1
    <2> QED
      BY <1>1, <1>10, <2>2 DEF Types, ScheduleEpoch, sending, acking, history
  <1>12. PacketsOK'
    <2>1. \A m \in T : PacketOK(m)'
      BY <1>8 DEF PacketOK
    <2>2. \A m \in DOMAIN net : PacketOK(m)'
      BY PacketsStay DEF ScheduleEpoch, sending, acking, history
    <2> QED
      BY <1>10, <2>1, <2>2 DEF PacketsOK
  <1>13. ASSUME NEW f \in Flows PROVE Same(f)
    <2>1. /\ Dues(f, net) \in Nat /\ Flights(f, net) \in Nat /\ sends[f] \in Nat
          /\ arbiter_remaining_num_pkts[f] \in Nat /\ Granted(f) \in Nat
          /\ SizeInPkt[f] \in Nat
      BY <1>1, NumberTypes
    <2>2. arbiter_remaining_num_pkts[f] <= SizeInPkt[f]
      BY DEF Inv, FlowsOK, Bounded
    <2>3. arbiter_remaining_num_pkts'[f] = arbiter_remaining_num_pkts[f] - count[f]
      BY <1>6
    <2>4. Granted(f)' = arbiter_remaining_num_pkts'[f] + sends[f] + Dues(f, net')
      BY DEF Granted, ScheduleEpoch, sending
    <2>5. Granted(f)' = Granted(f)
      BY <1>4, <1>9, <2>1, <2>3, <2>4 DEF Granted
    <2>6. arbiter_remaining_num_pkts'[f] <= SizeInPkt[f]
      BY <1>4, <2>1, <2>2, <2>3
    <2>7. Flights(f, net') <= Flights(f, net) /\ Granted(f)' <= Granted(f)
      BY <1>9, <2>1, <2>5
    <2> QED
      BY <2>5, <2>6, <2>7 DEF Same, ScheduleEpoch, sending, acking, history
  <1>14. SendsHaveAPacket'
    BY DEF Inv, SendsHaveAPacket, ScheduleEpoch, history
  <1> QED
    BY <1>11, <1>12, <1>13, <1>14, SameFlows DEF Inv

\* receive: an acknowledgement
LEMMA AckReceived == ASSUME Inv, NEW m \in DOMAIN net, ReceiveAck(m) PROVE Inv'
  <1>1. m \in FlowPacket /\ m \in Packet /\ Types /\ PacketOK(m) /\ NetBag(net)
    BY PacketKinds DEF ReceiveAck, Types
  <1>2. PICK f \in Flows : f = m.flow
    BY <1>1 DEF FlowPacket
  <1>3. PICK got : got = sender_acked[f] \union {m.pkt}
    OBVIOUS
  <1>4. PICK finishes \in BOOLEAN : finishes = (f \notin sender_finished /\ got = Pkts(f))
    OBVIOUS
  <1>5. PICK C : C = net (-) One(m)
    OBVIOUS
  <1>6. /\ sender_acked' = [sender_acked EXCEPT ![f] = got]
        /\ sender_finished' = IF finishes THEN sender_finished \union {f} ELSE sender_finished
        /\ net' = C (+) (IF finishes THEN One(Rts(f, -1)) ELSE EmptyBag)
        /\ UNCHANGED <<started, sending, timeouts, arbiter, failed, history>>
    BY <1>2, <1>3, <1>4, <1>5 DEF ReceiveAck
  <1>7. /\ NetBag(C) /\ DOMAIN C \subseteq DOMAIN net
        /\ \A g \in Flows : /\ Dues(g, net) = Dues(g, C) + Due(m, g)
                            /\ Flights(g, net) = Flights(g, C) + Fly(m, g)
    BY <1>1, <1>5, DropPacket
  <1>8. f \in started /\ m.pkt \in Pkts(f)
    <2>1. m.type = "ACK"
      BY DEF ReceiveAck
    <2>2. m \notin RtsPacket /\ m \notin SchedulePacket
      BY <2>1 DEF RtsPacket, SchedulePacket
    <2> QED
      BY <1>1, <1>2, <2>2 DEF PacketOK
  <1>9. PICK r : r = Rts(f, -1)
    OBVIOUS
  <1>10. r \in RtsPacket /\ r \in Packet /\ r.flow = f /\ r.remaining_num_pkts = -1
    BY <1>9 DEF Rts, RtsPacket, Packet
  <1>11. /\ NetBag(net') /\ DOMAIN net' \subseteq DOMAIN C \union {r}
         /\ (DOMAIN net' \subseteq DOMAIN C) \/ finishes
         /\ \A g \in Flows : Dues(g, net') = Dues(g, C) /\ Flights(g, net') = Flights(g, C)
    <2>1. CASE finishes
      <3>1. net' = C (+) One(r)
        BY <1>6, <1>9, <2>1
      <3>2. /\ NetBag(net') /\ DOMAIN net' = DOMAIN C \union {r}
            /\ \A g \in Flows : /\ Dues(g, net') = Dues(g, C) + Due(r, g)
                                /\ Flights(g, net') = Flights(g, C) + Fly(r, g)
        <4>1. Added(C, r, C (+) One(r))
          BY <1>7, <1>10, AddPacket
        <4> QED
          BY <3>1, <4>1 DEF Added
      <3>3. \A g \in Flows : Due(r, g) = 0 /\ Fly(r, g) = 0
        BY <1>10, PacketWeights
      <3>4. \A g \in Flows : Dues(g, C) \in Nat /\ Flights(g, C) \in Nat
        BY <1>7, NetWeights
      <3> QED
        BY <2>1, <3>2, <3>3, <3>4
    <2>2. CASE ~finishes
      <3>1. C (+) EmptyBag = [x \in DOMAIN C |-> C[x] + 0]
        BY DEF (+), EmptyBag, SetToBag
      <3>2. \A x \in DOMAIN C : C[x] + 0 = C[x]
        BY <1>7 DEF NetBag, IsABag
      <3>3. C = [x \in DOMAIN C |-> C[x]]
        BY <1>7 DEF NetBag, IsABag
      <3>4. net' = C
        BY <1>6, <2>2, <3>1, <3>2, <3>3
      <3> QED
        BY <1>7, <3>4
    <2> QED
      BY <2>1, <2>2
  <1>12. got \subseteq Pkts(f) /\ got \subseteq Nat
    <2>1. Bounded(f)
      BY DEF Inv, FlowsOK
    <2> QED
      BY <1>3, <1>8, <2>1 DEF Bounded, Pkts
  <1>13. Types'
    <2>1. sender_acked' \in [Flows -> SUBSET Nat]
      BY <1>1, <1>6, <1>12 DEF Types
    <2>2. sender_finished' \subseteq started
      BY <1>1, <1>6, <1>8 DEF Types
    <2> QED
      BY <1>1, <1>6, <1>11, <2>1, <2>2 DEF Types, sending, arbiter, history
  <1>14. PacketsOK'
    <2>1. finishes => PacketOK(r)'
      BY <1>6, <1>8, <1>10 DEF PacketOK
    <2>2. \A k \in DOMAIN net : PacketOK(k)'
      BY <1>6, PacketsStay DEF sending, history
    <2> QED
      BY <1>7, <1>11, <2>1, <2>2 DEF PacketsOK
  <1>15. ASSUME NEW g \in Flows
         PROVE  /\ Dues(g, net') = Dues(g, net) /\ Granted(g)' = Granted(g)
                /\ Flights(g, net) = Flights(g, net') + (IF g = f THEN 1 ELSE 0)
                /\ Flights(g, net') \in Nat /\ Granted(g) \in Nat
    <2>1. Due(m, g) = 0 /\ Fly(m, g) = IF g = f THEN 1 ELSE 0
      BY <1>1, <1>2, PacketWeights
    <2>2. Dues(g, C) \in Nat /\ Flights(g, C) \in Nat
      BY <1>7, NetWeights
    <2>3. Dues(g, net') = Dues(g, net)
      BY <1>7, <1>11, <2>1, <2>2
    <2>4. Granted(g)' = Granted(g)
      BY <1>6, <2>3 DEF Granted, sending, arbiter
    <2>5. Granted(g) \in Nat
      BY <1>1, NumberTypes
    <2> QED
      BY <1>7, <1>11, <2>1, <2>2, <2>3, <2>4, <2>5
  <1>16. ASSUME NEW g \in Flows, g # f PROVE Same(g)
    <2>1. Flights(g, net') <= Flights(g, net) /\ Granted(g)' <= Granted(g)
      BY <1>15, <1>16
    <2>2. arbiter_remaining_num_pkts[g] <= SizeInPkt[g]
      BY DEF Inv, FlowsOK, Bounded
    <2>3. sender_acked'[g] = sender_acked[g]
      BY <1>1, <1>6, <1>16 DEF Types
    <2>4. g \in sender_finished' <=> g \in sender_finished
      BY <1>6, <1>16
    <2> QED
      BY <1>6, <1>15, <2>1, <2>2, <2>3, <2>4 DEF Same, sending, arbiter, history
  <1>17. Bounded(f)' /\ NotYet(f)' /\ Balanced(f)'
    <2>1. Bounded(f) /\ Balanced(f)
      BY DEF Inv, FlowsOK
    <2>2. sender_acked'[f] = got
      BY <1>1, <1>6 DEF Types
    <2>3. f \in sender_finished' <=> got = Pkts(f)
      BY <1>3, <1>4, <1>6, <1>12, <2>1 DEF Bounded
    <2>4. Bounded(f)'
      BY <1>6, <1>12, <2>1, <2>2, <2>3 DEF Bounded, sending, arbiter
    <2>5. NotYet(f)'
      BY <1>6, <1>8 DEF NotYet
    <2>6. /\ Cardinality(got) <= Cardinality(sender_acked[f]) + 1
          /\ Cardinality(got) \in Nat /\ Cardinality(sender_acked[f]) \in Nat
      <3>1. IsFiniteSet(sender_acked[f]) /\ Cardinality(sender_acked[f]) \in Nat
        BY <2>1, AckedFacts DEF Bounded
      <3>2. Cardinality(got) = IF m.pkt \in sender_acked[f]
                                 THEN Cardinality(sender_acked[f])
                                 ELSE Cardinality(sender_acked[f]) + 1
        BY <1>3, <3>1, FS_AddElement
      <3> QED
        BY <3>1, <3>2
    <2>7. sender_remaining_num_pkts[f] \in Nat /\ SizeInPkt[f] \in Nat
      BY <1>1, NumberTypes
    <2>8. Flights(f, net) = Flights(f, net') + 1 /\ Flights(f, net') \in Nat
          /\ Granted(f)' = Granted(f)
      BY <1>15
    <2>9. Balanced(f)'
      BY <1>6, <2>1, <2>2, <2>6, <2>7, <2>8 DEF Balanced, sending, history
    <2> QED
      BY <2>4, <2>5, <2>9
  <1>18. FlowsOK'
    BY <1>13, <1>16, <1>17, SameFlow DEF FlowsOK
  <1>19. SendsHaveAPacket'
    BY <1>6 DEF Inv, SendsHaveAPacket, history
  <1> QED
    BY <1>13, <1>14, <1>18, <1>19 DEF Inv

\* send_data_pkt: a slot is one packet fewer to send, and one more on its way.
LEMMA SendStep == ASSUME Inv, NEW f \in Flows, SendData(f), ~failed PROVE Inv'
  <1>1. Types /\ NetBag(net) /\ Bounded(f) /\ NotYet(f) /\ Balanced(f)
    BY DEF Inv, Types, FlowsOK
  <1>2. /\ SizeInPkt[f] \in Nat /\ sender_remaining_num_pkts[f] \in Nat
        /\ sends[f] \in Nat /\ sends[f] > 0 /\ timeouts[f] \in Nat
        /\ arbiter_remaining_num_pkts[f] \in Nat
        /\ Dues(f, net) \in Nat /\ Flights(f, net) \in Nat
    BY <1>1, NumberTypes DEF SendData
  <1>3. Granted(f) = arbiter_remaining_num_pkts[f] + sends[f] + Dues(f, net)
    BY DEF Granted
  <1>4. f \in started
    BY <1>1, <1>2, <1>3 DEF NotYet
  <1>5. sends' = [sends EXCEPT ![f] = @ - 1] /\ sends'[f] = sends[f] - 1
        /\ sends' \in [Flows -> Nat]
    <2>1. sends' = [sends EXCEPT ![f] = @ - 1] /\ sends \in [Flows -> Nat]
      BY <1>1 DEF SendData, Types
    <2> QED
      BY <1>2, <2>1
  <1>6. f \notin early => /\ sender_remaining_num_pkts[f] >= 1
                          /\ sender_remaining_num_pkts[f] >= Dues(f, net) + 1
    BY <1>1, <1>2, <1>3 DEF Balanced
  <1>7. CASE sender_acked[f] = Pkts(f)
    <2>1. /\ failed' = TRUE
          /\ UNCHANGED <<sender_remaining_num_pkts, sender_last_pkt_sent, timeouts, net>>
          /\ UNCHANGED <<started, acking, arbiter, history>>
      BY <1>7 DEF SendData
    <2>2. f \in early
      <3>1. Cardinality(sender_acked[f]) = SizeInPkt[f]
        BY <1>7, AckedFacts
      <3> QED
        BY <1>1, <1>2, <1>6, <3>1 DEF Balanced
    <2>3. Types'
      BY <1>1, <1>5, <2>1 DEF Types, acking, arbiter, history
    <2>4. PacketsOK'
      BY <2>1, PacketsStay DEF PacketsOK, acking, history
    <2>5. ASSUME NEW g \in Flows PROVE Same(g)
      <3>1. arbiter_remaining_num_pkts[g] <= SizeInPkt[g]
        BY DEF Inv, FlowsOK, Bounded
      <3>2. Flights(g, net) \in Nat /\ Granted(g) \in Nat
        BY <1>1, NumberTypes
      <3>3. g # f => sends'[g] = sends[g]
        BY <1>1, <1>5 DEF Types
      <3>4. g # f => Granted(g)' = Granted(g)
        BY <2>1, <3>3 DEF Granted, arbiter
      <3> QED
        BY <2>1, <2>2, <3>1, <3>2, <3>4 DEF Same, acking, arbiter, history
    <2>6. SendsHaveAPacket'
      BY <2>1, <2>2 DEF SendsHaveAPacket, history
    <2> QED
      BY <2>3, <2>4, <2>5, <2>6, SameFlows DEF Inv
  <1>8. CASE sender_acked[f] # Pkts(f)
    <2>1. PICK p : p = NextPktToSend(f)
      OBVIOUS
    <2>2. p \in Pkts(f)
      <3>1. Pkts(f) \subseteq Nat /\ Pkts(f) \ sender_acked[f] # {}
        <4>1. sender_acked[f] \subseteq Pkts(f)
          BY <1>1 DEF Bounded
        <4>2. Pkts(f) \ sender_acked[f] # {}
          BY <1>8, <4>1
        <4>3. Pkts(f) \subseteq Nat
          BY <1>2 DEF Pkts
        <4> QED
          BY <4>2, <4>3
      <3>2. PICK missing : missing = Pkts(f) \ sender_acked[f]
        OBVIOUS
      <3>3. PICK later : later = {q \in missing : q > sender_last_pkt_sent[f]}
        OBVIOUS
      <3>4. missing \subseteq Nat /\ missing # {} /\ later \subseteq Nat
        BY <3>1, <3>2, <3>3
      <3>5. Min(missing) \in missing /\ (later # {} => Min(later) \in later)
        BY <3>4, MinFacts
      <3>6. p = IF later # {} THEN Min(later) ELSE Min(missing)
        BY <2>1, <3>2, <3>3 DEF NextPktToSend
      <3> QED
        BY <3>2, <3>3, <3>5, <3>6
    <2>3. PICK d : d = Data(f, p)
      OBVIOUS
    <2>4. d \in FlowPacket /\ d \in Packet /\ d.flow = f /\ d.pkt = p
      BY <2>2, <2>3 DEF Data, FlowPacket, Packet, Pkts
    <2>5. PICK n \in Nat : /\ n = IF sender_remaining_num_pkts[f] > 0
                                  THEN sender_remaining_num_pkts[f] - 1 ELSE 0
                           /\ n = Max({0, sender_remaining_num_pkts[f] - 1})
      <3>1. sender_remaining_num_pkts[f] - 1 \in Int
        BY <1>2
      <3>2. Max({0, sender_remaining_num_pkts[f] - 1})
              = IF sender_remaining_num_pkts[f] - 1 > 0
                THEN sender_remaining_num_pkts[f] - 1 ELSE 0
        BY <3>1, MaxZero
      <3> QED
        BY <1>2, <3>2
    <2>6. /\ sender_last_pkt_sent' = [sender_last_pkt_sent EXCEPT ![f] = p]
          /\ sender_remaining_num_pkts' = [sender_remaining_num_pkts EXCEPT ![f] = n]
          /\ timeouts' = [timeouts EXCEPT ![f] = TimerAfter(f, sender_remaining_num_pkts'[f])]
          /\ net' = net (+) One(d)
          /\ UNCHANGED failed
          /\ UNCHANGED <<started, acking, arbiter, history>>
      BY <1>8, <2>1, <2>3, <2>5 DEF SendData
    <2>7. sender_remaining_num_pkts'[f] = n /\ sender_last_pkt_sent'[f] = p
          /\ timeouts'[f] = IF n = 0 THEN timeouts[f] + 1 ELSE timeouts[f]
      BY <1>1, <2>6 DEF Types, TimerAfter
    <2>8. /\ NetBag(net') /\ DOMAIN net' = DOMAIN net \union {d}
          /\ \A g \in Flows : /\ Dues(g, net') = Dues(g, net) + Due(d, g)
                              /\ Flights(g, net') = Flights(g, net) + Fly(d, g)
      <3>1. Added(net, d, net (+) One(d))
        BY <1>1, <2>4, AddPacket
      <3>2. net' = net (+) One(d)
        BY <2>6
      <3> QED
        BY <3>1, <3>2 DEF Added
    <2>9. Types'
      <3>1. /\ sender_remaining_num_pkts' \in [Flows -> Nat]
            /\ sender_last_pkt_sent' \in [Flows -> Int]
        BY <1>1, <2>2, <2>6 DEF Types, Pkts
      <3>2. timeouts' \in [Flows -> Nat]
        <4>1. TimerAfter(f, sender_remaining_num_pkts'[f]) \in Nat
          BY <1>2 DEF TimerAfter
        <4> QED
          BY <1>1, <2>6, <4>1 DEF Types
      <3> QED
        BY <1>1, <1>5, <2>6, <2>8, <3>1, <3>2 DEF Types, acking, arbiter, history
    <2>10. ASSUME NEW g \in Flows
           PROVE  /\ Dues(g, net') = Dues(g, net) /\ Dues(g, net) \in Nat
                  /\ Flights(g, net') = Flights(g, net) + (IF g = f THEN 1 ELSE 0)
                  /\ Flights(g, net) \in Nat
      <3>1. Due(d, g) = 0 /\ Fly(d, g) = IF g = f THEN 1 ELSE 0
        BY <2>4, PacketWeights
      <3>2. Dues(g, net) \in Nat /\ Flights(g, net) \in Nat
        BY <1>1, NetWeights
      <3> QED
        BY <2>8, <3>1, <3>2
    <2>11. PacketsOK'
      <3>1. PacketOK(d)'
        BY <1>4, <2>2, <2>4, <2>6 DEF PacketOK
      <3>2. ASSUME NEW m \in DOMAIN net PROVE PacketOK(m)'
        <4>1. PacketOK(m)
          BY DEF Inv, PacketsOK
        <4>2. CASE m \in RtsPacket /\ m.flow = f /\ f \notin early
                   /\ m.remaining_num_pkts \in 1 .. SizeInPkt[f]
          <5>1. Due(m, f) = m.remaining_num_pkts
            <6>1. m \in Packet /\ m.remaining_num_pkts > 0
              BY <1>2, <4>2 DEF Packet
            <6> QED
              BY <4>2, <6>1, PacketWeights
          <5>2. Due(m, f) <= Dues(f, net)
            BY <1>1, DueBound
          <5>3. m.remaining_num_pkts = sender_remaining_num_pkts[f]
            <6>1. m \notin FlowPacket /\ m \notin SchedulePacket
              BY <4>2 DEF RtsPacket, FlowPacket, SchedulePacket
            <6> QED
              BY <4>1, <4>2, <6>1 DEF PacketOK
          <5> QED
            BY <1>2, <1>6, <4>2, <5>1, <5>2, <5>3
        <4>3. CASE m \in RtsPacket /\ m.flow # f
          <5>1. m.flow \in Flows
            BY <4>3 DEF RtsPacket
          <5>2. sender_remaining_num_pkts'[m.flow] = sender_remaining_num_pkts[m.flow]
            BY <1>1, <2>6, <4>3, <5>1 DEF Types
          <5> QED
            BY <2>6, <4>1, <5>2 DEF PacketOK, acking, history
        <4>4. CASE m \notin RtsPacket
          BY <2>6, <4>1, <4>4 DEF PacketOK
        <4>5. CASE m \in RtsPacket /\ m.flow = f /\ (f \in early \/ m.remaining_num_pkts = -1)
          BY <2>6, <4>1, <4>5 DEF PacketOK, acking, history
        <4>6. m \in RtsPacket => \/ m.remaining_num_pkts = -1
                                 \/ m.remaining_num_pkts \in 1 .. SizeInPkt[m.flow]
          <5>1. m \in RtsPacket => m \notin FlowPacket /\ m \notin SchedulePacket
            BY DEF RtsPacket, FlowPacket, SchedulePacket
          <5> QED
            BY <4>1, <5>1 DEF PacketOK
        <4> QED
          BY <4>2, <4>3, <4>4, <4>5, <4>6
      <3> QED
        BY <2>8, <3>1, <3>2 DEF PacketsOK
    <2>12. ASSUME NEW g \in Flows, g # f PROVE Same(g)
      <3>1. arbiter_remaining_num_pkts[g] <= SizeInPkt[g]
        BY DEF Inv, FlowsOK, Bounded
      <3>2. Granted(g) \in Nat
        BY <1>1, NumberTypes
      <3>3. /\ sends'[g] = sends[g] /\ timeouts'[g] = timeouts[g]
            /\ sender_remaining_num_pkts'[g] = sender_remaining_num_pkts[g]
            /\ sender_last_pkt_sent'[g] = sender_last_pkt_sent[g]
        BY <1>1, <1>5, <2>6, <2>12 DEF Types
      <3>4. Granted(g)' = Granted(g)
        BY <2>6, <2>10, <3>3 DEF Granted, arbiter
      <3>5. Flights(g, net') <= Flights(g, net)
        BY <2>10, <2>12
      <3> QED
        BY <2>6, <3>1, <3>2, <3>3, <3>4, <3>5 DEF Same, acking, arbiter, history
    <2>13. Bounded(f)' /\ NotYet(f)' /\ Balanced(f)'
      <3>1. Bounded(f)'
        BY <1>1, <1>2, <2>2, <2>5, <2>6, <2>7 DEF Bounded, acking, arbiter
      <3>2. NotYet(f)'
        BY <1>4, <2>6 DEF NotYet
      <3>3. Granted(f)' = arbiter_remaining_num_pkts[f] + (sends[f] - 1) + Dues(f, net)
        BY <1>5, <2>6, <2>10 DEF Granted, arbiter
      <3>4. Granted(f)' = Granted(f) - 1 /\ Flights(f, net') = Flights(f, net) + 1
        BY <1>2, <1>3, <2>10, <3>3
      <3>5. Cardinality(sender_acked[f]) \in Nat
        BY <1>1, AckedFacts DEF Bounded
      <3>6. sender_acked' = sender_acked /\ early' = early /\ lost' = lost /\ started' = started
        BY <2>6 DEF acking, history
      <3>7. f \notin early => n = sender_remaining_num_pkts[f] - 1 /\ timeouts[f] = 0
        BY <1>1, <1>2, <1>6, <2>5 DEF Balanced
      <3>8. Granted(f) \in Nat
        BY <1>1, NumberTypes
      <3>9. Balanced(f)'
        <4> SUFFICES ASSUME f \notin early
                     PROVE  /\ n + Cardinality(sender_acked[f]) + (Flights(f, net) + 1)
                                 <= SizeInPkt[f]
                            /\ Granted(f) - 1 <= n
                            /\ f \in started \ lost => Granted(f) - 1 = n
                            /\ timeouts'[f] <= 1
                            /\ timeouts'[f] = 1 => n = 0
          BY <2>7, <3>4, <3>6 DEF Balanced
        <4> QED
          BY <1>1, <1>2, <2>7, <3>5, <3>7, <3>8 DEF Balanced
      <3> QED
        BY <3>1, <3>2, <3>9
    <2>14. FlowsOK'
      BY <2>9, <2>12, <2>13, SameFlow DEF FlowsOK
    <2>15. SendsHaveAPacket'
      BY <2>6 DEF SendsHaveAPacket
    <2> QED
      BY <2>9, <2>11, <2>14, <2>15 DEF Inv
  <1> QED
    BY <1>7, <1>8

\* fastpass_timeout: what a flow has left is announced when nothing is granted of it.
LEMMA TimeoutStep == ASSUME Inv, NEW f \in Flows, Timeout(f), ~failed PROVE Inv'
  <1>1. Types /\ NetBag(net) /\ Bounded(f) /\ NotYet(f) /\ Balanced(f)
    BY DEF Inv, Types, FlowsOK
  <1>2. /\ SizeInPkt[f] \in Nat /\ sender_remaining_num_pkts[f] \in Nat
        /\ timeouts[f] \in Nat /\ timeouts[f] > 0 /\ Granted(f) \in Nat
        /\ Dues(f, net) \in Nat /\ Flights(f, net) \in Nat
    BY <1>1, NumberTypes DEF Timeout
  <1>3. f \in started
    BY <1>1, <1>2 DEF NotYet
  <1>4. /\ timeouts' = [timeouts EXCEPT ![f] = @ - 1] /\ timeouts'[f] = timeouts[f] - 1
        /\ timeouts' \in [Flows -> Nat]
    <2>1. timeouts' = [timeouts EXCEPT ![f] = @ - 1] /\ timeouts \in [Flows -> Nat]
      BY <1>1 DEF Timeout, Types
    <2> QED
      BY <1>2, <2>1
  <1>5. UNCHANGED <<started, sender_last_pkt_sent, sends, acking, arbiter, failed>>
    BY DEF Timeout
  <1>6. f \notin early => /\ timeouts'[f] = 0 /\ sender_remaining_num_pkts[f] = 0
                          /\ Granted(f) = 0
    BY <1>1, <1>2, <1>4 DEF Balanced
  <1>7. \A g \in Flows : g # f => timeouts'[g] = timeouts[g]
    BY <1>1, <1>4 DEF Types
  <1>8. SendsHaveAPacket'
    BY <1>5 DEF SendsHaveAPacket
  <1>9. CASE f \in sender_finished
    <2>1. UNCHANGED <<sender_remaining_num_pkts, net, history>>
      BY <1>9 DEF Timeout
    <2>2. Types'
      BY <1>1, <1>4, <1>5, <2>1 DEF Types, acking, arbiter, history
    <2>3. PacketsOK'
      BY <1>5, <2>1, PacketsStay DEF PacketsOK, acking, history
    <2>4. ASSUME NEW g \in Flows, g # f PROVE Same(g)
      <3>1. arbiter_remaining_num_pkts[g] <= SizeInPkt[g]
        BY DEF Inv, FlowsOK, Bounded
      <3>2. Granted(g)' = Granted(g) /\ Granted(g) \in Nat /\ Flights(g, net) \in Nat
        BY <1>1, <1>5, <2>1, NumberTypes DEF Granted, arbiter
      <3> QED
        BY <1>5, <1>7, <2>1, <2>4, <3>1, <3>2 DEF Same, acking, arbiter, history
    <2>5. Bounded(f)'
      BY <1>1, <1>5, <2>1 DEF Bounded, acking, arbiter
    <2>6. NotYet(f)'
      BY <1>3, <1>5 DEF NotYet
    <2>7. Granted(f)' = Granted(f)
      BY <1>5, <2>1 DEF Granted, arbiter
    <2>8. Balanced(f)'
      BY <1>1, <1>5, <1>6, <2>1, <2>7 DEF Balanced, acking, history
    <2>9. FlowsOK'
      BY <2>2, <2>4, <2>5, <2>6, <2>8, SameFlow DEF FlowsOK
    <2> QED
      BY <1>8, <2>2, <2>3, <2>9 DEF Inv
  <1>10. CASE f \notin sender_finished
    <2>1. PICK n : n = Left(f)
      OBVIOUS
    <2>2. /\ n = SizeInPkt[f] - Cardinality(sender_acked[f]) /\ n \in 1 .. SizeInPkt[f]
          /\ n \in Nat /\ Cardinality(sender_acked[f]) \in Nat
      <3>1. sender_acked[f] \subseteq Pkts(f) /\ sender_acked[f] # Pkts(f)
        BY <1>1, <1>10 DEF Bounded
      <3>2. /\ Cardinality(sender_acked[f]) \in Nat
            /\ Cardinality(sender_acked[f]) <= SizeInPkt[f]
            /\ Cardinality(sender_acked[f]) # SizeInPkt[f]
        BY <3>1, AckedFacts
      <3> QED
        BY <1>2, <2>1, <3>2 DEF Left
    <2>3. PICK r : r = Rts(f, n)
      OBVIOUS
    <2>4. r \in RtsPacket /\ r \in Packet /\ r.flow = f /\ r.remaining_num_pkts = n
      BY <2>2, <2>3 DEF Rts, RtsPacket, Packet
    <2>5. /\ sender_remaining_num_pkts' = [sender_remaining_num_pkts EXCEPT ![f] = n]
          /\ net' = net (+) One(r)
          /\ lost' = lost
          /\ \/ UnderWay(f) /\ faults' = faults + 1 /\ faults < MaxFaults
                /\ early' = early \union {f}
             \/ ~UnderWay(f) /\ faults' = faults /\ early' = early
      BY <1>10, <2>1, <2>3 DEF Timeout, Fault
    <2>6. sender_remaining_num_pkts'[f] = n
          /\ \A g \in Flows : g # f => sender_remaining_num_pkts'[g] = sender_remaining_num_pkts[g]
      BY <1>1, <2>5 DEF Types
    <2>7. /\ NetBag(net') /\ DOMAIN net' = DOMAIN net \union {r}
          /\ \A g \in Flows : /\ Dues(g, net') = Dues(g, net) + Due(r, g)
                              /\ Flights(g, net') = Flights(g, net) + Fly(r, g)
      <3>1. Added(net, r, net (+) One(r))
        BY <1>1, <2>4, AddPacket
      <3>2. net' = net (+) One(r)
        BY <2>5
      <3> QED
        BY <3>1, <3>2 DEF Added
    <2>8. Types'
      <3>1. sender_remaining_num_pkts' \in [Flows -> Nat]
        BY <1>1, <2>2, <2>5 DEF Types
      <3>2. faults' \in 0 .. MaxFaults
        BY <1>1, <2>5, FastpassAssumption DEF Types
      <3>3. early' \subseteq started
        BY <1>1, <1>3, <2>5 DEF Types
      <3> QED
        BY <1>1, <1>4, <1>5, <2>5, <2>7, <3>1, <3>2, <3>3 DEF Types, acking, arbiter
    <2>9. ASSUME NEW g \in Flows
          PROVE  /\ Dues(g, net') = Dues(g, net) + (IF g = f THEN n ELSE 0)
                 /\ Flights(g, net') = Flights(g, net)
                 /\ Dues(g, net) \in Nat /\ Flights(g, net) \in Nat
      <3>1. Due(r, g) = (IF g = f THEN n ELSE 0) /\ Fly(r, g) = 0
        <4>1. n > 0
          BY <2>2
        <4> QED
          BY <2>4, <4>1, PacketWeights
      <3>2. Dues(g, net) \in Nat /\ Flights(g, net) \in Nat
        BY <1>1, NetWeights
      <3> QED
        BY <2>7, <3>1, <3>2
    <2>10. PacketsOK'
      <3>1. PacketOK(r)'
        BY <1>3, <1>5, <2>2, <2>4, <2>6 DEF PacketOK
      <3>2. ASSUME NEW m \in DOMAIN net PROVE PacketOK(m)'
        <4>1. PacketOK(m)
          BY DEF Inv, PacketsOK
        <4>2. m \in RtsPacket => m \notin FlowPacket /\ m \notin SchedulePacket
          BY DEF RtsPacket, FlowPacket, SchedulePacket
        <4>3. CASE m \in RtsPacket /\ m.flow = f
          <5>1. m.remaining_num_pkts = -1 \/ m.remaining_num_pkts \in 1 .. SizeInPkt[f]
            BY <4>1, <4>2, <4>3 DEF PacketOK
          <5>2. m.remaining_num_pkts # -1
            BY <1>2, <1>10, <4>1, <4>2, <4>3 DEF PacketOK
          <5>3. m.remaining_num_pkts \in 1 .. SizeInPkt[f] /\ f \in early
            BY <1>2, <1>6, <4>1, <4>2, <4>3, <5>1, <5>2 DEF PacketOK
          <5>4. f \in early'
            BY <2>5, <5>3
          <5> QED
            BY <1>3, <1>5, <4>3, <5>3, <5>4 DEF PacketOK
        <4>4. CASE m \in RtsPacket /\ m.flow # f
          <5>1. m.flow \in Flows
            BY <4>4 DEF RtsPacket
          <5>2. sender_remaining_num_pkts'[m.flow] = sender_remaining_num_pkts[m.flow]
            BY <2>6, <4>4, <5>1
          <5>3. m.flow \in early' => m.flow \in early
            BY <2>5, <4>4
          <5>4. m.flow \in early => m.flow \in early'
            BY <2>5
          <5> QED
            BY <1>5, <4>1, <4>2, <4>4, <5>2, <5>3, <5>4 DEF PacketOK, acking
        <4>5. CASE m \notin RtsPacket
          BY <1>5, <4>1, <4>5 DEF PacketOK
        <4> QED
          BY <4>3, <4>4, <4>5
      <3> QED
        BY <2>7, <3>1, <3>2 DEF PacketsOK
    <2>11. ASSUME NEW g \in Flows, g # f PROVE Same(g)
      <3>1. arbiter_remaining_num_pkts[g] <= SizeInPkt[g]
        BY DEF Inv, FlowsOK, Bounded
      <3>2. Dues(g, net') = Dues(g, net) /\ Flights(g, net') <= Flights(g, net)
        BY <2>9, <2>11
      <3>3. Granted(g)' = Granted(g) /\ Granted(g) \in Nat
        BY <1>1, <1>5, <3>2, NumberTypes DEF Granted, arbiter
      <3>4. g \in early => g \in early'
        BY <2>5
      <3> QED
        BY <1>5, <1>7, <2>5, <2>6, <2>11, <3>1, <3>2, <3>3, <3>4 DEF Same, acking, arbiter
    <2>12. Bounded(f)'
      BY <1>1, <1>2, <1>5, <2>2, <2>6 DEF Bounded, acking, arbiter
    <2>13. NotYet(f)'
      BY <1>3, <1>5 DEF NotYet
    <2>14. Balanced(f)'
      <3> SUFFICES ASSUME f \notin early' PROVE Balanced(f)'
        BY DEF Balanced
      <3>1. f \notin early /\ ~UnderWay(f)
        BY <2>5
      <3>2. Flights(f, net) = 0
        <4>1. ASSUME NEW m \in DOMAIN net PROVE Fly(m, f) = 0
          <5>1. m \in Packet
            BY <1>1 DEF NetBag
          <5>2. CASE m \in FlowPacket
            <6>1. m.type \in {"DATA", "ACK"} /\ Fly(m, f) = IF m.flow = f THEN 1 ELSE 0
              BY <5>1, <5>2, PacketWeights
            <6>2. f \notin FlowsOf(m)
              BY <3>1, <6>1 DEF UnderWay, BagToSet
            <6>3. FlowsOf(m) = {m.flow}
              BY <6>1 DEF FlowsOf
            <6> QED
              BY <6>1, <6>2, <6>3
          <5>3. CASE m \notin FlowPacket
            BY <5>3 DEF Fly
          <5> QED
            BY <5>2, <5>3
        <4> QED
          BY <1>1, <4>1, NetWeights
      <3>3. Flights(f, net') = 0 /\ Dues(f, net') = Dues(f, net) + n
        BY <2>9, <3>2
      <3>4. arbiter_remaining_num_pkts[f] \in Nat /\ sends[f] \in Nat
        BY <1>1, NumberTypes
      <3>5. Granted(f)' = n
        <4>1. Granted(f)' = arbiter_remaining_num_pkts[f] + sends[f] + (Dues(f, net) + n)
          BY <1>5, <3>3 DEF Granted, arbiter
        <4>2. arbiter_remaining_num_pkts[f] + sends[f] + Dues(f, net) = 0
          BY <1>6, <3>1 DEF Granted
        <4> QED
          BY <1>2, <2>2, <3>4, <4>1, <4>2
      <3>6. sender_acked' = sender_acked
        BY <1>5 DEF acking
      <3>7. timeouts'[f] = 0
        BY <1>6, <3>1
      <3> QED
        BY <1>2, <2>2, <2>6, <3>3, <3>5, <3>6, <3>7 DEF Balanced
    <2>15. FlowsOK'
      BY <2>8, <2>11, <2>12, <2>13, <2>14, SameFlow DEF FlowsOK
    <2> QED
      BY <1>8, <2>8, <2>10, <2>15 DEF Inv
  <1> QED
    BY <1>9, <1>10

LEMMA InvStep == Inv /\ [Next]_vars => Inv'
  <1> SUFFICES ASSUME Inv, [Next]_vars PROVE Inv'
    OBVIOUS
  <1>1. CASE UNCHANGED vars
    <2>1. Types' /\ PacketsOK' /\ SendsHaveAPacket'
      BY <1>1 DEF vars, sending, acking, arbiter, history, Inv, Types, PacketsOK, PacketOK,
                  SendsHaveAPacket
    <2>2. FlowsOK'
      BY <1>1 DEF vars, sending, acking, arbiter, history, Inv, FlowsOK, Bounded, NotYet,
                  Balanced, Granted
    <2> QED
      BY <2>1, <2>2 DEF Inv
  <1>2. CASE Next
    <2>1. ASSUME NEW f \in Flows, StartFlow(f) \/ SendData(f) \/ Timeout(f) PROVE Inv'
      BY <1>2, <2>1, StartStep, SendStep, TimeoutStep DEF Next
    <2>2. ASSUME NEW m \in DOMAIN net,
                 \/ ReceiveSchedule(m) \/ ReceiveRts(m) \/ ReceiveData(m)
                 \/ ReceiveAck(m) \/ Lose(m)
          PROVE  Inv'
      BY <2>2, ScheduleReceived, RtsReceived, DataReceived, AckReceived, LoseStep
    <2>3. CASE ScheduleEpoch
      BY <2>3, EpochStep
    <2> QED
      BY <1>2, <2>1, <2>2, <2>3 DEF Next, BagToSet
  <1> QED
    BY <1>1, <1>2

LEMMA InvHolds == Spec => []Inv
  BY InvInit, InvStep, PTL DEF Spec

(***************************************************************************)
(* The theorems about Fastpass alone.                                      *)
(***************************************************************************)
LEMMA InvTypes == Inv => TypeOK
  <1> SUFFICES ASSUME Inv PROVE TypeOK
    OBVIOUS
  <1>1. Types
    BY DEF Inv
  <1>2. ASSUME NEW f \in Flows
        PROVE  /\ sender_remaining_num_pkts[f] \in 0 .. SizeInPkt[f]
               /\ sender_last_pkt_sent[f] \in {-1} \union Pkts(f)
               /\ sender_acked[f] \subseteq Pkts(f)
               /\ arbiter_remaining_num_pkts[f] \in 0 .. SizeInPkt[f]
    BY <1>1, NumberTypes DEF Inv, FlowsOK, Bounded
  <1> QED
    BY <1>1, <1>2 DEF TypeOK, Types, NetBag

LEMMA InvAllots == Inv => AllottedIsRemaining
  <1> SUFFICES ASSUME Inv, NEW f \in started \ early
               PROVE  /\ Allotted(f) <= sender_remaining_num_pkts[f]
                      /\ f \notin lost => Allotted(f) = sender_remaining_num_pkts[f]
    BY DEF AllottedIsRemaining
  <1>1. Types /\ f \in Flows
    BY DEF Inv, Types
  <1>2. Balanced(f)
    BY <1>1 DEF Inv, FlowsOK
  <1>3. UnderWayTo(f) = Dues(f, net)
    <2>1. \A m \in DOMAIN net : Due(m, f) * net[m] = DueTo(f)[m] * net[m]
      BY <1>1 DEF Types, NetBag, DueTo
    <2>2. [m \in DOMAIN net |-> Due(m, f) * net[m]] = [m \in DOMAIN net |-> DueTo(f)[m] * net[m]]
      BY <2>1
    <2> QED
      BY <2>2 DEF UnderWayTo, Dues, Weigh, BagToSet
  <1>4. Allotted(f) = Granted(f)
    BY <1>3 DEF Allotted, Granted
  <1> QED
    BY <1>2, <1>4 DEF Balanced

\* Every variable of Fastpass has its type: no count runs below zero or above the
\* packets of the flow.
THEOREM FastpassTypesOK == Spec => []TypeOK
  BY InvTypes, InvHolds, PTL

\* What the arbiter may allot, has allotted and is told of a flow is what its sender has
\* left to send, unless a timeout came too early or a message of the arbiter was lost.
THEOREM SlotsAreBacked == Spec => []AllottedIsRemaining
  BY InvAllots, InvHolds, PTL

\* next_pkt_to_send never runs off its end, unless a timeout came too early.
THEOREM SendersHaveData == Spec => []SendsHaveAPacket
  <1>1. Inv => SendsHaveAPacket
    BY DEF Inv
  <1> QED
    BY <1>1, InvHolds, PTL

(***************************************************************************)
(* Ideal.                                                                  *)
(***************************************************************************)
Elements(s) == {s[i] : i \in DOMAIN s}

Once(s) == \A i, j \in DOMAIN s : s[i] = s[j] => i = j

Assigned(active, A) ==
  /\ active \in [Hosts -> A \union {None}]
  /\ \A h \in Hosts : active[h] # None => Src[active[h]] = h

Awake(active, events, over) ==
  /\ events \subseteq Hosts
  /\ \A h \in Hosts : active[h] # None /\ active[h] \notin over => h \in events

\* A flow of the list L is active at the source of f, or has the destination of f.
ServedBy(f, active, L) ==
  \E h \in Hosts : active[h] \in L /\ (h = Src[f] \/ Dst[active[h]] = Dst[f])

IdealTypes ==
  /\ arrived \subseteq Flows /\ finished \subseteq arrived
  /\ retx_event \subseteq arrived \ finished
  /\ sent \in [Flows -> Nat] /\ acked \in [Flows -> Nat] /\ received \in [Flows -> Nat]
  /\ data \in [Flows -> Nat] /\ acks \in [Flows -> SUBSET Nat]
  /\ faults \in 0 .. MaxFaults /\ early \subseteq Flows

\* What is received was sent, and what is acknowledged was received.
Counted(f) ==
  /\ received[f] + Mss * data[f] <= sent[f]
  /\ IsFiniteSet(acks[f]) /\ \A ack \in acks[f] : ack <= received[f]
  /\ f \notin arrived => data[f] = 0 /\ acks[f] = {}

\* A flow with a timer is out of the arbiter's hands.
ArbiterOK ==
  /\ active_flows \in Seq(arrived) /\ Once(active_flows)
  /\ Assigned(active_flow, arrived) /\ Awake(active_flow, host_proc_event, finished)
  /\ \A f \in retx_event : /\ sent[f] = Size[f] /\ f \notin Elements(active_flows)
                           /\ \A h \in Hosts : active_flow[h] # f

\* As long as no timer fires early, the list has just the flows that are to be sent, those
\* that are active are of the list, and one that waits does so for another.
CalmOK ==
  LET L == Elements(active_flows)
  IN early = {} =>
       /\ \A f \in L : /\ f \notin finished /\ ServedBy(f, active_flow, L)
                       /\ sent[f] = Size[f] => data[f] = 0 /\ acks[f] = {}
       /\ \A f \in arrived \ finished : f \in L \/ sent[f] = Size[f]
       /\ \A h \in Hosts : active_flow[h] \in L \union {None}

IdealInv == IdealTypes /\ (\A f \in Flows : Counted(f)) /\ ArbiterOK /\ CalmOK

(***************************************************************************)
(* Lists and schedules.                                                    *)
(***************************************************************************)
LEMMA IdealConstants ==
  /\ Ideal!Flows = Flows /\ None \notin Flows
  /\ \A f \in Flows : /\ Src[f] \in Hosts /\ Dst[f] \in Hosts
                      /\ Size[f] \in Nat /\ Size[f] > 0
  /\ Mss \in Nat /\ Mss > 0
  BY CentralAssumption DEF Ideal!IdealAssumption, Ideal!Flows, Flows

\* Operators that Ideal and this module both have from the library are the same.
LEMMA SameOperators ==
  ASSUME NEW S
  PROVE  /\ Ideal!Cardinality(S) = Cardinality(S)
         /\ Ideal!Orders(S) = Bijection(1 .. Cardinality(S), S)
  <1>1. Ideal!Cardinality(S) = Cardinality(S)
    BY Zenon DEF Ideal!Cardinality, Cardinality
  <1>2. \A T : Ideal!Bijection(T, S) = Bijection(T, S)
    BY DEF Ideal!Bijection, Ideal!Injection, Ideal!Surjection, Ideal!IsInjective,
           Bijection, Injection, Surjection, IsInjective
  <1> QED
    BY <1>1, <1>2 DEF Ideal!Orders

LEMMA IsSequence ==
  ASSUME NEW A, NEW k \in Nat, NEW s \in [1 .. k -> A]
  PROVE  s \in Seq(A)
  OBVIOUS

\* A list put in another order, at some of its places.
LEMMA OrderedFacts ==
  ASSUME NEW A, NEW list \in Seq(A), NEW places, places \subseteq DOMAIN list,
         NEW order \in Ideal!Orders(places), NEW s,
         s = [n \in 1 .. Cardinality(places) |-> list[order[n]]]
  PROVE  /\ s \in Seq(A) /\ Elements(s) = {list[i] : i \in places}
         /\ Once(list) => Once(s)
  <1>1. /\ order \in [1 .. Cardinality(places) -> places]
        /\ \A m, n \in 1 .. Cardinality(places) : order[m] = order[n] => m = n
        /\ \A i \in places : \E n \in 1 .. Cardinality(places) : order[n] = i
    <2>1. order \in Bijection(1 .. Cardinality(places), places)
      BY SameOperators
    <2> QED
      BY <2>1 DEF Bijection, Injection, Surjection, IsInjective
  <1>2. Cardinality(places) \in Nat
    <2>1. DOMAIN list = 1 .. Len(list) /\ Len(list) \in Nat
      OBVIOUS
    <2>2. IsFiniteSet(DOMAIN list)
      BY <2>1, FS_Interval
    <2> QED
      BY <2>2, FS_Subset, FS_CardinalityType
  <1>3. PICK k \in Nat : k = Cardinality(places)
    BY <1>2
  <1>4. s = [n \in 1 .. k |-> list[order[n]]] /\ DOMAIN s = 1 .. k
    BY <1>3
  <1>5. \A n \in 1 .. k : order[n] \in places /\ list[order[n]] \in A /\ s[n] = list[order[n]]
    BY <1>1, <1>3, <1>4
  <1>6. s \in Seq(A)
    <2>1. s \in [1 .. k -> A] /\ k \in Nat
      BY <1>3, <1>4, <1>5
    <2> QED
      BY <2>1, IsSequence
  <1>7. Elements(s) = {list[i] : i \in places}
    <2>1. ASSUME NEW n \in 1 .. k PROVE \E i \in places : s[n] = list[i]
      BY <1>5
    <2>2. ASSUME NEW i \in places PROVE \E n \in 1 .. k : s[n] = list[i]
      <3>1. PICK n \in 1 .. k : order[n] = i
        BY <1>1, <1>3
      <3> QED
        BY <1>5, <3>1
    <2>3. Elements(s) = {s[n] : n \in 1 .. k}
      BY <1>4 DEF Elements
    <2> QED
      BY ONLY <2>1, <2>2, <2>3
  <1>8. ASSUME Once(list) PROVE Once(s)
    BY <1>1, <1>3, <1>4, <1>5, <1>8 DEF Once
  <1> QED
    BY <1>6, <1>7, <1>8

LEMMA KeptFacts ==
  ASSUME NEW A, NEW list \in Seq(A), NEW places, places \subseteq DOMAIN list,
         NEW s \in Ideal!Kept(list, places)
  PROVE  /\ s \in Seq(A) /\ Elements(s) = {list[i] : i \in places}
         /\ Once(list) => Once(s)
  <1>1. PICK order \in Ideal!Orders(places) :
          s = [n \in 1 .. Cardinality(places) |-> list[order[n]]]
    BY SameOperators DEF Ideal!Kept
  <1> QED
    BY <1>1, OrderedFacts

LEMMA SortedFacts ==
  ASSUME NEW A, NEW list \in Seq(A), NEW s \in Ideal!Sorted(list)
  PROVE  /\ s \in Seq(A) /\ Elements(s) = Elements(list)
         /\ Once(list) => Once(s)
  <1>1. PICK order \in Ideal!Orders(DOMAIN list) : s = [n \in DOMAIN list |-> list[order[n]]]
    BY DEF Ideal!Sorted
  <1>2. DOMAIN list = 1 .. Cardinality(DOMAIN list)
    <2>1. PICK k \in Nat : k = Len(list) /\ DOMAIN list = 1 .. k
      OBVIOUS
    <2>2. Cardinality(1 .. k) = k
      <3>1. 1 \in Int /\ k \in Int
        OBVIOUS
      <3> QED
        BY <3>1, FS_Interval
    <2> QED
      BY <2>1, <2>2
  <1>3. PICK P : P = DOMAIN list
    OBVIOUS
  <1>4. order \in Ideal!Orders(P) /\ s = [n \in 1 .. Cardinality(P) |-> list[order[n]]]
    BY <1>1, <1>2, <1>3
  <1>5. Elements(list) = {list[i] : i \in P} /\ P \subseteq DOMAIN list
    BY <1>3 DEF Elements
  <1>6. s \in Seq(A) /\ Elements(s) = {list[i] : i \in P} /\ (Once(list) => Once(s))
    BY <1>4, <1>5, OrderedFacts
  <1> QED
    BY <1>5, <1>6

\* compute_schedule: what it makes of the list, the active flows and the events.
LEMMA ScheduleFacts ==
  ASSUME NEW A, A \subseteq Flows, NEW list \in Seq(A), Once(list),
         NEW active, Assigned(active, A), NEW events, Awake(active, events, finished),
         Ideal!ComputeSchedule(list, active, events)
  PROVE  /\ active_flows' \in Seq(A) /\ Once(active_flows')
         /\ Elements(active_flows') \subseteq Elements(list)
         /\ Assigned(active_flow', A) /\ Awake(active_flow', host_proc_event', finished)
         /\ \A h \in Hosts : active_flow'[h] \in Elements(list) \union {active[h], None}
         /\ Elements(list) \intersect finished = {} =>
              /\ Elements(active_flows') = Elements(list)
              /\ \A f \in Elements(list) : ServedBy(f, active_flow', Elements(list))
  <1>1. PICK visited \in Ideal!Visited(list) :
          \E taken \in Ideal!Matching(list, Ideal!Considered(list, visited)) :
            LET chosen == {list[i] : i \in taken}
                erased == {list[i] : i \in Ideal!Erased(list, visited)}
                Of(h) == {f \in chosen : Src[f] = h}
            IN /\ active_flows' \in Ideal!Kept(list, DOMAIN list \ Ideal!Erased(list, visited))
               /\ active_flow' = [h \in Hosts |->
                    IF Of(h) # {} THEN CHOOSE f \in Of(h) : TRUE
                    ELSE IF active[h] \in erased THEN None ELSE active[h]]
               /\ host_proc_event' = Ideal!Woken(events, chosen)
    BY DEF Ideal!ComputeSchedule
  <1>2. PICK taken \in Ideal!Matching(list, Ideal!Considered(list, visited)) :
            LET chosen == {list[i] : i \in taken}
                erased == {list[i] : i \in Ideal!Erased(list, visited)}
                Of(h) == {f \in chosen : Src[f] = h}
            IN /\ active_flows' \in Ideal!Kept(list, DOMAIN list \ Ideal!Erased(list, visited))
               /\ active_flow' = [h \in Hosts |->
                    IF Of(h) # {} THEN CHOOSE f \in Of(h) : TRUE
                    ELSE IF active[h] \in erased THEN None ELSE active[h]]
               /\ host_proc_event' = Ideal!Woken(events, chosen)
    BY <1>1
  <1> DEFINE chosen == {list[i] : i \in taken}
             erased == {list[i] : i \in Ideal!Erased(list, visited)}
             Of(h) == {f \in chosen : Src[f] = h}
             places == DOMAIN list \ Ideal!Erased(list, visited)
  <1>3. /\ active_flows' \in Ideal!Kept(list, places)
        /\ active_flow' = [h \in Hosts |->
             IF Of(h) # {} THEN CHOOSE f \in Of(h) : TRUE
             ELSE IF active[h] \in erased THEN None ELSE active[h]]
        /\ host_proc_event' = events \union {Src[f] : f \in chosen}
    BY <1>2 DEF Ideal!Woken
  <1>4. visited \subseteq DOMAIN list /\ taken \subseteq DOMAIN list
    BY <1>1, <1>2 DEF Ideal!Visited, Ideal!Matching, Ideal!Considered
  <1>5. chosen \subseteq Elements(list) /\ chosen \subseteq A /\ Elements(list) \subseteq A
    BY <1>4 DEF Elements
  <1>6. \A h \in Hosts : Of(h) # {} => active_flow'[h] \in Of(h)
    BY <1>3
  <1>7. \A h \in Hosts : Of(h) = {} => active_flow'[h] \in {active[h], None}
    BY <1>3
  <1>8. /\ active_flows' \in Seq(A) /\ Once(active_flows')
        /\ Elements(active_flows') = {list[i] : i \in places}
    BY <1>3, KeptFacts
  <1> HIDE DEF places
  <1>9. Elements(active_flows') \subseteq Elements(list)
    BY <1>8 DEF Elements, places
  <1> HIDE DEF chosen
  <1>10. Assigned(active_flow', A)
    <2>1. DOMAIN active_flow' = Hosts /\ active_flow' = [h \in Hosts |-> active_flow'[h]]
      BY <1>3
    <2>2. ASSUME NEW h \in Hosts
          PROVE  /\ active_flow'[h] \in A \union {None}
                 /\ active_flow'[h] # None => Src[active_flow'[h]] = h
      BY <1>5, <1>6, <1>7 DEF Assigned
    <2> QED
      BY <2>1, <2>2 DEF Assigned
  <1>11. Awake(active_flow', host_proc_event', finished)
    <2>1. \A f \in chosen : Src[f] \in Hosts
      BY <1>5, IdealConstants
    <2>2. host_proc_event' \subseteq Hosts
      BY <1>3, <2>1 DEF Awake
    <2>3. ASSUME NEW h \in Hosts, active_flow'[h] # None, active_flow'[h] \notin finished
          PROVE  h \in host_proc_event'
      <3>1. CASE Of(h) # {}
        <4>1. active_flow'[h] \in chosen /\ Src[active_flow'[h]] = h
          BY <1>6, <3>1
        <4> QED
          BY <1>3, <4>1
      <3>2. CASE Of(h) = {}
        BY <1>3, <1>7, <2>3, <3>2 DEF Awake
      <3> QED
        BY <3>1, <3>2
    <2> QED
      BY <2>2, <2>3 DEF Awake
  <1>12. \A h \in Hosts : active_flow'[h] \in Elements(list) \union {active[h], None}
    BY <1>5, <1>6, <1>7
  <1>13. ASSUME Elements(list) \intersect finished = {}
         PROVE  /\ Elements(active_flows') = Elements(list)
                /\ \A f \in Elements(list) : ServedBy(f, active_flow', Elements(list))
    <2>1. \A i \in DOMAIN list : list[i] \notin finished
      BY <1>13 DEF Elements
    <2>2. Ideal!Erased(list, visited) = {}
      BY <1>4, <2>1 DEF Ideal!Erased
    <2>3. visited = DOMAIN list
      BY <1>1, <1>4, <2>1 DEF Ideal!Visited
    <2>4. Elements(active_flows') = Elements(list)
      BY <1>8, <2>2 DEF places, Elements
    <2>5. \A i \in DOMAIN list : i \in taken <=> \A j \in taken : j < i =>
                                    Ideal!Apart(list[i], list[j])
      BY <1>2, <2>2, <2>3 DEF Ideal!Matching, Ideal!Considered
    <2>6. ASSUME NEW i \in taken
          PROVE  active_flow'[Src[list[i]]] = list[i] /\ Src[list[i]] \in Hosts
      <3>1. list[i] \in chosen /\ Src[list[i]] \in Hosts
        BY <1>5, IdealConstants DEF chosen
      <3>2. PICK k \in taken : active_flow'[Src[list[i]]] = list[k] /\ Src[list[k]] = Src[list[i]]
        BY <1>6, <3>1 DEF chosen
      <3>3. i \in Int /\ k \in Int /\ i \in DOMAIN list /\ k \in DOMAIN list
        BY <1>4
      <3>4. ~(i < k) /\ ~(k < i)
        BY <2>5, <3>2, <3>3 DEF Ideal!Apart
      <3> QED
        BY <3>1, <3>2, <3>3, <3>4
    <2>7. ASSUME NEW i \in DOMAIN list
          PROVE  ServedBy(list[i], active_flow', Elements(list))
      <3>1. CASE i \in taken
        BY <2>6, <2>7, <3>1 DEF ServedBy, Elements
      <3>2. CASE i \notin taken
        <4>1. PICK j \in taken : ~Ideal!Apart(list[i], list[j])
          BY <2>5, <3>2
        <4>2. active_flow'[Src[list[j]]] = list[j] /\ Src[list[j]] \in Hosts
          BY <2>6
        <4>3. list[j] \in Elements(list)
          BY <1>4 DEF Elements
        <4> QED
          BY <4>1, <4>2, <4>3 DEF Ideal!Apart, ServedBy
      <3> QED
        BY <3>1, <3>2
    <2> QED
      BY <2>4, <2>7 DEF Elements
  <1> QED
    BY <1>8, <1>9, <1>10, <1>11, <1>12, <1>13

\* A flow is given to the arbiter.
LEMMA ArrivalFacts ==
  ASSUME IdealInv, NEW f \in Flows, f \notin Elements(active_flows), f \notin finished,
         Ideal!FlowArrival(f)
  PROVE  /\ active_flows' \in Seq(arrived \union {f}) /\ Once(active_flows')
         /\ Elements(active_flows') \subseteq Elements(active_flows) \union {f}
         /\ Assigned(active_flow', arrived \union {f})
         /\ Awake(active_flow', host_proc_event', finished)
         /\ \A h \in Hosts :
              active_flow'[h] \in (Elements(active_flows) \union {f}) \union {active_flow[h], None}
         /\ early = {} =>
              /\ Elements(active_flows') = Elements(active_flows) \union {f}
              /\ \A h \in Hosts : active_flow'[h] \in Elements(active_flows') \union {None}
              /\ \A g \in Elements(active_flows') :
                   ServedBy(g, active_flow', Elements(active_flows'))
  <1>1. PICK A : A = arrived \union {f}
    OBVIOUS
  <1>2. PICK list \in Ideal!Sorted(Append(active_flows, f)) :
          Ideal!ComputeSchedule(list, active_flow, host_proc_event)
    BY DEF Ideal!FlowArrival
  <1>3. A \subseteq Flows /\ active_flows \in Seq(arrived) /\ Once(active_flows)
    BY <1>1 DEF IdealInv, IdealTypes, ArbiterOK
  <1>4. PICK longer : longer = Append(active_flows, f)
    OBVIOUS
  <1>5. /\ longer \in Seq(A) /\ Once(longer)
        /\ Elements(longer) = Elements(active_flows) \union {f}
    <2>1. PICK n \in Nat : n = Len(active_flows) /\ DOMAIN active_flows = 1 .. n
      BY <1>3
    <2>2. active_flows \in Seq(A) /\ f \in A
      BY <1>1, <1>3
    <2>3. /\ longer \in Seq(A) /\ DOMAIN longer = 1 .. n + 1 /\ longer[n + 1] = f
          /\ \A i \in 1 .. n : longer[i] = active_flows[i]
      BY <1>4, <2>1, <2>2
    <2>4. \A i \in 1 .. n : active_flows[i] # f
      BY <2>1 DEF Elements
    <2>5. \A i \in 1 .. n + 1 : i = n + 1 \/ i \in 1 .. n
      BY <2>1
    <2>6. longer \in Seq(A)
      BY <2>3
    <2>7. Once(longer)
      BY <1>3, <2>1, <2>3, <2>4, <2>5 DEF Once
    <2>8. Elements(longer) = Elements(active_flows) \union {f}
      BY <2>1, <2>3, <2>4, <2>5 DEF Elements
    <2> QED
      BY <2>6, <2>7, <2>8
  <1>6. list \in Seq(A) /\ Once(list) /\ Elements(list) = Elements(active_flows) \union {f}
    BY <1>2, <1>4, <1>5, SortedFacts
  <1>7. Assigned(active_flow, A) /\ Awake(active_flow, host_proc_event, finished)
    BY <1>1 DEF IdealInv, ArbiterOK, Assigned
  <1>8. /\ active_flows' \in Seq(A) /\ Once(active_flows')
        /\ Elements(active_flows') \subseteq Elements(list)
        /\ Assigned(active_flow', A) /\ Awake(active_flow', host_proc_event', finished)
        /\ \A h \in Hosts : active_flow'[h] \in Elements(list) \union {active_flow[h], None}
        /\ Elements(list) \intersect finished = {} =>
              /\ Elements(active_flows') = Elements(list)
              /\ \A g \in Elements(list) : ServedBy(g, active_flow', Elements(list))
    BY <1>2, <1>3, <1>6, <1>7, ScheduleFacts
  <1>9. early = {} => /\ Elements(list) \intersect finished = {}
                      /\ \A h \in Hosts : active_flow[h] \in Elements(active_flows) \union {None}
    BY <1>6 DEF IdealInv, CalmOK
  <1> QED
    BY <1>1, <1>6, <1>8, <1>9

\* A flow has no more to send, or is finished.
LEMMA FinishFacts ==
  ASSUME IdealInv, NEW f \in arrived, Ideal!FlowFinished(f)
  PROVE  /\ active_flows' \in Seq(arrived) /\ Once(active_flows')
         /\ Elements(active_flows') \subseteq Elements(active_flows) \ {f}
         /\ Assigned(active_flow', arrived)
         /\ Awake(active_flow', host_proc_event', finished)
         /\ \A h \in Hosts : /\ active_flow'[h] # f
                             /\ active_flow'[h] \in Elements(active_flows)
                                                    \union {active_flow[h], None}
         /\ early = {} /\ f \in Elements(active_flows) =>
              /\ Elements(active_flows') = Elements(active_flows) \ {f}
              /\ \A h \in Hosts : active_flow'[h] \in Elements(active_flows') \union {None}
              /\ \A g \in Elements(active_flows') :
                   ServedBy(g, active_flow', Elements(active_flows'))
  <1>1. PICK active : active = [active_flow EXCEPT ![Src[f]] = None]
    OBVIOUS
  <1>2. PICK events : events = host_proc_event \ {Src[f]}
    OBVIOUS
  <1>3. /\ f \in Flows /\ arrived \subseteq Flows
        /\ active_flows \in Seq(arrived) /\ Once(active_flows)
        /\ Assigned(active_flow, arrived) /\ Awake(active_flow, host_proc_event, finished)
    BY DEF IdealInv, IdealTypes, ArbiterOK
  <1>4. f # None /\ Src[f] \in Hosts
    BY <1>3, IdealConstants
  <1>5. /\ Assigned(active, arrived) /\ Awake(active, events, finished)
        /\ \A h \in Hosts : active[h] # f /\ active[h] \in {active_flow[h], None}
    <2>1. /\ active \in [Hosts -> arrived \union {None}]
          /\ \A h \in Hosts : active[h] = IF h = Src[f] THEN None ELSE active_flow[h]
      BY <1>1, <1>3, <1>4 DEF Assigned
    <2> QED
      BY <1>2, <1>3, <1>4, <2>1 DEF Assigned, Awake
  <1>6. CASE Ideal!PlacesOf(f) = {}
    <2>1. active_flows' = active_flows /\ active_flow' = active /\ host_proc_event' = events
      BY <1>1, <1>2, <1>6 DEF Ideal!FlowFinished
    <2>2. f \notin Elements(active_flows)
      BY <1>6 DEF Ideal!PlacesOf, Elements
    <2> QED
      BY <1>3, <1>5, <2>1, <2>2
  <1>7. CASE Ideal!PlacesOf(f) # {}
    <2>1. PICK places : places = DOMAIN active_flows \ Ideal!PlacesOf(f)
      OBVIOUS
    <2>2. PICK list \in Ideal!Kept(active_flows, places) : Ideal!ComputeSchedule(list, active, events)
      BY <1>1, <1>2, <1>7, <2>1 DEF Ideal!FlowFinished
    <2>3. /\ list \in Seq(arrived) /\ Once(list)
          /\ Elements(list) = {active_flows[i] : i \in places}
      BY <1>3, <2>1, <2>2, KeptFacts
    <2>4. Elements(list) = Elements(active_flows) \ {f}
      BY <2>1, <2>3 DEF Elements, Ideal!PlacesOf
    <2>5. /\ active_flows' \in Seq(arrived) /\ Once(active_flows')
          /\ Elements(active_flows') \subseteq Elements(list)
          /\ Assigned(active_flow', arrived) /\ Awake(active_flow', host_proc_event', finished)
          /\ \A h \in Hosts : active_flow'[h] \in Elements(list) \union {active[h], None}
          /\ Elements(list) \intersect finished = {} =>
               /\ Elements(active_flows') = Elements(list)
               /\ \A g \in Elements(list) : ServedBy(g, active_flow', Elements(list))
      BY <1>3, <1>5, <2>2, <2>3, ScheduleFacts
    <2>6. early = {} => /\ Elements(list) \intersect finished = {}
                        /\ \A h \in Hosts : active_flow[h] \in Elements(active_flows) \union {None}
      BY <2>4 DEF IdealInv, CalmOK
    <2>7. \A h \in Hosts : /\ active_flow'[h] # f
                           /\ active_flow'[h] \in Elements(active_flows)
                                                  \union {active_flow[h], None}
      BY <1>4, <1>5, <2>4, <2>5
    <2>8. Elements(active_flows') \subseteq Elements(active_flows) \ {f}
      BY <2>4, <2>5
    <2>9. ASSUME early = {}
          PROVE  /\ Elements(active_flows') = Elements(list)
                 /\ \A h \in Hosts : active_flow'[h] \in Elements(list) \union {None}
                 /\ \A g \in Elements(list) : ServedBy(g, active_flow', Elements(list))
      <3>1. ASSUME NEW h \in Hosts PROVE active_flow'[h] \in Elements(list) \union {None}
        BY <1>5, <2>4, <2>5, <2>6, <2>9
      <3> QED
        BY <2>5, <2>6, <2>9, <3>1
    <2>10. early = {} =>
             /\ Elements(active_flows') = Elements(active_flows) \ {f}
             /\ \A h \in Hosts : active_flow'[h] \in Elements(active_flows') \union {None}
             /\ \A g \in Elements(active_flows') :
                  ServedBy(g, active_flow', Elements(active_flows'))
      BY <2>4, <2>9
    <2> QED
      BY <2>5, <2>7, <2>8, <2>10
  <1> QED
    BY <1>6, <1>7

(***************************************************************************)
(* The invariant of Ideal, action by action.                               *)
(***************************************************************************)
LEMMA StartIdeal == ASSUME IdealInv, NEW f \in Flows, Ideal!StartFlow(f) PROVE IdealInv'
  <1>1. /\ f \notin arrived /\ arrived' = arrived \union {f} /\ Ideal!FlowArrival(f)
        /\ UNCHANGED <<finished, sent, acked, received, retx_event, data, acks, faults, early>>
    BY DEF Ideal!StartFlow, Ideal!network
  <1>2. /\ f \notin finished /\ f \notin retx_event /\ data[f] = 0 /\ acks[f] = {}
        /\ arrived \subseteq Flows
    BY <1>1 DEF IdealInv, IdealTypes, Counted
  <1>3. Elements(active_flows) \subseteq arrived
    BY DEF IdealInv, ArbiterOK, Elements
  <1>4. /\ active_flows' \in Seq(arrived \union {f}) /\ Once(active_flows')
        /\ Elements(active_flows') \subseteq Elements(active_flows) \union {f}
        /\ Assigned(active_flow', arrived \union {f})
        /\ Awake(active_flow', host_proc_event', finished)
        /\ \A h \in Hosts :
              active_flow'[h] \in (Elements(active_flows) \union {f}) \union {active_flow[h], None}
        /\ early = {} =>
              /\ Elements(active_flows') = Elements(active_flows) \union {f}
              /\ \A h \in Hosts : active_flow'[h] \in Elements(active_flows') \union {None}
              /\ \A g \in Elements(active_flows') :
                   ServedBy(g, active_flow', Elements(active_flows'))
    BY <1>1, <1>2, <1>3, ArrivalFacts
  <1>5. IdealTypes'
    BY <1>1, <1>2 DEF IdealInv, IdealTypes
  <1>6. \A g \in Flows : Counted(g)'
    BY <1>1 DEF IdealInv, Counted
  <1>7. ArbiterOK'
    <2>1. ASSUME NEW g \in retx_event
          PROVE  /\ sent[g] = Size[g] /\ g \notin Elements(active_flows')
                 /\ \A h \in Hosts : active_flow'[h] # g
      <3>1. /\ sent[g] = Size[g] /\ g \notin Elements(active_flows) /\ g # f /\ g # None
            /\ \A h \in Hosts : active_flow[h] # g
        BY <1>2, IdealConstants DEF IdealInv, IdealTypes, ArbiterOK
      <3> QED
        BY <1>4, <3>1
    <2> QED
      BY <1>1, <1>4, <2>1 DEF ArbiterOK
  <1>8. CalmOK'
    <2> SUFFICES ASSUME early = {}
                 PROVE  LET L == Elements(active_flows')
                        IN /\ \A g \in L : /\ g \notin finished /\ ServedBy(g, active_flow', L)
                                           /\ sent[g] = Size[g] => data[g] = 0 /\ acks[g] = {}
                           /\ \A g \in (arrived \union {f}) \ finished : g \in L \/ sent[g] = Size[g]
                           /\ \A h \in Hosts : active_flow'[h] \in L \union {None}
      BY <1>1 DEF CalmOK
    <2>1. Elements(active_flows') = Elements(active_flows) \union {f}
      BY <1>4
    <2>2. /\ \A g \in Elements(active_flows) :
               /\ g \notin finished /\ (sent[g] = Size[g] => data[g] = 0 /\ acks[g] = {})
          /\ \A g \in arrived \ finished : g \in Elements(active_flows) \/ sent[g] = Size[g]
      BY DEF IdealInv, CalmOK
    <2> QED
      BY <1>2, <1>4, <2>1, <2>2
  <1> QED
    BY <1>5, <1>6, <1>7, <1>8 DEF IdealInv

\* handle_timeout: a flow with a timer has not finished.
LEMMA TimeoutIdeal == ASSUME IdealInv, NEW f \in Flows, Ideal!Timeout(f) PROVE IdealInv'
  <1>1. /\ f \in retx_event /\ f \in arrived /\ f \notin finished /\ f \notin Elements(active_flows)
        /\ sent[f] = Size[f]
    BY DEF Ideal!Timeout, IdealInv, IdealTypes, ArbiterOK
  <1>2. /\ retx_event' = retx_event \ {f} /\ Ideal!FlowArrival(f)
        /\ UNCHANGED <<arrived, finished, sent, acked, received, data, acks>>
        /\ faults' \in 0 .. MaxFaults /\ early' \subseteq Flows /\ early \subseteq early'
    <2>1. faults \in 0 .. MaxFaults /\ early \subseteq Flows
      BY DEF IdealInv, IdealTypes
    <2>2. MaxFaults \in Nat
      BY FastpassAssumption
    <2> QED
      BY <1>1, <2>1, <2>2 DEF Ideal!Timeout, Ideal!Fault, Ideal!network
  <1>3. early' = {} => data[f] = 0 /\ acks[f] = {}
    <2>1. IsFiniteSet(acks[f]) /\ data[f] \in Nat
      BY DEF IdealInv, IdealTypes, Counted
    <2>2. PICK n \in Nat : n = Cardinality(acks[f]) /\ (n = 0 => acks[f] = {})
      BY <2>1, FS_CardinalityType, FS_EmptySet
    <2>3. Ideal!UnderWay(f) = data[f] + n
      BY <2>2, SameOperators DEF Ideal!UnderWay
    <2>4. early' = {} => ~(Ideal!UnderWay(f) > 0)
      BY DEF Ideal!Timeout
    <2> QED
      BY <2>1, <2>2, <2>3, <2>4
  <1>4. /\ active_flows' \in Seq(arrived \union {f}) /\ Once(active_flows')
        /\ Elements(active_flows') \subseteq Elements(active_flows) \union {f}
        /\ Assigned(active_flow', arrived \union {f})
        /\ Awake(active_flow', host_proc_event', finished)
        /\ \A h \in Hosts :
              active_flow'[h] \in (Elements(active_flows) \union {f}) \union {active_flow[h], None}
        /\ early = {} =>
              /\ Elements(active_flows') = Elements(active_flows) \union {f}
              /\ \A h \in Hosts : active_flow'[h] \in Elements(active_flows') \union {None}
              /\ \A g \in Elements(active_flows') :
                   ServedBy(g, active_flow', Elements(active_flows'))
    BY <1>1, <1>2, ArrivalFacts
  <1>5. arrived \union {f} = arrived
    BY <1>1
  <1>6. IdealTypes'
    BY <1>2 DEF IdealInv, IdealTypes
  <1>7. \A g \in Flows : Counted(g)'
    BY <1>2 DEF IdealInv, Counted
  <1>8. ArbiterOK'
    <2>1. ASSUME NEW g \in retx_event \ {f}
          PROVE  /\ sent[g] = Size[g] /\ g \notin Elements(active_flows')
                 /\ \A h \in Hosts : active_flow'[h] # g
      <3>1. /\ sent[g] = Size[g] /\ g \notin Elements(active_flows) /\ g # None
            /\ \A h \in Hosts : active_flow[h] # g
        BY IdealConstants DEF IdealInv, IdealTypes, ArbiterOK
      <3> QED
        BY <1>4, <3>1
    <2> QED
      BY <1>2, <1>4, <1>5, <2>1 DEF ArbiterOK
  <1>9. CalmOK'
    <2> SUFFICES ASSUME early' = {}
                 PROVE  LET L == Elements(active_flows')
                        IN /\ \A g \in L : /\ g \notin finished /\ ServedBy(g, active_flow', L)
                                           /\ sent[g] = Size[g] => data[g] = 0 /\ acks[g] = {}
                           /\ \A g \in arrived \ finished : g \in L \/ sent[g] = Size[g]
                           /\ \A h \in Hosts : active_flow'[h] \in L \union {None}
      BY <1>2 DEF CalmOK
    <2>1. early = {} /\ Elements(active_flows') = Elements(active_flows) \union {f}
      BY <1>2, <1>4
    <2>2. /\ \A g \in Elements(active_flows) :
               /\ g \notin finished /\ (sent[g] = Size[g] => data[g] = 0 /\ acks[g] = {})
          /\ \A g \in arrived \ finished : g \in Elements(active_flows) \/ sent[g] = Size[g]
      BY <2>1 DEF IdealInv, CalmOK
    <2> QED
      BY <1>1, <1>3, <1>4, <2>1, <2>2
  <1> QED
    BY <1>6, <1>7, <1>8, <1>9 DEF IdealInv

\* A packet of a flow is sent, received or lost: what was sent covers what was received.
LEMMA CountUp == ASSUME NEW n \in Nat PROVE Mss * n \in Nat /\ Mss * (n + 1) = Mss * n + Mss
  BY IdealConstants

\* send_pending_data: the flow is active, so it has no timer.
LEMMA SendIdeal ==
  ASSUME IdealInv, NEW h \in Hosts, Ideal!Sending(h), Ideal!SendPendingData(active_flow[h])
  PROVE  IdealInv'
  <1>1. PICK f : f = active_flow[h]
    OBVIOUS
  <1>2. /\ f \in arrived /\ f \in Flows /\ f \notin finished /\ f # None /\ f \notin retx_event
        /\ early = {} => f \in Elements(active_flows)
    <2>1. f # None /\ f \notin finished
      BY <1>1 DEF Ideal!Sending
    <2> QED
      BY <1>1, <2>1 DEF IdealInv, IdealTypes, ArbiterOK, CalmOK, Assigned
  <1>3. /\ sent' = [sent EXCEPT ![f] = @ + Mss] /\ data' = [data EXCEPT ![f] = @ + 1]
        /\ UNCHANGED <<arrived, finished, acked, received, acks, faults, early>>
    BY <1>1 DEF Ideal!SendPendingData
  <1>4. /\ sent \in [Flows -> Nat] /\ data \in [Flows -> Nat] /\ received \in [Flows -> Nat]
        /\ Mss \in Nat /\ Mss > 0
    BY IdealConstants DEF IdealInv, IdealTypes
  <1>5. /\ sent'[f] = sent[f] + Mss /\ data'[f] = data[f] + 1
        /\ \A g \in Flows : g # f => sent'[g] = sent[g] /\ data'[g] = data[g]
    BY <1>2, <1>3, <1>4
  <1>6. ASSUME NEW g \in Flows PROVE Counted(g)'
    <2>1. /\ received[g] + Mss * data[g] <= sent[g] /\ received[g] \in Nat
          /\ data[g] \in Nat /\ sent[g] \in Nat
      BY <1>4 DEF IdealInv, Counted
    <2>2. Mss * data[g] \in Nat /\ Mss * (data[g] + 1) = Mss * data[g] + Mss
      BY <2>1, CountUp
    <2>3. received'[g] + Mss * data'[g] <= sent'[g]
      <3>1. CASE g = f
        <4>1. Mss * data'[g] = Mss * data[g] + Mss
          BY <1>5, <2>2, <3>1
        <4> QED
          BY <1>3, <1>4, <1>5, <2>1, <2>2, <3>1, <4>1
      <3>2. CASE g # f
        BY <1>3, <1>5, <2>1, <3>2
      <3> QED
        BY <3>1, <3>2
    <2>4. g \notin arrived => g # f
      BY <1>2
    <2> QED
      BY <1>3, <1>5, <2>3, <2>4 DEF IdealInv, Counted
  <1>7. sent' \in [Flows -> Nat] /\ data' \in [Flows -> Nat]
    BY <1>2, <1>3, <1>4
  <1>8. Elements(active_flows) \subseteq arrived
    BY DEF IdealInv, ArbiterOK, Elements
  <1>9. CASE sent'[f] = Size[f]
    <2>1. retx_event' = retx_event \union {f} /\ Ideal!FlowFinished(f)
      BY <1>1, <1>9 DEF Ideal!SendPendingData, Ideal!TimerSet
    <2>2. /\ active_flows' \in Seq(arrived) /\ Once(active_flows')
          /\ Elements(active_flows') \subseteq Elements(active_flows) \ {f}
          /\ Assigned(active_flow', arrived)
          /\ Awake(active_flow', host_proc_event', finished)
          /\ \A k \in Hosts : /\ active_flow'[k] # f
                              /\ active_flow'[k] \in Elements(active_flows)
                                                     \union {active_flow[k], None}
          /\ early = {} /\ f \in Elements(active_flows) =>
               /\ Elements(active_flows') = Elements(active_flows) \ {f}
               /\ \A k \in Hosts : active_flow'[k] \in Elements(active_flows') \union {None}
               /\ \A g \in Elements(active_flows') :
                    ServedBy(g, active_flow', Elements(active_flows'))
      BY <1>2, <2>1, FinishFacts
    <2>3. IdealTypes'
      BY <1>2, <1>3, <1>7, <2>1 DEF IdealInv, IdealTypes
    <2>4. ArbiterOK'
      <3>1. ASSUME NEW g \in retx_event \union {f}
            PROVE  /\ sent'[g] = Size[g] /\ g \notin Elements(active_flows')
                   /\ \A k \in Hosts : active_flow'[k] # g
        <4>1. CASE g = f
          BY <1>9, <2>2, <4>1
        <4>2. CASE g # f
          <5>1. /\ g \in Flows /\ sent[g] = Size[g] /\ g \notin Elements(active_flows) /\ g # None
                /\ \A k \in Hosts : active_flow[k] # g
            BY <3>1, <4>2, IdealConstants DEF IdealInv, IdealTypes, ArbiterOK
          <5> QED
            BY <1>5, <2>2, <4>2, <5>1
        <4> QED
          BY <4>1, <4>2
      <3> QED
        BY <1>3, <2>1, <2>2, <3>1 DEF ArbiterOK
    <2>5. CalmOK'
      <3> SUFFICES ASSUME early = {}
                   PROVE  LET L == Elements(active_flows')
                          IN /\ \A g \in L : /\ g \notin finished /\ ServedBy(g, active_flow', L)
                                             /\ sent'[g] = Size[g] => data'[g] = 0 /\ acks[g] = {}
                             /\ \A g \in arrived \ finished : g \in L \/ sent'[g] = Size[g]
                             /\ \A k \in Hosts : active_flow'[k] \in L \union {None}
        BY <1>3 DEF CalmOK
      <3>1. /\ Elements(active_flows') = Elements(active_flows) \ {f}
            /\ \A k \in Hosts : active_flow'[k] \in Elements(active_flows') \union {None}
            /\ \A g \in Elements(active_flows') :
                 ServedBy(g, active_flow', Elements(active_flows'))
        BY <1>2, <2>2
      <3>2. /\ \A g \in Elements(active_flows) :
                 /\ g \notin finished /\ (sent[g] = Size[g] => data[g] = 0 /\ acks[g] = {})
            /\ \A g \in arrived \ finished : g \in Elements(active_flows) \/ sent[g] = Size[g]
        BY DEF IdealInv, CalmOK
      <3>3. arrived \subseteq Flows
        BY DEF IdealInv, IdealTypes
      <3> QED
        BY <1>5, <1>8, <1>9, <3>1, <3>2, <3>3
    <2> QED
      BY <1>6, <2>3, <2>4, <2>5 DEF IdealInv
  <1>10. CASE sent'[f] # Size[f]
    <2>1. UNCHANGED <<retx_event, active_flows, active_flow, host_proc_event>>
      BY <1>1, <1>10 DEF Ideal!SendPendingData, Ideal!arbiter
    <2>2. IdealTypes'
      BY <1>3, <1>7, <2>1 DEF IdealInv, IdealTypes
    <2>3. ArbiterOK'
      <3>1. \A g \in retx_event : g \in Flows /\ g # f
        BY <1>2 DEF IdealInv, IdealTypes
      <3> QED
        BY <1>3, <1>5, <2>1, <3>1 DEF IdealInv, ArbiterOK
    <2>4. CalmOK'
      <3> SUFFICES ASSUME early = {}
                   PROVE  LET L == Elements(active_flows)
                          IN /\ \A g \in L : /\ g \notin finished /\ ServedBy(g, active_flow, L)
                                             /\ sent'[g] = Size[g] => data'[g] = 0 /\ acks[g] = {}
                             /\ \A g \in arrived \ finished : g \in L \/ sent'[g] = Size[g]
                             /\ \A k \in Hosts : active_flow[k] \in L \union {None}
        BY <1>3, <2>1 DEF CalmOK
      <3>1. arrived \subseteq Flows
        BY DEF IdealInv, IdealTypes
      <3> QED
        BY <1>2, <1>5, <1>8, <1>10, <3>1 DEF IdealInv, CalmOK
    <2> QED
      BY <1>6, <2>2, <2>3, <2>4 DEF IdealInv
  <1> QED
    BY <1>9, <1>10

\* A host that has nothing to send sleeps.
LEMMA HostIdeal == ASSUME IdealInv, NEW h \in Hosts, Ideal!Send(h) PROVE IdealInv'
  <1>1. CASE Ideal!Sending(h)
    BY <1>1, SendIdeal DEF Ideal!Send
  <1>2. CASE ~Ideal!Sending(h)
    <2>1. /\ host_proc_event' = host_proc_event \ {h}
          /\ UNCHANGED <<arrived, finished, sent, acked, received, retx_event, active_flows,
                         active_flow, data, acks, faults, early>>
      BY <1>2 DEF Ideal!Send, Ideal!flow, Ideal!network
    <2>2. active_flow[h] = None \/ active_flow[h] \in finished
      BY <1>2 DEF Ideal!Sending
    <2>3. IdealTypes'
      BY <2>1 DEF IdealInv, IdealTypes
    <2>4. \A g \in Flows : Counted(g)'
      BY <2>1 DEF IdealInv, Counted
    <2>5. Awake(active_flow, host_proc_event', finished)
      BY <2>1, <2>2 DEF IdealInv, ArbiterOK, Awake
    <2>6. ArbiterOK'
      BY <2>1, <2>5 DEF IdealInv, ArbiterOK
    <2>7. CalmOK'
      BY <2>1 DEF IdealInv, CalmOK
    <2> QED
      BY <2>3, <2>4, <2>6, <2>7 DEF IdealInv
  <1> QED
    BY <1>1, <1>2

\* The network carries a packet, or loses it, and the arbiter knows nothing of it.
LEMMA NetworkIdeal ==
  ASSUME IdealInv, NEW f \in Flows,
         UNCHANGED <<arrived, finished, sent, acked, retx_event, active_flows, active_flow,
                     host_proc_event>>,
         received' \in [Flows -> Nat], data' \in [Flows -> Nat], acks' \in [Flows -> SUBSET Nat],
         faults' \in 0 .. MaxFaults, early' = early,
         \A g \in Flows : g # f => /\ received'[g] = received[g] /\ data'[g] = data[g]
                                   /\ acks'[g] = acks[g],
         Counted(f)', data[f] # 0 \/ acks[f] # {}
  PROVE  IdealInv'
  <1>1. IdealTypes'
    BY DEF IdealInv, IdealTypes
  <1>2. \A g \in Flows : Counted(g)'
    BY DEF IdealInv, Counted
  <1>3. ArbiterOK'
    BY DEF IdealInv, ArbiterOK
  <1>4. Elements(active_flows) \subseteq Flows
    BY DEF IdealInv, IdealTypes, ArbiterOK, Elements
  <1>5. CalmOK'
    BY <1>4 DEF IdealInv, CalmOK
  <1> QED
    BY <1>1, <1>2, <1>3, <1>5 DEF IdealInv

LEMMA DataIdeal ==
  ASSUME IdealInv, NEW f \in Flows, Ideal!ReceiveData(f) \/ Ideal!LoseData(f)
  PROVE  IdealInv'
  <1>1. /\ UNCHANGED <<arrived, finished, sent, acked, retx_event, active_flows, active_flow,
                       host_proc_event>>
        /\ data[f] > 0 /\ data' = [data EXCEPT ![f] = @ - 1] /\ early' = early
        /\ \/ UNCHANGED <<received, acks>>
           \/ /\ received' = [received EXCEPT ![f] = @ + Mss]
              /\ acks' = [acks EXCEPT ![f] = @ \union {received'[f]}]
    BY DEF Ideal!ReceiveData, Ideal!LoseData, Ideal!Fault, Ideal!flow, Ideal!arbiter
  <1>2. faults' \in 0 .. MaxFaults
    <2>1. faults \in 0 .. MaxFaults /\ MaxFaults \in Nat
      BY FastpassAssumption DEF IdealInv, IdealTypes
    <2> QED
      BY <2>1 DEF Ideal!ReceiveData, Ideal!LoseData, Ideal!Fault
  <1>3. /\ received \in [Flows -> Nat] /\ data \in [Flows -> Nat] /\ acks \in [Flows -> SUBSET Nat]
        /\ sent \in [Flows -> Nat] /\ Mss \in Nat
    BY IdealConstants DEF IdealInv, IdealTypes
  <1>4. PICK n \in Nat : n + 1 = data[f]
    <2>1. data[f] - 1 \in Nat /\ (data[f] - 1) + 1 = data[f]
      BY <1>1, <1>3
    <2> QED
      BY <2>1
  <1>5. data' \in [Flows -> Nat] /\ data'[f] = n
    BY <1>1, <1>3, <1>4
  <1>6. Mss * n \in Nat /\ Mss * data[f] = Mss * n + Mss
    BY <1>4, CountUp
  <1>7. /\ received[f] + Mss * data[f] <= sent[f] /\ received[f] \in Nat /\ sent[f] \in Nat
        /\ IsFiniteSet(acks[f]) /\ \A ack \in acks[f] : ack <= received[f]
        /\ f \in arrived /\ acks[f] \subseteq Nat
    BY <1>1, <1>3 DEF IdealInv, Counted
  <1>8. CASE UNCHANGED <<received, acks>>
    <2>1. Counted(f)'
      BY <1>1, <1>3, <1>5, <1>6, <1>7, <1>8 DEF Counted
    <2> QED
      BY <1>1, <1>2, <1>3, <1>5, <1>8, <2>1, NetworkIdeal
  <1>9. CASE /\ received' = [received EXCEPT ![f] = @ + Mss]
             /\ acks' = [acks EXCEPT ![f] = @ \union {received'[f]}]
    <2>1. /\ received' \in [Flows -> Nat] /\ acks' \in [Flows -> SUBSET Nat]
          /\ received'[f] = received[f] + Mss /\ acks'[f] = acks[f] \union {received'[f]}
      BY <1>3, <1>9
    <2>2. IsFiniteSet(acks'[f])
      BY <1>7, <2>1, FS_AddElement
    <2>3. \A ack \in acks'[f] : ack <= received'[f]
      BY <1>3, <1>7, <2>1
    <2>4. received'[f] + Mss * data'[f] <= sent'[f]
      BY <1>1, <1>3, <1>5, <1>6, <1>7, <2>1
    <2>5. Counted(f)'
      BY <1>1, <1>7, <2>2, <2>3, <2>4 DEF Counted
    <2> QED
      BY <1>1, <1>2, <1>3, <1>5, <1>9, <2>1, <2>5, NetworkIdeal
  <1> QED
    BY <1>1, <1>8, <1>9

\* An acknowledgement is lost, or is old, or is not the last.
LEMMA FewerAcks ==
  ASSUME IdealInv, NEW f \in Flows, NEW ack, acks' = [acks EXCEPT ![f] = @ \ {ack}]
  PROVE  /\ acks' \in [Flows -> SUBSET Nat] /\ IsFiniteSet(acks'[f])
         /\ acks'[f] \subseteq acks[f] /\ \A g \in Flows : g # f => acks'[g] = acks[g]
  <1>1. acks \in [Flows -> SUBSET Nat] /\ IsFiniteSet(acks[f])
    BY DEF IdealInv, IdealTypes, Counted
  <1>2. acks' \in [Flows -> SUBSET Nat] /\ acks'[f] \subseteq acks[f]
    BY <1>1
  <1> QED
    BY <1>1, <1>2, FS_Subset

LEMMA LoseAckIdeal ==
  ASSUME IdealInv, NEW f \in Flows, NEW ack \in acks[f], Ideal!LoseAck(f, ack)
  PROVE  IdealInv'
  <1>1. /\ UNCHANGED <<arrived, finished, sent, acked, received, retx_event, active_flows,
                       active_flow, host_proc_event, data, early>>
        /\ acks' = [acks EXCEPT ![f] = @ \ {ack}] /\ Ideal!Fault
    BY DEF Ideal!LoseAck, Ideal!flow, Ideal!arbiter
  <1>2. faults' \in 0 .. MaxFaults
    <2>1. faults \in 0 .. MaxFaults /\ MaxFaults \in Nat
      BY FastpassAssumption DEF IdealInv, IdealTypes
    <2> QED
      BY <1>1, <2>1 DEF Ideal!Fault
  <1>3. /\ received \in [Flows -> Nat] /\ data \in [Flows -> Nat]
    BY DEF IdealInv, IdealTypes
  <1>4. /\ acks' \in [Flows -> SUBSET Nat] /\ IsFiniteSet(acks'[f])
        /\ acks'[f] \subseteq acks[f] /\ \A g \in Flows : g # f => acks'[g] = acks[g]
    BY <1>1, FewerAcks
  <1>5. Counted(f)'
    BY <1>1, <1>4 DEF IdealInv, Counted
  <1>6. acks[f] # {}
    OBVIOUS
  <1> QED
    BY <1>1, <1>2, <1>3, <1>4, <1>5, <1>6, NetworkIdeal

LEMMA AckIdeal ==
  ASSUME IdealInv, NEW f \in Flows, NEW ack \in acks[f], Ideal!ReceiveAck(f, ack)
  PROVE  IdealInv'
  <1>1. /\ UNCHANGED <<arrived, sent, received, data, faults, early>>
        /\ acks' = [acks EXCEPT ![f] = @ \ {ack}]
    BY DEF Ideal!ReceiveAck
  <1>2. /\ acks' \in [Flows -> SUBSET Nat] /\ IsFiniteSet(acks'[f])
        /\ acks'[f] \subseteq acks[f] /\ \A g \in Flows : g # f => acks'[g] = acks[g]
    BY <1>1, FewerAcks
  <1>3. /\ ack \in Nat /\ f \in arrived /\ arrived \subseteq Flows
        /\ acked \in [Flows -> Nat] /\ sent \in [Flows -> Nat]
        /\ Mss * data[f] \in Nat /\ received[f] \in Nat
    <2>1. data[f] \in Nat /\ received[f] \in Nat /\ acks[f] \subseteq Nat
      BY DEF IdealInv, IdealTypes
    <2> QED
      BY <2>1, CountUp DEF IdealInv, IdealTypes, Counted
  <1>4. ack <= sent[f]
    BY <1>3 DEF IdealInv, Counted
  <1>5. \A g \in Flows : Counted(g)'
    BY <1>1, <1>2 DEF IdealInv, Counted
  <1>6. \/ acked' = acked
        \/ acked' = [acked EXCEPT ![f] = ack]
    BY DEF Ideal!ReceiveAck
  <1>7. acked' \in [Flows -> Nat]
    BY <1>3, <1>6
  <1>8. Elements(active_flows) \subseteq arrived
    BY DEF IdealInv, ArbiterOK, Elements
  <1>9. CASE UNCHANGED <<finished, retx_event, active_flows, active_flow, host_proc_event>>
    <2>1. IdealTypes'
      BY <1>1, <1>2, <1>7, <1>9 DEF IdealInv, IdealTypes
    <2>2. ArbiterOK'
      BY <1>1, <1>9 DEF IdealInv, ArbiterOK
    <2>3. \A g \in Flows : acks[g] = {} => acks'[g] = {}
      BY <1>2
    <2>4. CalmOK'
      BY <1>1, <1>3, <1>8, <1>9, <2>3 DEF IdealInv, CalmOK
    <2> QED
      BY <1>5, <2>1, <2>2, <2>4 DEF IdealInv
  <1>10. CASE f \notin finished /\ ack >= Size[f] /\ Ideal!Complete(f)
    <2>1. retx_event' = retx_event \ {f} /\ finished' = finished \union {f}
      BY <1>10 DEF Ideal!Complete
    <2>2. IdealTypes'
      BY <1>1, <1>2, <1>3, <1>7, <2>1 DEF IdealInv, IdealTypes
    <2>3. sent[f] >= Size[f] /\ Size[f] \in Nat
      BY <1>3, <1>4, <1>10, IdealConstants
    <2>4. CASE sent[f] > Size[f]
      <3>1. Ideal!FlowFinished(f)
        BY <1>10, <2>4 DEF Ideal!Complete
      <3>2. /\ active_flows' \in Seq(arrived) /\ Once(active_flows')
            /\ Elements(active_flows') \subseteq Elements(active_flows) \ {f}
            /\ Assigned(active_flow', arrived)
            /\ Awake(active_flow', host_proc_event', finished)
            /\ \A h \in Hosts : /\ active_flow'[h] # f
                                /\ active_flow'[h] \in Elements(active_flows)
                                                       \union {active_flow[h], None}
            /\ early = {} /\ f \in Elements(active_flows) =>
                 /\ Elements(active_flows') = Elements(active_flows) \ {f}
                 /\ \A h \in Hosts : active_flow'[h] \in Elements(active_flows') \union {None}
                 /\ \A g \in Elements(active_flows') :
                      ServedBy(g, active_flow', Elements(active_flows'))
        BY <1>3, <3>1, FinishFacts
      <3>3. Awake(active_flow', host_proc_event', finished')
        BY <2>1, <3>2 DEF Awake
      <3>4. ASSUME NEW g \in retx_event \ {f}
            PROVE  /\ sent[g] = Size[g] /\ g \notin Elements(active_flows')
                   /\ \A h \in Hosts : active_flow'[h] # g
        <4>1. /\ sent[g] = Size[g] /\ g \notin Elements(active_flows) /\ g # None
              /\ \A h \in Hosts : active_flow[h] # g
          BY IdealConstants DEF IdealInv, IdealTypes, ArbiterOK
        <4> QED
          BY <3>2, <4>1
      <3>5. ArbiterOK'
        BY <1>1, <2>1, <3>2, <3>3, <3>4 DEF ArbiterOK
      <3>6. CalmOK'
        <4> SUFFICES ASSUME early = {}
                     PROVE  LET L == Elements(active_flows')
                            IN /\ \A g \in L : /\ g \notin finished' /\ ServedBy(g, active_flow', L)
                                               /\ sent[g] = Size[g] => data[g] = 0 /\ acks'[g] = {}
                               /\ \A g \in arrived \ finished' : g \in L \/ sent[g] = Size[g]
                               /\ \A h \in Hosts : active_flow'[h] \in L \union {None}
          BY <1>1 DEF CalmOK
        <4>1. /\ \A g \in Elements(active_flows) :
                   /\ g \notin finished /\ (sent[g] = Size[g] => data[g] = 0 /\ acks[g] = {})
              /\ \A g \in arrived \ finished : g \in Elements(active_flows) \/ sent[g] = Size[g]
          BY DEF IdealInv, CalmOK
        <4>2. f \in Elements(active_flows)
          <5>1. sent[f] # Size[f]
            BY <1>3, <2>3, <2>4
          <5> QED
            BY <1>3, <1>10, <4>1, <5>1
        <4>3. /\ Elements(active_flows') = Elements(active_flows) \ {f}
              /\ \A h \in Hosts : active_flow'[h] \in Elements(active_flows') \union {None}
              /\ \A g \in Elements(active_flows') :
                   ServedBy(g, active_flow', Elements(active_flows'))
          BY <3>2, <4>2
        <4> QED
          BY <1>2, <1>3, <1>8, <2>1, <4>1, <4>3
      <3> QED
        BY <1>5, <2>2, <3>5, <3>6 DEF IdealInv
    <2>5. CASE ~(sent[f] > Size[f])
      <3>1. /\ active_flow' = [h \in Hosts |-> IF h = Src[f] /\ active_flow[h] = f
                                               THEN None ELSE active_flow[h]]
            /\ UNCHANGED <<active_flows, host_proc_event>>
        BY <1>10, <2>5 DEF Ideal!Complete
      <3>2. sent[f] = Size[f]
        BY <1>3, <2>3, <2>5
      <3>3. \A h \in Hosts : active_flow'[h] = active_flow[h] \/ active_flow'[h] = None
        BY <3>1
      <3>4. Assigned(active_flow', arrived)
        <4>1. /\ Assigned(active_flow, arrived)
              /\ active_flow' = [h \in Hosts |-> active_flow'[h]]
          BY <3>1 DEF IdealInv, ArbiterOK
        <4> QED
          BY <3>3, <4>1 DEF Assigned
      <3>5. Awake(active_flow', host_proc_event', finished')
        BY <2>1, <3>1, <3>3 DEF IdealInv, ArbiterOK, Awake
      <3>6. ASSUME NEW g \in retx_event \ {f}
            PROVE  /\ sent[g] = Size[g] /\ g \notin Elements(active_flows)
                   /\ \A h \in Hosts : active_flow'[h] # g
        <4>1. /\ sent[g] = Size[g] /\ g \notin Elements(active_flows) /\ g # None
              /\ \A h \in Hosts : active_flow[h] # g
          BY IdealConstants DEF IdealInv, IdealTypes, ArbiterOK
        <4> QED
          BY <3>3, <4>1
      <3>7. ArbiterOK'
        BY <1>1, <2>1, <3>1, <3>4, <3>5, <3>6 DEF IdealInv, ArbiterOK
      <3>8. CalmOK'
        <4> SUFFICES ASSUME early = {}
                     PROVE  LET L == Elements(active_flows)
                            IN /\ \A g \in L : /\ g \notin finished' /\ ServedBy(g, active_flow', L)
                                               /\ sent[g] = Size[g] => data[g] = 0 /\ acks'[g] = {}
                               /\ \A g \in arrived \ finished' : g \in L \/ sent[g] = Size[g]
                               /\ \A h \in Hosts : active_flow'[h] \in L \union {None}
          BY <1>1, <3>1 DEF CalmOK
        <4>1. /\ \A g \in Elements(active_flows) :
                   /\ g \notin finished /\ (sent[g] = Size[g] => data[g] = 0 /\ acks[g] = {})
                   /\ ServedBy(g, active_flow, Elements(active_flows))
              /\ \A g \in arrived \ finished : g \in Elements(active_flows) \/ sent[g] = Size[g]
              /\ \A h \in Hosts : active_flow[h] \in Elements(active_flows) \union {None}
          BY DEF IdealInv, CalmOK
        <4>2. f \notin Elements(active_flows) /\ f # None
          BY <1>3, <3>2, <4>1, IdealConstants
        <4>3. \A h \in Hosts : active_flow'[h] = active_flow[h]
          BY <3>1, <4>1, <4>2
        <4>4. \A g \in Elements(active_flows) : ServedBy(g, active_flow', Elements(active_flows))
          BY <4>1, <4>3 DEF ServedBy
        <4> QED
          BY <1>2, <1>3, <1>8, <2>1, <4>1, <4>2, <4>3, <4>4
      <3> QED
        BY <1>5, <2>2, <3>7, <3>8 DEF IdealInv
    <2> QED
      BY <2>4, <2>5
  <1> QED
    BY <1>9, <1>10 DEF Ideal!ReceiveAck, Ideal!arbiter

LEMMA IdealStart == Init /\ Ideal!Init => IdealInv
  <1> SUFFICES ASSUME Init, Ideal!Init PROVE IdealInv
    OBVIOUS
  <1>1. /\ arrived = {} /\ finished = {} /\ retx_event = {} /\ active_flows = <<>>
        /\ active_flow = [h \in Hosts |-> None] /\ host_proc_event = {}
        /\ sent = [f \in Flows |-> 0] /\ acked = [f \in Flows |-> 0]
        /\ received = [f \in Flows |-> 0] /\ data = [f \in Flows |-> 0]
        /\ acks = [f \in Flows |-> {}] /\ faults = 0 /\ early = {}
    BY IdealConstants DEF Ideal!Init
  <1>2. IdealTypes
    <2>1. 0 \in 0 .. MaxFaults
      BY FastpassAssumption
    <2>2. /\ sent \in [Flows -> Nat] /\ acked \in [Flows -> Nat] /\ received \in [Flows -> Nat]
          /\ data \in [Flows -> Nat] /\ acks \in [Flows -> SUBSET Nat]
      BY <1>1
    <2> QED
      BY <1>1, <2>1, <2>2 DEF IdealTypes
  <1>3. ASSUME NEW f \in Flows PROVE Counted(f)
    <2>1. received[f] = 0 /\ data[f] = 0 /\ sent[f] = 0 /\ acks[f] = {} /\ Mss * 0 = 0
      BY <1>1, IdealConstants
    <2> QED
      BY <2>1, FS_EmptySet DEF Counted
  <1>4. Elements(active_flows) = {} /\ active_flows \in Seq(arrived) /\ Once(active_flows)
    BY <1>1 DEF Elements, Once
  <1>5. ArbiterOK
    <2>1. \A h \in Hosts : active_flow[h] = None
      BY <1>1
    <2> QED
      BY <1>1, <1>4, <2>1 DEF ArbiterOK, Assigned, Awake
  <1>6. CalmOK
    BY <1>1, <1>4 DEF CalmOK
  <1> QED
    BY <1>2, <1>3, <1>5, <1>6 DEF IdealInv

LEMMA IdealStep == ASSUME IdealInv, Ideal!Next PROVE IdealInv'
  <1>1. ASSUME NEW h \in Hosts, Ideal!Send(h) PROVE IdealInv'
    BY <1>1, HostIdeal
  <1>2. ASSUME NEW f \in Flows,
               \/ Ideal!StartFlow(f) \/ Ideal!Timeout(f) \/ Ideal!ReceiveData(f) \/ Ideal!LoseData(f)
               \/ \E ack \in acks[f] : Ideal!ReceiveAck(f, ack) \/ Ideal!LoseAck(f, ack)
        PROVE  IdealInv'
    BY <1>2, StartIdeal, TimeoutIdeal, DataIdeal, AckIdeal, LoseAckIdeal
  <1> QED
    BY <1>1, <1>2, IdealConstants DEF Ideal!Next

\* Ideal stands still while Fastpass runs, but for what they share, and the same the other
\* way round.
LEMMA IdealRests ==
  ASSUME IdealInv, UNCHANGED ideal, early \subseteq early',
         faults' \in 0 .. MaxFaults, early' \subseteq Flows
  PROVE  IdealInv'
  <1>1. IdealTypes'
    BY DEF IdealInv, IdealTypes, ideal
  <1>2. \A f \in Flows : Counted(f)'
    BY DEF IdealInv, Counted, ideal
  <1>3. ArbiterOK'
    BY DEF IdealInv, ArbiterOK, ideal
  <1>4. CalmOK'
    <2>1. early' = {} => early = {}
      OBVIOUS
    <2> QED
      BY <2>1 DEF IdealInv, CalmOK, ideal
  <1> QED
    BY <1>1, <1>2, <1>3, <1>4 DEF IdealInv

AtRest == TypeOK /\ started = {} /\ ~failed

LEMMA FastpassRests ==
  ASSUME AtRest, UNCHANGED fastpass, faults' \in 0 .. MaxFaults, early' \subseteq Flows
  PROVE  AtRest'
  BY DEF AtRest, TypeOK, fastpass, sending, acking, arbiter

CentralInv ==
  /\ flow_type \in {"FASTPASS_FLOW", "IDEAL_FLOW"}
  /\ flow_type = "FASTPASS_FLOW" => Inv
  /\ flow_type = "IDEAL_FLOW" => AtRest
  /\ IdealInv

LEMMA CentralStart == CentralInit => CentralInv
  <1> SUFFICES ASSUME CentralInit PROVE CentralInv
    OBVIOUS
  <1>1. Inv /\ IdealInv
    BY InvInit, IdealStart DEF CentralInit
  <1>2. TypeOK
    BY <1>1, InvTypes
  <1> QED
    BY <1>1, <1>2 DEF CentralInit, Init, AtRest, CentralInv

LEMMA CentralStep == CentralInv /\ [CentralNext]_<<flow_type, vars, ideal>> => CentralInv'
  <1> SUFFICES ASSUME CentralInv, [CentralNext]_<<flow_type, vars, ideal>> PROVE CentralInv'
    OBVIOUS
  <1>1. IdealTypes
    BY DEF CentralInv, IdealInv
  <1>2. CASE UNCHANGED <<flow_type, vars, ideal>>
    <2>1. UNCHANGED vars /\ UNCHANGED ideal /\ UNCHANGED fastpass
          /\ flow_type' = flow_type /\ faults' = faults /\ early' = early
      BY <1>2 DEF vars, fastpass, history
    <2>2. IdealInv'
      BY <1>1, <2>1, IdealRests DEF CentralInv, IdealTypes
    <2>3. Inv => Inv'
      BY <2>1, InvStep
    <2>4. AtRest => AtRest'
      BY <1>1, <2>1, FastpassRests DEF IdealTypes
    <2> QED
      BY <2>1, <2>2, <2>3, <2>4 DEF CentralInv
  <1>3. CASE FastpassNext /\ flow_type' = flow_type
    <2>1. flow_type = "FASTPASS_FLOW" /\ Next /\ UNCHANGED ideal /\ Inv
      BY <1>3 DEF FastpassNext, CentralInv
    <2>2. Inv'
      BY <2>1, InvStep
    <2>3. faults' \in 0 .. MaxFaults /\ early' \subseteq Flows
      BY <2>2 DEF Inv, Types
    <2>4. early \subseteq early'
      <3>1. ASSUME NEW f \in Flows, StartFlow(f) \/ SendData(f) \/ Timeout(f)
            PROVE  early \subseteq early'
        BY <3>1 DEF StartFlow, SendData, Timeout, history
      <3>2. ASSUME NEW m \in BagToSet(net),
                   \/ ReceiveSchedule(m) \/ ReceiveRts(m) \/ ReceiveData(m)
                   \/ ReceiveAck(m) \/ Lose(m)
            PROVE  early' = early
        BY <3>2 DEF ReceiveSchedule, ReceiveRts, ReceiveData, ReceiveAck, Lose, history
      <3>3. ScheduleEpoch => early' = early
        BY DEF ScheduleEpoch, history
      <3> QED
        BY <2>1, <3>1, <3>2, <3>3 DEF Next
    <2>5. IdealInv'
      BY <2>1, <2>3, <2>4, IdealRests DEF CentralInv
    <2> QED
      BY <1>3, <2>1, <2>2, <2>5 DEF CentralInv
  <1>4. CASE IdealNext /\ flow_type' = flow_type
    <2>1. flow_type = "IDEAL_FLOW" /\ Ideal!Next /\ UNCHANGED fastpass /\ AtRest
      BY <1>4 DEF IdealNext, CentralInv
    <2>2. IdealInv'
      BY <2>1, IdealStep DEF CentralInv
    <2>3. faults' \in 0 .. MaxFaults /\ early' \subseteq Flows
      BY <2>2 DEF IdealInv, IdealTypes
    <2>4. AtRest'
      BY <2>1, <2>3, FastpassRests
    <2> QED
      BY <1>4, <2>1, <2>2, <2>4 DEF CentralInv
  <1> QED
    BY <1>2, <1>3, <1>4 DEF CentralNext

LEMMA CentralInvHolds == CentralSpec => []CentralInv
  BY CentralStart, CentralStep, PTL DEF CentralSpec

\* Every variable of both transports has its type, whichever a simulation runs.
THEOREM CentralTypesOK == CentralSpec => []AllTypesOK
  <1>1. CentralInv => AllTypesOK
    <2> SUFFICES ASSUME CentralInv PROVE AllTypesOK
      OBVIOUS
    <2>1. TypeOK
      BY InvTypes DEF CentralInv, AtRest
    <2>2. IdealTypes /\ ArbiterOK
      BY DEF CentralInv, IdealInv
    <2>3. active_flows \in Seq(Flows)
      BY <2>2 DEF IdealTypes, ArbiterOK
    <2>4. active_flow \in [Hosts -> Flows \union {None}]
      BY <2>2 DEF IdealTypes, ArbiterOK, Assigned
    <2>5. \A c \in {sent, acked, received} : c \in [Flows -> Nat]
      BY <2>2 DEF IdealTypes
    <2>6. Ideal!TypeOK
      BY <2>2, <2>3, <2>4, <2>5, IdealConstants
         DEF IdealTypes, ArbiterOK, Assigned, Awake, Ideal!TypeOK
    <2> QED
      BY <2>1, <2>6 DEF AllTypesOK
  <1> QED
    BY <1>1, CentralInvHolds, PTL

\* The slots of Fastpass are backed, and its senders have a packet for each, in the
\* composition as well: what Ideal does to the variables they share is no concern of it.
THEOREM CentralSlotsOK == CentralSpec => [](AllottedIsRemaining /\ SendsHaveAPacket)
  <1>1. CentralInv => AllottedIsRemaining /\ SendsHaveAPacket
    <2>1. AtRest => AllottedIsRemaining /\ SendsHaveAPacket
      BY DEF AtRest, AllottedIsRemaining, SendsHaveAPacket
    <2> QED
      BY <2>1, InvAllots DEF CentralInv, Inv
  <1> QED
    BY <1>1, CentralInvHolds, PTL

\* Ideal's arbiter and hosts agree: a flow is listed once at most, and not while its timer
\* is pending (the assertions at ideal.cpp:29, 39 and 143), and a source with a flow to
\* send has an event pending.
THEOREM ArbiterAgrees == CentralSpec => []ArbiterConsistent
  <1>1. CentralInv => ArbiterConsistent
    <2> SUFFICES ASSUME CentralInv PROVE ArbiterConsistent
      OBVIOUS
    <2>1. ArbiterOK
      BY DEF CentralInv, IdealInv
    <2>2. \A f \in retx_event : ~Ideal!InList(f) /\ sent[f] = Size[f]
      BY <2>1 DEF ArbiterOK, Elements, Ideal!InList, Ideal!PlacesOf
    <2>3. Ideal!ListedOnce
      BY <2>1, <2>2 DEF ArbiterOK, Once, Ideal!ListedOnce
    <2>4. Ideal!ActiveHostsAwake
      BY <2>1 DEF ArbiterOK, Awake, Ideal!ActiveHostsAwake, Ideal!Sending
    <2> QED
      BY <2>3, <2>4 DEF ArbiterConsistent
  <1> QED
    BY <1>1, CentralInvHolds, PTL

\* No flow of Ideal waits in the list while both its hosts are idle, unless a timer fired
\* too early, though it is not each change of the active flows that makes a new schedule.
THEOREM NobodyWaitsForNobody == CentralSpec => []NoPairIdle
  <1>1. CentralInv => NoPairIdle
    <2> SUFFICES ASSUME CentralInv, early = {}, NEW f \in Flows, Ideal!InList(f)
                 PROVE  Ideal!Served(f)
      BY IdealConstants DEF NoPairIdle, Ideal!NoPairIdle
    <2>1. f \in Elements(active_flows)
      BY DEF Ideal!InList, Ideal!PlacesOf, Elements
    <2>2. PICK h \in Hosts : /\ active_flow[h] \in Elements(active_flows)
                             /\ h = Src[f] \/ Dst[active_flow[h]] = Dst[f]
      BY <2>1 DEF CentralInv, IdealInv, CalmOK, ServedBy
    <2>3. active_flow[h] \notin finished
      BY <2>2 DEF CentralInv, IdealInv, CalmOK
    <2>4. active_flow[h] # None
      BY <2>2, IdealConstants DEF CentralInv, IdealInv, IdealTypes, ArbiterOK, Elements
    <2> QED
      BY <2>2, <2>3, <2>4 DEF Ideal!Served, Ideal!Sending
  <1> QED
    BY <1>1, CentralInvHolds, PTL

=============================================================================
