---------------------------- MODULE Arbitration ----------------------------
(***************************************************************************)
(* The two-level slot arbitration of HeirSchedule (coresim/node.cpp): the  *)
(* local arbiter (LA) of a pod reserves, for a pair of hosts and a future  *)
(* time slot, the host->ToR and ToR->Agg links of its own pod; the LA of   *)
(* the destination reserves Agg->ToR and ToR->host; the global arbiter     *)
(* (GA) reserves Agg->Core and Core->Agg.  A reservation that gets all six *)
(* links becomes a schedule (SCHD) sent to the source host; one that does  *)
(* not is taken back, link by link, by deny packets.                       *)
(*                                                                         *)
(* The program is a single-threaded event loop, so an event handler is one *)
(* action; what interleaves is the order of the pending events.  The six   *)
(* vector<vector<bool>> tables, indexed by Slot % T, are sets of indices   *)
(* whose bit is true.  Time is counted in slots: "now" is the value        *)
(* ceil(get_current_time() / slot_length_in_s) that allocate_uplink uses,  *)
(* that is, the current time lies in the interval ]now-1, now] of slots.   *)
(***************************************************************************)
EXTENDS Fabric, FiniteSets

CONSTANTS
  Pair,       \* the <<source, destination>> host pairs that have flows
  T,          \* params.T, the length of the slot tables
  Lag,        \* params.arbiter_lag, in slots
  SlotBytes,  \* params.mss * params.slot_length
  RtsSizes,   \* flow sizes announced by RTS packets
  MaxBytes,   \* bound: bytes a pair may announce
  MaxSlot     \* bound: the last value of now

ASSUME SlotAssumption ==
  /\ Pair \subseteq Host \X Host
  /\ T \in Nat \ {0}
  /\ Lag \in Nat \ {0}
  /\ SlotBytes \in Nat \ {0}
  /\ MaxBytes \in Nat
  /\ MaxSlot \in Nat
  /\ RtsSizes \subseteq Nat \ {0}

Entry == [slot : Nat, src_agg : Agg, dst_agg : Agg \union {None}]

ASSUME NoneAssumption == None \notin Entry

VARIABLES
  now,                \* ceil(current_time / slot_length_in_s)
  due,                \* LAs whose AllocateUplinkEvent of this slot is pending
  todo,               \* pairs the running allocate_uplink has still to visit
  host_is_src, ToR2Agg,                      \* tables of the source LA
  host_is_dst, Agg2ToR,                      \* tables of the destination LA
  CoreOccupationIn, CoreOccupationOut,       \* tables of the GA
  routing_table,      \* [Pair -> entry or None], the LA's pending schedules
  size_table,         \* src_dst_data_size_table: bytes waiting; 0 = no entry
  pending,            \* packets between arbiters and RestoreLink events
  grants,             \* SCHD packets on their way to hosts
  tx,                 \* schedules a host accepted, for slots not yet over
  announced,          \* history: bytes announced per pair
  granted,            \* history: schedules issued per pair
  failed              \* the assertion that stopped the program, or "no"

tables == <<host_is_src, ToR2Agg, host_is_dst, Agg2ToR,
            CoreOccupationIn, CoreOccupationOut>>
demand == <<size_table, announced, granted>>
vars == <<now, due, todo, tables, routing_table, demand, pending, grants, tx,
          failed>>

(***************************************************************************)
(* Data.                                                                   *)
(***************************************************************************)
EventType == {"IPR", "IPS", "IPD", "CORE_RTS", "CORE_SCHD",
              "DENY_SRC", "DENY_DST", "RESTORE_LINK"}

\* What the packets ipr, ips, ipd, core_rts, core_schd and core_deny carry (the
\* fields a packet lacks are None) and what a RestoreLinkEvent keeps.
Event == [type : EventType, src : Host, dst : Host, slot : Nat,
          src_agg : Agg, dst_agg : Agg \union {None}]

PairOf(m) == <<m.src, m.dst>>
SamePod(p) == PodOf[p[1]] = PodOf[p[2]]

\* The row of a slot in the circular tables.
Idx(s) == s % T

\* The six bits of a reservation m, one in each table.
SrcBit(m)  == <<Idx(m.slot), m.src>>
UpBit(m)   == <<Idx(m.slot), TorOf[m.src], m.src_agg>>
DstBit(m)  == <<Idx(m.slot), m.dst>>
DownBit(m) == <<Idx(m.slot), m.dst_agg, TorOf[m.dst]>>
InBit(m)   == <<Idx(m.slot), CoreOf[<<m.src_agg, m.dst_agg>>], m.src_agg>>
OutBit(m)  == <<Idx(m.slot), CoreOf[<<m.src_agg, m.dst_agg>>], m.dst_agg>>

\* assert(cond): a false condition aborts the program, at "where".
Check(cond, where) == failed' = IF cond THEN failed ELSE where

Init ==
  /\ now = 0
  /\ due = LA
  /\ todo = {}
  /\ host_is_src = {} /\ ToR2Agg = {}
  /\ host_is_dst = {} /\ Agg2ToR = {}
  /\ CoreOccupationIn = {} /\ CoreOccupationOut = {}
  /\ routing_table = [p \in Pair |-> None]
  /\ size_table = [p \in Pair |-> 0]
  /\ announced = [p \in Pair |-> 0]
  /\ granted = [p \in Pair |-> 0]
  /\ pending = {} /\ grants = {} /\ tx = {}
  /\ failed = "no"

(***************************************************************************)
(* Which event runs next.  allocate_uplink is one handler, modelled as a   *)
(* loop of one step per pair: no other handler runs while todo # {}.  The  *)
(* AllocateUplinkEvents of all the LAs carry the same time, and no packet  *)
(* is delivered between them.  A RestoreLinkEvent has the time             *)
(* Slot * slot_length_in_s and the highest type, so it runs after all that *)
(* happens up to that instant and before anything later (EventComparator); *)
(* one that is scheduled late is the next event.                           *)
(*                                                                         *)
(* Definitions marked "fault" are wrong on purpose and used by no action:  *)
(* put in the place of the definition after them, each makes a property    *)
(* below fail.                                                             *)
(***************************************************************************)
Running == failed = "no"
Quiet == todo = {} /\ due \in {{}, LA}
NoOverdue == \A m \in pending : m.type = "RESTORE_LINK" => m.slot >= now
Turn == Running /\ Quiet /\ NoOverdue

(***************************************************************************)
(* LocalArbiter::receive_rts: an RTS of a host adds to the pair's demand.  *)
(***************************************************************************)
ReceiveRts(p, size) ==
  /\ Turn
  /\ announced[p] + size <= MaxBytes
  /\ size_table' = [size_table EXCEPT ![p] = @ + size]
  /\ announced' = [announced EXCEPT ![p] = @ + size]
  /\ UNCHANGED <<now, due, todo, tables, routing_table, granted, pending,
                 grants, tx, failed>>

(***************************************************************************)
(* LocalArbiter::allocate_uplink.                                          *)
(***************************************************************************)
AllocateUplinkEvent(l) ==
  /\ Running /\ NoOverdue
  /\ todo = {} /\ l \in due
  /\ due' = due \ {l}
  /\ todo' = {p \in Pair : PodOf[p[1]] = l /\ size_table[p] > 0}
  /\ UNCHANGED <<now, tables, routing_table, demand, pending, grants, tx,
                 failed>>

Window == (now + Lag) .. (now + Lag + T - 1)

FreeAggs(s, h) ==
  {a \in AggsOf[PodOf[h]] : <<Idx(s), TorOf[h], a>> \notin ToR2Agg}

UplinkFree(s, h) == <<Idx(s), h>> \notin host_is_src /\ FreeAggs(s, h) # {}

\* The slot the search of at most T tries stops at.
FirstFree(s, h) ==
  /\ s \in Window
  /\ UplinkFree(s, h)
  /\ \A u \in Window : u < s => ~UplinkFree(u, h)

\* A pair with an entry is passed over until the entry is gone.
Unbooked(p) == routing_table[p] = None

Visit(p) ==
  /\ Running /\ p \in todo
  /\ todo' = todo \ {p}
  /\ UNCHANGED <<now, due, demand, grants, tx, failed>>

SkipRouted(p) ==
  /\ Visit(p)
  /\ ~Unbooked(p)
  /\ UNCHANGED <<tables, routing_table, pending>>

UplinkFull(p) ==
  /\ Visit(p)
  /\ Unbooked(p)
  /\ \A s \in Window : ~UplinkFree(s, p[1])
  /\ UNCHANGED <<tables, routing_table, pending>>

\* The event of a reservation of pair p, slot s, through aggregation switches
\* a and b.
NewEvent(type, p, s, a, b) ==
  [type |-> type, src |-> p[1], dst |-> p[2], slot |-> s,
   src_agg |-> a, dst_agg |-> b]

\* Both uplink bits are set, the entry is filled, and the destination's LA is
\* asked (IPR).
RequestDownlink(p) ==
  /\ Visit(p)
  /\ Unbooked(p) /\ ~SamePod(p)
  /\ \E s \in Window : \E a \in FreeAggs(s, p[1]) :
       LET m == NewEvent("IPR", p, s, a, None) IN
       /\ FirstFree(s, p[1])
       /\ host_is_src' = host_is_src \union {SrcBit(m)}
       /\ ToR2Agg' = ToR2Agg \union {UpBit(m)}
       /\ routing_table' = [routing_table EXCEPT ![p] =
                              [slot |-> s, src_agg |-> a, dst_agg |-> None]]
       /\ pending' = pending \union {m}
  /\ UNCHANGED <<host_is_dst, Agg2ToR, CoreOccupationIn, CoreOccupationOut>>

\* Within a pod allocate_downlink and update_routing_table run inline; the
\* downlink must come from the aggregation switch of the uplink.
AllocateSamePod(p) ==
  /\ Visit(p)
  /\ Unbooked(p) /\ SamePod(p)
  /\ \E s \in Window : \E a \in FreeAggs(s, p[1]) :
       LET m == NewEvent("CORE_RTS", p, s, a, a) IN
       /\ FirstFree(s, p[1])
       /\ DstBit(m) \notin host_is_dst /\ DownBit(m) \notin Agg2ToR
       /\ host_is_src' = host_is_src \union {SrcBit(m)}
       /\ ToR2Agg' = ToR2Agg \union {UpBit(m)}
       /\ host_is_dst' = host_is_dst \union {DstBit(m)}
       /\ Agg2ToR' = Agg2ToR \union {DownBit(m)}
       /\ routing_table' = [routing_table EXCEPT ![p] =
                              [slot |-> s, src_agg |-> a, dst_agg |-> a]]
       /\ pending' = pending \union {m}
  /\ UNCHANGED <<CoreOccupationIn, CoreOccupationOut>>

\* The downlink is refused inline: take_back_link undoes the uplink at once.
RefuseSamePod(p) ==
  /\ Visit(p)
  /\ Unbooked(p) /\ SamePod(p)
  /\ \E s \in Window : \E a \in FreeAggs(s, p[1]) :
       LET m == NewEvent("IPD", p, s, a, a) IN
       /\ FirstFree(s, p[1])
       /\ DstBit(m) \in host_is_dst \/ DownBit(m) \in Agg2ToR
  /\ UNCHANGED <<tables, routing_table, pending>>

AllocateUplink(p) ==
  \/ SkipRouted(p)
  \/ UplinkFull(p)
  \/ RequestDownlink(p)
  \/ AllocateSamePod(p)
  \/ RefuseSamePod(p)

(***************************************************************************)
(* Delivery of a packet between arbiters.  Handle(m) takes the event off   *)
(* the queue.  The links are FIFO and all that an LA sends upward shares   *)
(* one path (toGCSQueues[0], then the toGAQueue of the only GCS), but the  *)
(* handlers can tell one order only: the IPS of a reservation reaches the  *)
(* source LA before its CORE_RTS reaches the GA.                           *)
(***************************************************************************)
Take(m, type) ==
  /\ Turn
  /\ m \in pending /\ m.type = type

Become(m, new) == pending' = (pending \ {m}) \union new

FreeDownAggs(m) ==
  {b \in AggsOf[PodOf[m.dst]] : <<Idx(m.slot), b, TorOf[m.dst]>> \notin Agg2ToR}

DownlinkFree(m) == DstBit(m) \notin host_is_dst /\ FreeDownAggs(m) # {}

\* LocalArbiter::receive_ipr, allocate_downlink: set both downlink bits, tell
\* the source LA (IPS) and ask the GA for the core links (CORE_RTS).
GrantDownlink(m) ==
  /\ Take(m, "IPR")
  /\ DownlinkFree(m)
  /\ \E b \in FreeDownAggs(m) :
       LET r == [m EXCEPT !.type = "CORE_RTS", !.dst_agg = b] IN
       /\ host_is_dst' = host_is_dst \union {DstBit(r)}
       /\ Agg2ToR' = Agg2ToR \union {DownBit(r)}
       /\ Become(m, {r, [r EXCEPT !.type = "IPS"]})
  /\ UNCHANGED <<now, due, todo, host_is_src, ToR2Agg, CoreOccupationIn,
                 CoreOccupationOut, routing_table, demand, grants, tx, failed>>

DenyDownlink(m) ==
  /\ Take(m, "IPR")
  /\ ~DownlinkFree(m)
  /\ Become(m, {[m EXCEPT !.type = "IPD"]})
  /\ UNCHANGED <<now, due, todo, tables, routing_table, demand, grants, tx,
                 failed>>

ReleaseUplinkKeepAgg(m) ==                         \* fault: ToR2Agg not reset
  /\ Check(SrcBit(m) \in host_is_src /\ UpBit(m) \in ToR2Agg, "take_back_link")
  /\ host_is_src' = host_is_src \ {SrcBit(m)}
  /\ UNCHANGED ToR2Agg
  /\ routing_table' = [routing_table EXCEPT ![PairOf(m)] = None]

\* take_back_link, source side: both bits must still be set (assert).
ReleaseUplink(m) ==
  /\ Check(SrcBit(m) \in host_is_src /\ UpBit(m) \in ToR2Agg, "take_back_link")
  /\ host_is_src' = host_is_src \ {SrcBit(m)}
  /\ ToR2Agg' = ToR2Agg \ {UpBit(m)}
  /\ routing_table' = [routing_table EXCEPT ![PairOf(m)] = None]

\* LocalArbiter::receive_ipd
ReceiveIpd(m) ==
  /\ Take(m, "IPD")
  /\ ReleaseUplink(m)
  /\ Become(m, {})
  /\ UNCHANGED <<now, due, todo, host_is_dst, Agg2ToR, CoreOccupationIn,
                 CoreOccupationOut, demand, grants, tx>>

EntryWithIpsLost(e, m) == e                        \* fault: switch not stored
EntryWithIps(e, m) == [e EXCEPT !.dst_agg = m.dst_agg]

\* LocalArbiter::receive_ips, update_routing_table
ReceiveIps(m) ==
  /\ Take(m, "IPS")
  /\ LET e == routing_table[PairOf(m)] IN
     IF e # None /\ e.slot = m.slot
     THEN /\ routing_table' =
               [routing_table EXCEPT ![PairOf(m)] = EntryWithIps(e, m)]
          /\ UNCHANGED failed
     ELSE /\ failed' = "update_routing_table"
          /\ UNCHANGED routing_table
  /\ Become(m, {})
  /\ UNCHANGED <<now, due, todo, tables, demand, grants, tx>>

IpsDeliveredOrNot(m) == TRUE                       \* fault: links reorder
\* The shared upward path delivers the IPS before the CORE_RTS.
IpsDelivered(m) == [m EXCEPT !.type = "IPS"] \notin pending

CoreFreeIn(m) == InBit(m) \notin CoreOccupationIn     \* fault: Out unread
CoreFree(m) ==
  InBit(m) \notin CoreOccupationIn /\ OutBit(m) \notin CoreOccupationOut

\* GlobalArbiter::receive_core_rts, allocate_core_link
GrantCore(m) ==
  /\ Take(m, "CORE_RTS") /\ IpsDelivered(m)
  /\ CoreFree(m)
  /\ CoreOccupationIn' = CoreOccupationIn \union {InBit(m)}
  /\ CoreOccupationOut' = CoreOccupationOut \union {OutBit(m)}
  /\ Become(m, {[m EXCEPT !.type = "CORE_SCHD"]})
  /\ UNCHANGED <<now, due, todo, host_is_src, ToR2Agg, host_is_dst, Agg2ToR,
                 routing_table, demand, grants, tx, failed>>

DenyCoreDst(m) ==                                  \* fault: source not told
  /\ Take(m, "CORE_RTS") /\ IpsDelivered(m)
  /\ ~CoreFree(m)
  /\ Become(m, {[m EXCEPT !.type = "DENY_DST"]})
  /\ UNCHANGED <<now, due, todo, tables, routing_table, demand, grants, tx,
                 failed>>

DenyCore(m) ==
  /\ Take(m, "CORE_RTS") /\ IpsDelivered(m)
  /\ ~CoreFree(m)
  /\ Become(m, {[m EXCEPT !.type = "DENY_SRC"], [m EXCEPT !.type = "DENY_DST"]})
  /\ UNCHANGED <<now, due, todo, tables, routing_table, demand, grants, tx,
                 failed>>

\* LocalArbiter::receive_core_deny, is_src_la
ReceiveDenySrc(m) ==
  /\ Take(m, "DENY_SRC")
  /\ ReleaseUplink(m)
  /\ Become(m, {})
  /\ UNCHANGED <<now, due, todo, host_is_dst, Agg2ToR, CoreOccupationIn,
                 CoreOccupationOut, demand, grants, tx>>

\* LocalArbiter::receive_core_deny, ~is_src_la
ReceiveDenyDst(m) ==
  /\ Take(m, "DENY_DST")
  /\ Check(DownBit(m) \in Agg2ToR /\ DstBit(m) \in host_is_dst, "take_back_link")
  /\ Agg2ToR' = Agg2ToR \ {DownBit(m)}
  /\ host_is_dst' = host_is_dst \ {DstBit(m)}
  /\ Become(m, {})
  /\ UNCHANGED <<now, due, todo, host_is_src, ToR2Agg, CoreOccupationIn,
                 CoreOccupationOut, routing_table, demand, grants, tx>>

ServedUnsigned(bytes) == bytes - SlotBytes         \* fault: size not compared
ServedWhole(bytes) == 0                            \* fault: entry always erased
\* What is left of a pair's demand after one more slot.
Served(bytes) == IF bytes <= SlotBytes THEN 0 ELSE bytes - SlotBytes

\* LocalArbiter::receive_core_schd, generate_full_path: the entry (dereferenced
\* unchecked) is completed with the core and copied into the SCHD packet, the
\* entry is erased, the bits are left to a RestoreLinkEvent.
ReceiveCoreSchd(m) ==
  /\ Take(m, "CORE_SCHD")
  /\ LET p == PairOf(m)
         e == routing_table[p]
     IN IF e = None
        THEN /\ failed' = "generate_full_path"
             /\ UNCHANGED <<routing_table, demand, pending, grants>>
        ELSE /\ grants' = grants \union
                  {[src |-> m.src, dst |-> m.dst, slot |-> e.slot,
                    src_agg |-> e.src_agg, dst_agg |-> e.dst_agg,
                    core |-> CoreOf[<<m.src_agg, m.dst_agg>>]]}
             /\ routing_table' = [routing_table EXCEPT ![p] = None]
             /\ Become(m, {[m EXCEPT !.type = "RESTORE_LINK"]})
             /\ size_table' = [size_table EXCEPT ![p] = Served(@)]
             /\ granted' = [granted EXCEPT ![p] = @ + 1]
             /\ UNCHANGED <<announced, failed>>
  /\ UNCHANGED <<now, due, todo, tables, tx>>

\* RestoreLinkEvent::process_event, at the start of the slot.
RestoreDueAtOnce(m) == TRUE                        \* fault: not kept to the slot
RestoreDue(m) == m.slot < now

RestoreLink(m) ==
  /\ Running /\ Quiet
  /\ m \in pending /\ m.type = "RESTORE_LINK"
  /\ RestoreDue(m)
  /\ host_is_src' = host_is_src \ {SrcBit(m)}
  /\ host_is_dst' = host_is_dst \ {DstBit(m)}
  /\ ToR2Agg' = ToR2Agg \ {UpBit(m)}
  /\ Agg2ToR' = Agg2ToR \ {DownBit(m)}
  /\ CoreOccupationIn' = CoreOccupationIn \ {InBit(m)}
  /\ CoreOccupationOut' = CoreOccupationOut \ {OutBit(m)}
  /\ Become(m, {})
  /\ UNCHANGED <<now, due, todo, routing_table, demand, grants, tx, failed>>

\* HeirScheduleHost::receive_schd_and_send_data: a host refuses (assert) a slot
\* whose start has passed, and sends at the start of the slot otherwise.
InTimeAlways(g) == TRUE                            \* fault: late SCHD accepted
InTime(g) == g.slot >= now

ReceiveSchd(g) ==
  /\ Turn
  /\ g \in grants
  /\ Check(InTime(g), "receive_schd_and_send_data")
  /\ grants' = grants \ {g}
  /\ tx' = IF InTime(g) THEN tx \union {g} ELSE tx
  /\ UNCHANGED <<now, due, todo, tables, routing_table, demand, pending>>

\* The current time passes the start of slot "now".
Tick ==
  /\ Turn /\ due = {}
  /\ now < MaxSlot
  /\ now' = now + 1
  /\ due' = LA
  /\ tx' = {g \in tx : g.slot >= now + 1}
  /\ UNCHANGED <<todo, tables, routing_table, demand, pending, grants, failed>>

HandlePacket(m) ==
  \/ GrantDownlink(m) \/ DenyDownlink(m)
  \/ ReceiveIps(m)    \/ ReceiveIpd(m)
  \/ GrantCore(m)     \/ DenyCore(m)
  \/ ReceiveCoreSchd(m)
  \/ ReceiveDenySrc(m) \/ ReceiveDenyDst(m)

Next ==
  \/ \E p \in Pair, size \in RtsSizes : ReceiveRts(p, size)
  \/ \E l \in LA : AllocateUplinkEvent(l)
  \/ \E p \in Pair : AllocateUplink(p)
  \/ \E m \in pending : HandlePacket(m)
  \/ \E m \in pending : RestoreLink(m)
  \/ \E g \in grants : ReceiveSchd(g)
  \/ Tick

Spec == Init /\ [][Next]_vars

(***************************************************************************)
(* Properties.                                                             *)
(***************************************************************************)

\* Every variable has its type (one invariant for the module).
TypeOK ==
  /\ now \in Nat
  /\ due \subseteq LA
  /\ todo \subseteq Pair
  /\ host_is_src \subseteq Int \X Host
  /\ host_is_dst \subseteq Int \X Host
  /\ ToR2Agg \subseteq Int \X Tor \X Agg
  /\ Agg2ToR \subseteq Int \X Agg \X Tor
  /\ CoreOccupationIn \subseteq Int \X Core \X Agg
  /\ CoreOccupationOut \subseteq Int \X Core \X Agg
  /\ routing_table \in [Pair -> Entry \union {None}]
  /\ size_table \in [Pair -> Nat]
  /\ announced \in [Pair -> Nat]
  /\ granted \in [Pair -> Nat]
  /\ pending \subseteq Event
  /\ \A m \in pending :
       /\ PairOf(m) \in Pair
       /\ m.dst_agg = None <=> m.type \in {"IPR", "IPD"}
  /\ grants \subseteq Schedule
  /\ tx \subseteq Schedule
  /\ failed \in {"no", "take_back_link", "update_routing_table",
                 "generate_full_path", "receive_schd_and_send_data"}

\* The events that stand for the uplink, the downlink and the core links of a
\* reservation: as long as one is pending, its bits are its own.
SrcTypes  == {"IPR", "IPD", "CORE_RTS", "CORE_SCHD", "DENY_SRC", "RESTORE_LINK"}
DstTypes  == {"CORE_RTS", "CORE_SCHD", "DENY_DST", "RESTORE_LINK"}
CoreTypes == {"CORE_SCHD", "RESTORE_LINK"}

SrcClaims  == {m \in pending : m.type \in SrcTypes}
DstClaims  == {m \in pending : m.type \in DstTypes}
CoreClaims == {m \in pending : m.type \in CoreTypes}

\* No link of a slot row is leaked and none is freed early: a bit is set exactly
\* while a pending event will clear it or hand it on (node.cpp take_back_link,
\* generate_full_path, RestoreLinkEvent), over every order of grants, denials
\* and restores.
BitsOwned ==
  /\ host_is_src = {SrcBit(m) : m \in SrcClaims}
  /\ ToR2Agg = {UpBit(m) : m \in SrcClaims}
  /\ host_is_dst = {DstBit(m) : m \in DstClaims}
  /\ Agg2ToR = {DownBit(m) : m \in DstClaims}
  /\ CoreOccupationIn = {InBit(m) : m \in CoreClaims}
  /\ CoreOccupationOut = {OutBit(m) : m \in CoreClaims}

\* No link is booked twice: two reservations in flight never hold the same bit,
\* even when their slots differ by T and share a row of the circular tables, so
\* no release of one ever frees a link of the other.
NoDoubleBooking ==
  /\ \A m, n \in SrcClaims :
       SrcBit(m) = SrcBit(n) \/ UpBit(m) = UpBit(n) => m = n
  /\ \A m, n \in DstClaims :
       DstBit(m) = DstBit(n) \/ DownBit(m) = DownBit(n) => m = n
  /\ \A m, n \in CoreClaims :
       InBit(m) = InBit(n) \/ OutBit(m) = OutBit(n) => m = n

\* What the arbitration is for: the data plane has no buffers (Queue::enque
\* asserts that the queue is empty), and no two hosts ever accept schedules that
\* meet on a link in the same slot, whatever the delays of the control packets.
CollisionFree == \A g, h \in tx : Collide(g, h) => g = h

\* None of the arbiters' assertions, and no null dereference of a routing-table
\* entry, stops the program: a denial always finds its bits set, an IPS its
\* entry, a core schedule its entry.
ArbitersNeverFail == failed \in {"no", "receive_schd_and_send_data"}

\* The events that carry on the reservation of a routing-table entry.
TokenTypes == {"IPR", "IPD", "CORE_RTS", "CORE_SCHD", "DENY_SRC"}
Tokens(p) == {m \in pending : PairOf(m) = p /\ m.type \in TokenTypes}

\* An entry of the routing table, which keeps allocate_uplink away from its pair,
\* always has one packet in flight that will remove it, for the same slot and
\* switch: none is orphaned (the pair would starve), none is shared.
OneTokenPerEntry ==
  \A p \in Pair :
    IF routing_table[p] = None
    THEN Tokens(p) = {}
    ELSE \E m \in Tokens(p) :
           /\ Tokens(p) = {m}
           /\ m.slot = routing_table[p].slot
           /\ m.src_agg = routing_table[p].src_agg

\* The destination switch travels twice, in the IPS to the entry and in the
\* CORE_RTS to the global arbiter, and the two copies agree by the time the core
\* is granted: an IPS still under way has its CORE_RTS, and once it is delivered
\* the entry names the switch the CORE_RTS, and then the CORE_SCHD, names.
SwitchCarried ==
  \A m \in pending :
    /\ m.type = "IPS" => [m EXCEPT !.type = "CORE_RTS"] \in pending
    /\ m.type = "CORE_SCHD" \/ (m.type = "CORE_RTS" /\ IpsDelivered(m)) =>
         /\ routing_table[PairOf(m)] # None
         /\ routing_table[PairOf(m)].dst_agg = m.dst_agg

\* A schedule that is on its way, or accepted, for a slot still to come names a
\* complete path, made of links that are still reserved for it: the entry the
\* source LA copies had been completed by the IPS, and nothing released a link
\* while the SCHD travelled.
SchedulesBacked ==
  \A g \in grants \union tx :
    g.slot >= now =>
      \E m \in pending :
        /\ m.type = "RESTORE_LINK"
        /\ m.src = g.src /\ m.dst = g.dst /\ m.slot = g.slot
        /\ m.src_agg = g.src_agg /\ m.dst_agg = g.dst_agg
        /\ g.core = CoreOf[<<m.src_agg, m.dst_agg>>]

\* The demand tables neither lose bytes nor invent work, although RTS packets add
\* to an entry while a reservation made from it is in flight: the slots issued
\* and the bytes still in the table cover what was announced, every slot was
\* issued for bytes still waiting, and the pair of an entry still has demand.
DemandCovered ==
  \A p \in Pair :
    /\ announced[p] <= size_table[p] + granted[p] * SlotBytes
    /\ granted[p] + size_table[p] <= announced[p]
    /\ routing_table[p] # None => size_table[p] > 0

(***************************************************************************)
(* Fairness.  The event loop runs until the queue is empty, and every      *)
(* event has a finite time, so each is processed in the end: a running     *)
(* loop goes on, an overdue restore fires, and no packet is put off for    *)
(* ever by the others.                                                     *)
(***************************************************************************)
Fairness ==
  /\ WF_vars(\E p \in Pair : AllocateUplink(p))
  /\ WF_vars(\E l \in LA : AllocateUplinkEvent(l))
  /\ WF_vars(\E m \in pending : RestoreLink(m))
  /\ \A p \in Pair : SF_vars(\E m \in pending : PairOf(m) = p /\ HandlePacket(m))

FairSpec == Spec /\ Fairness

\* Every reservation is settled: a pair never stays booked for ever, which would
\* keep its later demand from being served (unless the program has stopped).
EntrySettled ==
  \A p \in Pair : routing_table[p] # None ~> routing_table[p] = None \/ ~Running

\* The arbitration implements the abstract booking: what hosts accept, in time
\* and with slots going by, is a behaviour of SlotBooking.
Booking == INSTANCE SlotBooking WITH booked <- tx

ImplementsSlotBooking == Booking!Spec

=============================================================================
