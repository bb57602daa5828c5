-------------------------------- MODULE Flow --------------------------------
(***************************************************************************)
(* The handlers of class Flow (coresim/flow.cpp), a sliding window with    *)
(* cumulative acknowledgements, the number of packets held out of order    *)
(* (SACK) and one retransmission timer, and of the classes that override   *)
(* some of them: PFabricFlow, TCPFlow and DctcpFlow (ext/).                *)
(*                                                                         *)
(* A flow is a record of the members of its object.  Sender and receiver   *)
(* are one object: send_pending_data reads received and received_bytes,    *)
(* which the receiver writes.  recv_till and max_seq_no_recv are functions *)
(* of received and are no members here.  A handler is an operator: what    *)
(* the flow is after it, and the packets it sends.                         *)
(***************************************************************************)
EXTENDS Integers, FiniteSetsExt

CONSTANTS
  Mss,
  InitialCwnd,    \* params.initial_cwnd
  MaxCwnd         \* params.max_cwnd

ASSUME WindowAssumption ==
  Mss \in Nat \ {0} /\ MaxCwnd \in Nat /\ InitialCwnd \in 1 .. MaxCwnd

FlowClass == {"Flow", "PFabricFlow", "TCPFlow", "DctcpFlow"}

\* The constructors, as Factory::get_flow chooses them.
New(class, size) ==
  [class |-> class, size |-> size, started |-> FALSE, finished |-> FALSE,
   next_seq_no |-> 0, last_unacked_seq |-> 0,
   cwnd_mss |-> IF class = "TCPFlow" THEN 1 ELSE InitialCwnd,
   ssthresh |-> 100000, count_ack_additive_increase |-> 0,
   scoreboard_sack_bytes |-> 0,
   retx |-> [event |-> FALSE, live |-> 0],  \* retx_event # NULL; pending events
   received |-> {}, received_bytes |-> 0]   \*   that are not cancelled

Seqs(f) == {s \in 0 .. f.size - 1 : s % Mss = 0}

DataPkt(s) == [type |-> "DATA", seq |-> s]
AckPkt(upto, held) == [type |-> "ACK", ack |-> upto, sack |-> held]
RtsPkt == [type |-> "RTS"]                  \* of a TCPFlow, its SYN
CtsPkt == [type |-> "CTS"]                  \*   and SYNACK

After(f, packets) == [flow |-> f, sent |-> packets]

MinOf(a, b) == IF a <= b THEN a ELSE b
MaxOf(a, b) == IF a >= b THEN a ELSE b

(***************************************************************************)
(* The timer.                                                              *)
(***************************************************************************)
\* set_timeout
WithTimer(f, t) ==
  IF f.last_unacked_seq < f.size THEN [event |-> TRUE, live |-> t.live + 1] ELSE t

\* Definitions marked "fault" are wrong on purpose and used nowhere.
CancelRetxForget(t) == [t EXCEPT !.event = FALSE]  \* fault: event not cancelled
\* cancel_retx_event
CancelRetx(t) == IF t.event THEN [event |-> FALSE, live |-> t.live - 1] ELSE t

(***************************************************************************)
(* send_pending_data: the window is gone through from next_seq_no, what    *)
(* has been received is passed over, and the timer set if there is none.   *)
(***************************************************************************)
Window(f) == f.cwnd_mss * Mss + f.scoreboard_sack_bytes

InWindow(f) ==
  IF f.received_bytes < f.size
  THEN {s \in Seqs(f) : s >= f.next_seq_no /\ s + Mss <= f.last_unacked_seq + Window(f)}
  ELSE {}

PassedTo(f, W) == IF W = {} THEN f.next_seq_no ELSE MinOf(f.size, Max(W) + Mss)

SetIfNone(f, W) == IF W = {} \/ f.retx.event THEN f.retx ELSE WithTimer(f, f.retx)

SendPendingData(f) ==
  LET W == InWindow(f)
  IN After([f EXCEPT !.next_seq_no = PassedTo(f, W), !.retx = SetIfNone(f, W)],
           {DataPkt(s) : s \in W \ f.received})

\* start_flow
Start(f) ==
  LET g == [f EXCEPT !.started = TRUE]
  IN IF f.class = "TCPFlow" THEN After(g, {RtsPkt}) ELSE SendPendingData(g)

\* get_priority, a uint32: what is thought to remain, if the queues rank by it.
get_priority(f, word) == (f.size - f.last_unacked_seq - f.scoreboard_sack_bytes) % word

(***************************************************************************)
(* The receiver.                                                           *)
(***************************************************************************)
PayloadOf(f, s) == MinOf(Mss, f.size - s)

BytesIn(f) == {b \in 0 .. f.size - 1 : \E s \in f.received : s <= b /\ b < s + Mss}

RecvTillLast(f) ==                                 \* fault: gaps not seen
  MinOf(f.size, Max({0} \union {s + Mss : s \in f.received}))
RecvTillUncapped(f) ==                             \* fault: of class DctcpFlow for all
  Min({s \in 0 .. f.size + Mss : s % Mss = 0 /\ s \notin f.received})
\* recv_till: the first packet missing, capped at size, save by DctcpFlow, where it
\* passes the size when the last packet is short.
RecvTill(f) ==
  LET past == IF f.class = "DctcpFlow" THEN ((f.size + Mss - 1) \div Mss) * Mss ELSE f.size
  IN Min({past} \union (Seqs(f) \ f.received))

\* receive_data_pkt, send_ack
ReceiveData(f, s) ==
  IF f.finished THEN After(f, {})
  ELSE LET g == [f EXCEPT !.received = @ \union {s},
                          !.received_bytes = @ + IF s \in f.received THEN 0
                                                 ELSE PayloadOf(f, s)]
           upto == RecvTill(g)
           held == {r \in g.received : r > upto}
       IN After(g, {AckPkt(upto, Cardinality(held))})

(***************************************************************************)
(* The sender.                                                             *)
(***************************************************************************)
Uncapped(f) == f                                   \* fault: max_cwnd forgotten
Capped(f) == [f EXCEPT !.cwnd_mss = MinOf(@, MaxCwnd)]

AdditiveIncrease(f) ==
  IF f.count_ack_additive_increase + 1 >= f.cwnd_mss
  THEN [f EXCEPT !.count_ack_additive_increase = 0, !.cwnd_mss = @ + 1]
  ELSE [f EXCEPT !.count_ack_additive_increase = @ + 1]

\* increase_cwnd: the flows f may become.  That of DctcpFlow only shrinks its window, by
\* a share alpha / 2 of it.  alpha follows bits that its plain packets do not have, so
\* it is any number of 0 .. 1.
Increased(f) ==
  CASE f.class \in {"Flow", "TCPFlow"} -> {Capped([f EXCEPT !.cwnd_mss = @ + 1])}
    [] f.class = "PFabricFlow" /\ f.cwnd_mss < f.ssthresh ->
         {Capped([f EXCEPT !.cwnd_mss = @ + 1])}
    [] f.class = "PFabricFlow" /\ f.cwnd_mss >= f.ssthresh -> {Capped(AdditiveIncrease(f))}
    [] f.class = "DctcpFlow" ->
         {[f EXCEPT !.cwnd_mss = c] : c \in {w \in 1 .. f.cwnd_mss : 2 * w >= f.cwnd_mss}}

TimerMoved(f) ==
  IF ~f.retx.event THEN f.retx ELSE WithTimer(f, CancelRetx(f.retx))

Acked(f, m) ==
  [f EXCEPT !.scoreboard_sack_bytes = m.sack * Mss,
            !.next_seq_no = MaxOf(@, m.ack),
            !.last_unacked_seq = MaxOf(@, m.ack)]

NewAck(f) ==
  LET r == SendPendingData(f)
      g == [r.flow EXCEPT !.retx = TimerMoved(r.flow)]
      done == f.last_unacked_seq = f.size
  IN After([g EXCEPT !.finished = done, !.received = IF done THEN {} ELSE @], r.sent)

\* receive_ack: what may come of it.
ReceiveAck(f, m) ==
  IF f.finished THEN {After(f, {})}
  ELSE IF m.ack <= f.last_unacked_seq THEN {After(Acked(f, m), {})}
  ELSE {NewAck(g) : g \in Increased(Acked(f, m))}

GoBackNot(f) == f                                  \* fault: next_seq_no kept
GoBack(f) == [f EXCEPT !.next_seq_no = f.last_unacked_seq]

HalfWindow(f) ==
  IF f.class = "PFabricFlow" THEN [f EXCEPT !.ssthresh = MaxOf(2, f.cwnd_mss \div 2)] ELSE f

\* RetxTimeoutEvent::process_event, handle_timeout; the event that fired is freed
\* afterwards, and retx_event still points to it until then.
HandleTimeout(f) ==
  LET fired == [GoBack(HalfWindow(f)) EXCEPT !.cwnd_mss = 1, !.retx.live = @ - 1]
      r == SendPendingData(fired)
      t == [r.flow.retx EXCEPT !.event = FALSE]
  IN After([r.flow EXCEPT !.retx = WithTimer(r.flow, t)], r.sent)

\* receive, by the type of the packet: what may come of it.  Before the flow of class
\* TCPFlow is answered it sends nothing, and it sets no timer for its RTS.
Receive(f, m) ==
  CASE m.type = "DATA" -> {ReceiveData(f, m.seq)}
    [] m.type = "ACK"  -> ReceiveAck(f, m)
    [] m.type = "RTS"  -> {After(f, {CtsPkt})}
    [] m.type = "CTS"  -> {SendPendingData(f)}

=============================================================================
