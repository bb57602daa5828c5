---------------------------- MODULE SlotBooking ----------------------------
(***************************************************************************)
(* What the arbitration promises the data plane, without saying how: hosts *)
(* are told of schedules before their slot starts, and the schedules of a  *)
(* slot never meet on a link.  The links have no buffers                   *)
(* (Queue::enque asserts an empty queue), so this is all the safety the    *)
(* data plane asks for.                                                    *)
(***************************************************************************)
EXTENDS Fabric

VARIABLES
  now,      \* the slot the current time has reached
  booked    \* the schedules accepted for slots not yet over

Init == now = 0 /\ booked = {}

Fits(g) == \A h \in booked : ~Collide(g, h)

\* A host accepts a schedule.
Book(g) ==
  /\ g \in Schedule
  /\ g.slot >= now
  /\ Fits(g)
  /\ booked' = booked \union {g}
  /\ UNCHANGED now

\* A slot goes by, and what was booked for it is over.
Pass ==
  /\ now' = now + 1
  /\ booked' = {g \in booked : g.slot >= now + 1}

Next == Pass \/ \E g \in booked' \ booked : Book(g)

Spec == Init /\ [][Next]_<<now, booked>>

=============================================================================
