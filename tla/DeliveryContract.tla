-------------------------- MODULE DeliveryContract --------------------------
(***************************************************************************)
(* What the Plugin promises for each delivery, without transactions,       *)
(* clocks, locks or calls: a delivery runs through cycles of numbered      *)
(* attempts, every attempt that is left behind is receipted, and delivered *)
(* is final. Deliveries are independent, but one transaction may move      *)
(* several of them at once, as a maintenance batch does.                   *)
(***************************************************************************)
EXTENDS Naturals

CONSTANTS Delivery,    \* the deliveries
          Limit,       \* the attempt limits a delivery may be given
          MaxCycle     \* how often a dead letter may be replayed

VARIABLE promise       \* where each delivery is

State == {"absent", "waiting", "leased", "delivered", "dead"}

Absent == [state |-> "absent", cycle |-> 0, attempt |-> 0, limit |-> 0, receipted |-> {}]

Init == promise = [d \in Delivery |-> Absent]

Generation(s) == <<s.cycle, s.attempt>>

\* s with its current attempt receipted, unless it already was.
Receipted(s) == [s EXCEPT !.receipted = @ \cup {Generation(s)}]

\* The event is accepted, with the limit then configured.
Accept(s, t) ==
  /\ s = Absent
  /\ \E limit \in Limit : t = [Absent EXCEPT !.state = "waiting", !.limit = limit]

\* A waiting delivery's next attempt is leased to one caller.
Lease(s, t) ==
  /\ s.state = "waiting" /\ s.attempt < s.limit
  /\ t = [s EXCEPT !.state = "leased", !.attempt = @ + 1]

\* The running attempt is given up with a receipt, the delivery stays leased.
Lapse(s, t) == s.state = "leased" /\ t = Receipted(s)

\* An attempt given up is followed by the next one.
Recover(s, t) ==
  /\ s.state = "leased" /\ s.attempt < s.limit
  /\ t = [Receipted(s) EXCEPT !.attempt = @ + 1]

\* An attempt fails and another one will follow.
Reschedule(s, t) ==
  /\ s.state = "leased" /\ s.attempt < s.limit
  /\ t = [Receipted(s) EXCEPT !.state = "waiting"]

Deliver(s, t) == s.state = "leased" /\ t = [Receipted(s) EXCEPT !.state = "delivered"]

\* A permanent failure, a changed endpoint or the last attempt.
Bury(s, t) == s.state = "leased" /\ t = [Receipted(s) EXCEPT !.state = "dead"]

\* An operator opens a new cycle over a dead letter.
Replay(s, t) ==
  /\ s.state = "dead" /\ s.cycle < MaxCycle
  /\ t = [s EXCEPT !.state = "waiting", !.cycle = @ + 1, !.attempt = 0]

Move(s, t) ==
  \/ Accept(s, t) \/ Lease(s, t) \/ Lapse(s, t) \/ Recover(s, t)
  \/ Reschedule(s, t) \/ Deliver(s, t) \/ Bury(s, t) \/ Replay(s, t)

\* Each delivery moves or stays as it is.
Next == \A d \in Delivery : promise'[d] = promise[d] \/ Move(promise[d], promise'[d])

Spec == Init /\ [][Next]_promise
=============================================================================
