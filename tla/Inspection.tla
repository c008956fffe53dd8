----------------------------- MODULE Inspection -----------------------------
(***************************************************************************)
(* Admin inspect beside the calls of WebhookStore: load reads the row and  *)
(* then, in a second statement and outside any transaction, last_receipt   *)
(* reads its newest receipt. Whatever the writers commit in between shows  *)
(* in one half of the answer only.                                         *)
(***************************************************************************)
EXTENDS WebhookStore

CONSTANT Inspector      \* Admin inspect calls

VARIABLE inspector      \* where each inspect call is and what it has read

NoReceipt    == [replay_count |-> 0, attempt |-> 0, outcome |-> "none"]
NoInspection == [step |-> "idle", delivery |-> NoDelivery, status |-> "absent",
                 attempts |-> 0, replay_count |-> 0, last_receipt |-> NoReceipt]

ReceiptsOf(d) == {x \in receipts : x.delivery_id = d}

\* Fault: ordered by attempt, whatever the cycle.
NoOlderByAttempt(x, y) == x.attempt >= y.attempt

\* Fault: DESC on the last column only.
NoOlderFirstCycle(x, y) ==
  \/ x.replay_count < y.replay_count
  \/ x.replay_count = y.replay_count /\ x.attempt >= y.attempt

\* ORDER BY replay_count DESC, attempt DESC
NoOlder(x, y) ==
  \/ x.replay_count > y.replay_count
  \/ x.replay_count = y.replay_count /\ x.attempt >= y.attempt

\* The query orders by replay_count, which the answer then leaves out.
LastReceipt(d) ==
  IF ReceiptsOf(d) = {} THEN NoReceipt
  ELSE LET x == CHOOSE y \in ReceiptsOf(d) : \A z \in ReceiptsOf(d) : NoOlder(y, z) IN
       [replay_count |-> x.replay_count, attempt |-> x.attempt, outcome |-> x.outcome]

\* load, first statement. A missing row is answered NotFound.
InspectRow(i, d) ==
  /\ inspector[i].step = "idle"
  /\ deliveries[d].status # "absent"
  /\ inspector' = [inspector EXCEPT ![i] =
       [step |-> "row_read", delivery |-> d, status |-> deliveries[d].status,
        attempts |-> deliveries[d].attempts, replay_count |-> deliveries[d].replay_count,
        last_receipt |-> NoReceipt]]

\* load, second statement, and the answer.
InspectReceipt(i) ==
  /\ inspector[i].step = "row_read"
  /\ inspector' = [inspector EXCEPT ![i].step = "answered",
                                    ![i].last_receipt = LastReceipt(inspector[i].delivery)]

Inspect(i) == (\E d \in Delivery : InspectRow(i, d)) \/ InspectReceipt(i)

NoInspections == inspector = [i \in Inspector |-> NoInspection]

InspectionNext ==
  \/ Next /\ UNCHANGED inspector
  \/ (\E i \in Inspector : Inspect(i)) /\ UNCHANGED vars

InspectionSpec == Init /\ NoInspections /\ [][InspectionNext]_<<vars, inspector>>
-----------------------------------------------------------------------------
(* Properties. *)

\* The torn answer errs in one direction: its receipt is never older than the
\* attempt its row implies, that is the row's attempt, or the one before while
\* the row is leased; only a delivery at its first attempt of all may lack one.
\* An operator may see a receipt from the row's future, even of a later cycle,
\* but never misses one that explains the status shown.
InspectionNeverLags ==
  \A i \in Inspector : inspector[i].step = "answered" =>
    LET answer == inspector[i]
        shown  == answer.last_receipt
        left   == IF answer.status = "delivering" THEN answer.attempts - 1 ELSE answer.attempts IN
    \/ shown.replay_count > answer.replay_count
    \/ shown.replay_count = answer.replay_count /\ shown.attempt >= left
    \/ left = 0 /\ shown.replay_count = answer.replay_count - 1 /\ shown.attempt >= 1

\* Delivered is final, so for it the two statements cannot be torn apart: the
\* receipt shown beside "delivered" is the one of the attempt that delivered,
\* although many cycles may have left receipts with higher attempt numbers.
InspectedDeliveryMatches ==
  \A i \in Inspector : LET answer == inspector[i] IN
    answer.step = "answered" /\ answer.status = "delivered" =>
      /\ answer.last_receipt.replay_count = answer.replay_count
      /\ answer.last_receipt.attempt = answer.attempts
=============================================================================
