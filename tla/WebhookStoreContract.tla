----------------------- MODULE WebhookStoreContract -----------------------
(***************************************************************************)
(* The tables of WebhookStore read as the promises of DeliveryContract.    *)
(***************************************************************************)
EXTENDS WebhookStore

StateOf(status) ==
  CASE status = "absent"          -> "absent"
    [] status \in Waiting         -> "waiting"
    [] status = "delivering"      -> "leased"
    [] status = "delivered"       -> "delivered"
    [] status = "dead_letter"     -> "dead"

ReceiptedOf(d) ==
  {<<x.replay_count, x.attempt>> : x \in {y \in receipts : y.delivery_id = d}}

Promise ==
  [d \in Delivery |->
     [state     |-> StateOf(deliveries[d].status),
      cycle     |-> deliveries[d].replay_count,
      attempt   |-> deliveries[d].attempts,
      limit     |-> IF deliveries[d].status = "absent" THEN 0 ELSE MaxAttemptsOf(deliveries[d]),
      receipted |-> ReceiptedOf(d)]]

Contract == INSTANCE DeliveryContract WITH
  Limit    <- {MaxAttempts[c] : c \in Config},
  MaxCycle <- MaxReplayCount,
  promise  <- Promise

\* The transitions alone, for instances that start from enqueued deliveries: a
\* maintenance batch that receipts, retires and reclaims many rows at once
\* moves every one of them by a legal move.
BatchMovesByContract == [][Contract!Next]_Promise

\* Every transaction of the Plugin, whatever calls it interleaves with and
\* wherever they are abandoned, moves each delivery by at most one move of the
\* contract, and a claim that touches many rows moves them all by legal moves.
ImplementsContract == Contract!Spec
=============================================================================
