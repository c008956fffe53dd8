----------------------- MODULE WebhookStoreInvariant -----------------------
(***************************************************************************)
(* The inductive invariant behind the safety properties of WebhookStore.   *)
(***************************************************************************)
EXTENDS WebhookStore

\* Steps at which a call holds a claimed attempt, and those at which it also
\* holds what it is going to record.
Recording == {"answered", "record_begun", "receipt_inserted", "receipt_linked", "receipt_present"}
Holding   == {"claimed", "posting"} \cup Recording

GenerationOf(d) ==
  [delivery_id |-> d, replay_count |-> deliveries[d].replay_count,
   attempts |-> deliveries[d].attempts]

\* Transactions never begin in the future.
ClockSound == \A w \in Worker : ts[w] <= now

\* Each row by itself: RowConstraints and WaitingRowsClaimable.
RowSound(row) ==
  /\ row.attempts <= MaxAttemptsOf(row)
  /\ row.replay_count <= MaxReplayCount
  /\ row.status = "delivering" <=> row.lease_expires_at # Null
  /\ row.status \in Waiting => row.attempts < MaxAttemptsOf(row)
  /\ row.status = "absent" => row = AbsentRow

RowsSound == \A d \in Delivery : RowSound(deliveries[d])

\* A held attempt is one its delivery has reached, perhaps left behind.
ClaimSound(w) ==
  LET d == claim[w].delivery_id
      row == deliveries[d] IN
  /\ d \in Delivery
  /\ row.status # "absent"
  /\ claim[w].attempts \in 1..MaxAttemptsOf(row)
  /\ \/ claim[w].replay_count < row.replay_count
     \/ claim[w].replay_count = row.replay_count /\ claim[w].attempts <= row.attempts

ClaimsSound == \A w \in Worker : pc[w] \in Holding => ClaimSound(w)

\* No attempt is claimed twice.
ClaimedOnce ==
  \A v, w \in Worker :
    v # w /\ pc[v] \in Holding /\ pc[w] \in Holding => claim[v] # claim[w]

\* Rows stay as the claim statement found them while it has them locked.
PickSound(w) ==
  /\ \A d \in picked[w].expired :
       deliveries[d].status = "delivering" /\ deliveries[d].lease_expires_at <= ts[w]
  /\ picked[w].candidate # NoDelivery =>
       LET row == deliveries[picked[w].candidate] IN
       /\ row.attempts < MaxAttemptsOf(row)
       /\ row.status \in Waiting \/ picked[w].candidate \in picked[w].expired

PicksSound == \A w \in Worker : pc[w] = "claim_locked" => PickSound(w)

LocksExclusive ==
  \A d \in Delivery, v, w \in Worker : WorkerLocks(v, d) /\ WorkerLocks(w, d) => v = w

\* What is to be recorded fits the attempt.
ResultSound(w) ==
  /\ result[w].status \in {"delivering", "retry_scheduled", "delivered", "dead_letter"}
  /\ result[w].status = "retry_scheduled" =>
       claim[w].attempts < MaxAttemptsOf(deliveries[claim[w].delivery_id])
  /\ result[w].outcome = "delivered" => result[w].status = "delivered"
  /\ result[w].outcome = "endpoint_configuration_changed" => result[w].status = "dead_letter"

ResultsSound == \A w \in Worker : pc[w] \in Recording => ResultSound(w)

\* Until a call begins to record, either the lease it was given is over or the
\* row still carries that lease and that attempt.
LeaseHeld(w) ==
  LET row == deliveries[claim[w].delivery_id] IN
  \/ LeaseEnd(w) <= now
  \/ /\ claim[w] = GenerationOf(claim[w].delivery_id)
     /\ row.status = "delivering"
     /\ row.lease_expires_at = LeaseEnd(w)

LeasesHeld == \A w \in Worker : pc[w] \in {"claimed", "posting"} => LeaseHeld(w)

\* Receipts belong to existing deliveries and to cycles they have reached.
ReceiptsSound ==
  \A x \in receipts :
    /\ deliveries[x.delivery_id].status # "absent"
    /\ x.replay_count <= deliveries[x.delivery_id].replay_count

\* A replay in progress is about a row.
ReplaysSound == \A o \in Operator : operator[o].step # "idle" => operator[o].delivery \in Delivery

IInv ==
  /\ TypeOK
  /\ ClockSound
  /\ RowsSound
  /\ ClaimsSound
  /\ ClaimedOnce
  /\ PicksSound
  /\ LocksExclusive
  /\ ResultsSound
  /\ LeasesHeld
  /\ ReceiptsSound
  /\ ReplaysSound
  /\ TerminalReceiptIsFinal
=============================================================================
