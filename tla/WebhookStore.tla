---------------------------- MODULE WebhookStore ----------------------------
(***************************************************************************)
(* The durable delivery queue of the Outbound Webhook Plugin: the two      *)
(* PostgreSQL tables, every transaction the Plugin runs on them, and the   *)
(* calls (enqueue, dispatch, replay) those transactions belong to.         *)
(*                                                                         *)
(* A call is cut into steps at its awaits, because between two of them any *)
(* other call, on this or another Plugin Instance, may run:                *)
(*   - BEGIN fixes transaction_timestamp(), so every later comparison with *)
(*     it may be stale;                                                    *)
(*   - a statement takes its locks (FOR UPDATE, FOR KEY SHARE, a unique    *)
(*     key) at once and keeps them until its transaction ends;             *)
(*   - writes become visible at the commit.                                *)
(* PostgreSQL (READ COMMITTED) and the receiver are external: only what    *)
(* the statements of storage.rs ask of them is modelled.                   *)
(***************************************************************************)
EXTENDS Integers, FiniteSets, ResponsePolicy

CONSTANTS
  Delivery,         \* event identities; one row each, its delivery_id follows
  NoDelivery,       \* stands for "no row"
  Worker,           \* Admin dispatch calls that may be in flight together
  Producer,         \* enqueue calls
  Operator,         \* Admin replay calls
  Config,           \* configurations of the Instances sharing the schema
  Payload,          \* event contents (event type and serialized payload)
  EndpointUrl,      \* [Config -> endpoint_url], its origin is derived from it
  QueueName,        \* [Config -> queue_name]
  MaxAttempts,      \* [Config -> max_attempts]
  LeaseSeconds,     \* [Config -> lease_seconds]
  RetryDelay,       \* [Config -> [attempt -> delay of the next attempt]]
  BatchLimit,       \* EXPIRED_DELIVERY_MAINTENANCE_BATCH_LIMIT
  MaxReplayCount,   \* 1000000 in begin_replay and in the migration
  Response,         \* answers the HTTP client may return
  Null,             \* SQL NULL of a timestamp
  Skew,             \* application clock minus database clock
  MaxTime           \* bound of the model on the database clock

ASSUME DeliveryAssumption == NoDelivery \notin Delivery
ASSUME NullAssumption == Null \notin Int
ASSUME SetsAssumption == Config # {} /\ Payload # {} /\ Response \subseteq HttpResponse
ASSUME ConfigAssumption ==
  /\ MaxAttempts \in [Config -> Nat \ {0}]
  /\ LeaseSeconds \in [Config -> Nat \ {0}]
  /\ \A c, e \in Config : \A n \in 1..MaxAttempts[e] : RetryDelay[c][n] \in Nat
ASSUME BoundsAssumption ==
  BatchLimit \in Nat \ {0} /\ MaxReplayCount \in Nat /\ MaxTime \in Nat /\ Skew \subseteq Int

VARIABLES
  now,         \* the clock of the database
  deliveries,  \* table webhook_deliveries
  receipts,    \* table webhook_delivery_attempts
  pc,          \* where each dispatch call is
  ts,          \* transaction_timestamp() of its transaction
  config,      \* the configuration of the Instance it runs on
  picked,      \* rows its claim statement selected FOR UPDATE
  claim,       \* the DeliveryRecord it works on
  result,      \* the receipt and the status it is to record
  producer,    \* enqueue calls
  operator     \* replay calls

tables == <<deliveries, receipts>>
calls  == <<pc, ts, config, picked, claim, result>>
vars   == <<now, tables, calls, producer, operator>>

-----------------------------------------------------------------------------
(* Rows, receipts and what a call remembers. *)

AnyConfig  == CHOOSE c \in Config : TRUE
AnyPayload == CHOOSE b \in Payload : TRUE

DeliveryStatus == {"queued", "delivering", "retry_scheduled", "delivered", "dead_letter"}
Waiting == {"queued", "retry_scheduled"}

\* config stands for the columns copied from the enqueuing configuration
\* (endpoint_url, endpoint_origin, queue_name, max_attempts); no statement
\* updates them, nor the payload.
Row == [status : DeliveryStatus \cup {"absent"}, available_at : Int, lease_expires_at : Int \cup {Null},
        attempts : Nat, replay_count : Nat, config : Config, payload : Payload]

AbsentRow == [status |-> "absent", available_at |-> 0, lease_expires_at |-> Null,
              attempts |-> 0, replay_count |-> 0, config |-> AnyConfig, payload |-> AnyPayload]

MaxAttemptsOf(row) == MaxAttempts[row.config]

Outcome == {"delivered", "http_failure", "http_runtime_failure",
            "endpoint_configuration_changed", "lease_expired"}

Receipt == [delivery_id : Delivery, replay_count : Nat, attempt : Nat, outcome : Outcome]

HasReceipt(d, r, a) ==
  \E x \in receipts : x.delivery_id = d /\ x.replay_count = r /\ x.attempt = a

Generation == [delivery_id : Delivery \cup {NoDelivery}, replay_count : Nat, attempts : Nat]
NoClaim  == [delivery_id |-> NoDelivery, replay_count |-> 0, attempts |-> 0]
Pick     == [expired : SUBSET Delivery, candidate : Delivery \cup {NoDelivery}]
NoPick   == [expired |-> {}, candidate |-> NoDelivery]

Result == [outcome : Outcome, status : DeliveryStatus, next_available_at : Int \cup {Null},
           storable : BOOLEAN]
NoResult == [outcome |-> "lease_expired", status |-> "delivering", next_available_at |-> Null,
             storable |-> TRUE]

NoEnqueue == [step |-> "idle", delivery |-> NoDelivery, config |-> AnyConfig, payload |-> AnyPayload]
NoReplay  == [step |-> "idle", delivery |-> NoDelivery, replay_count |-> 0]

-----------------------------------------------------------------------------
(* Locks, read off the steps the calls are at. *)

Rows(w) == picked[w].expired \cup {picked[w].candidate}

WorkerLocks(w, d)   == pc[w] = "claim_locked" /\ d \in Rows(w)
ProducerLocks(p, d) == producer[p].step = "locked" /\ producer[p].delivery = d

\* Held FOR UPDATE by somebody.
ForUpdate(d) == \/ \E w \in Worker : WorkerLocks(w, d)
                \/ \E p \in Producer : ProducerLocks(p, d)

\* Fault: the receipts table does not reference the deliveries.
KeyShareUnreferenced(d) == FALSE

\* The foreign key of a fresh receipt holds its delivery FOR KEY SHARE.
KeyShare(d) == \E w \in Worker : pc[w] = "receipt_linked" /\ claim[w].delivery_id = d

\* FOR UPDATE SKIP LOCKED returns d, FOR UPDATE does not wait for it.
Lockable(d) == ~ForUpdate(d) /\ ~KeyShare(d)

\* A receipt of d's current attempt is inserted and not yet committed.
InFlight(d) ==
  \E w \in Worker :
    /\ pc[w] \in {"receipt_inserted", "receipt_linked"}
    /\ claim[w] = [delivery_id |-> d, replay_count |-> deliveries[d].replay_count,
                   attempts |-> deliveries[d].attempts]

-----------------------------------------------------------------------------
(* enqueue: insert_or_get. *)

QueuedRow(c, b, at) ==
  [AbsentRow EXCEPT !.status = "queued", !.available_at = at, !.config = c, !.payload = b]

\* Fault: the payloads are not compared.
SameContentButPayload(row, c, b) ==
  EndpointUrl[row.config] = EndpointUrl[c] /\ QueueName[row.config] = QueueName[c]

\* The stored immutable content is the content asked for.
SameContent(row, c, b) ==
  /\ EndpointUrl[row.config] = EndpointUrl[c]
  /\ QueueName[row.config] = QueueName[c]
  /\ row.payload = b

\* INSERT ... ON CONFLICT DO NOTHING; a created row is committed at once.
\* available_at is taken from the application clock.
EnqueueInsert(p, d, c, b) ==
  /\ producer[p].step = "idle"
  /\ IF deliveries[d].status = "absent"
     THEN /\ \E skew \in Skew :
               deliveries' = [deliveries EXCEPT ![d] = QueuedRow(c, b, now + skew)]
          /\ producer' = [producer EXCEPT ![p] =
               [step |-> "created", delivery |-> d, config |-> c, payload |-> b]]
     ELSE /\ producer' = [producer EXCEPT ![p] =
               [step |-> "conflicted", delivery |-> d, config |-> c, payload |-> b]]
          /\ UNCHANGED deliveries
  /\ UNCHANGED <<now, receipts, calls, operator>>

\* SELECT ... WHERE event_id = $1 FOR UPDATE waits for every other lock.
EnqueueLock(p) ==
  /\ producer[p].step = "conflicted"
  /\ Lockable(producer[p].delivery)
  /\ producer' = [producer EXCEPT ![p].step = "locked"]
  /\ UNCHANGED <<now, tables, calls, operator>>

\* Compare with the locked row, commit and answer.
EnqueueReply(p) ==
  /\ producer[p].step = "locked"
  /\ producer' = [producer EXCEPT ![p].step =
       IF SameContent(deliveries[producer[p].delivery], producer[p].config, producer[p].payload)
       THEN "existing" ELSE "conflict"]
  /\ UNCHANGED <<now, tables, calls, operator>>

\* The call is cancelled, its connection fails or its answer is lost; the
\* producer may send it again. A committed row stays.
EnqueueLost(p) ==
  /\ producer[p].step \in {"conflicted", "locked", "created"}
  /\ producer' = [producer EXCEPT ![p] = NoEnqueue]
  /\ UNCHANGED <<now, tables, calls, operator>>

-----------------------------------------------------------------------------
(* dispatch, first transaction: claim_due. *)

At(w, step) == pc' = [pc EXCEPT ![w] = step]

\* The call ends: its response, or its error, leaves the Plugin.
Finish(w) ==
  /\ At(w, "idle")
  /\ ts' = [ts EXCEPT ![w] = 0]
  /\ config' = [config EXCEPT ![w] = AnyConfig]
  /\ picked' = [picked EXCEPT ![w] = NoPick]
  /\ claim' = [claim EXCEPT ![w] = NoClaim]
  /\ result' = [result EXCEPT ![w] = NoResult]

ClaimBegin(w, c) ==
  /\ pc[w] = "idle"
  /\ At(w, "claim_begun")
  /\ ts' = [ts EXCEPT ![w] = now]
  /\ config' = [config EXCEPT ![w] = c]
  /\ UNCHANGED <<now, tables, picked, claim, result, producer, operator>>

\* Fault: the queue name is not compared.
InAnyQueue(w, d) == TRUE

InQueue(w, d) == QueueName[deliveries[d].config] = QueueName[config[w]]

\* Fault: any leased row counts as expired.
LeaseOverAtOnce(w, d) == deliveries[d].status = "delivering"

LeaseOver(w, d) ==
  deliveries[d].status = "delivering" /\ deliveries[d].lease_expires_at <= ts[w]

\* Rows the "expired" subquery may return, oldest lease first.
Expired(w) == {d \in Delivery : InQueue(w, d) /\ LeaseOver(w, d) /\ Lockable(d)}

IsBatch(w, batch) ==
  /\ Cardinality(batch) <= BatchLimit
  /\ \A d \in Expired(w) \ batch :
       /\ Cardinality(batch) = BatchLimit
       /\ \A e \in batch : deliveries[e].lease_expires_at <= deliveries[d].lease_expires_at

\* Fault: the candidate need not have an attempt left.
DueAnyAttempt(w, batch) ==
  {d \in Delivery :
     /\ InQueue(w, d) /\ Lockable(d)
     /\ \/ deliveries[d].status \in Waiting /\ deliveries[d].available_at <= ts[w]
        \/ d \in batch}

\* Fault: scheduled retries are not looked for.
DueQueuedOnly(w, batch) ==
  {d \in Delivery :
     /\ InQueue(w, d) /\ Lockable(d)
     /\ deliveries[d].attempts < MaxAttemptsOf(deliveries[d])
     /\ \/ deliveries[d].status = "queued" /\ deliveries[d].available_at <= ts[w]
        \/ d \in batch}

\* Fault: a row whose lease is over is receipted and not claimed again.
DueWaitingOnly(w, batch) ==
  {d \in Delivery :
     /\ InQueue(w, d) /\ Lockable(d)
     /\ deliveries[d].attempts < MaxAttemptsOf(deliveries[d])
     /\ deliveries[d].status \in Waiting /\ deliveries[d].available_at <= ts[w]}

\* Rows the "candidate" subquery may return. Ties of available_at are broken
\* by creation time and identity, which are left open here.
Due(w, batch) ==
  {d \in Delivery :
     /\ InQueue(w, d) /\ Lockable(d)
     /\ deliveries[d].attempts < MaxAttemptsOf(deliveries[d])
     /\ \/ deliveries[d].status \in Waiting /\ deliveries[d].available_at <= ts[w]
        \/ d \in batch}

IsCandidate(w, batch, d) ==
  IF Due(w, batch) = {} THEN d = NoDelivery
  ELSE /\ d \in Due(w, batch)
       /\ \A e \in Due(w, batch) : deliveries[d].available_at <= deliveries[e].available_at

\* The claim statement selects and locks its rows.
ClaimLock(w) ==
  /\ pc[w] = "claim_begun"
  /\ \E batch \in SUBSET Expired(w) :
       /\ IsBatch(w, batch)
       /\ \E d \in Delivery \cup {NoDelivery} :
            /\ IsCandidate(w, batch, d)
            /\ picked' = [picked EXCEPT ![w] = [expired |-> batch, candidate |-> d]]
  /\ At(w, "claim_locked")
  /\ UNCHANGED <<now, tables, ts, config, claim, result, producer, operator>>

LeaseExpiredReceipt(d) ==
  [delivery_id |-> d, replay_count |-> deliveries[d].replay_count,
   attempt |-> deliveries[d].attempts, outcome |-> "lease_expired"]

\* Fault: only the row that is claimed again is receipted.
LeaseExpiredReceiptOfCandidate(w) ==
  {LeaseExpiredReceipt(d) : d \in {e \in picked[w].expired \cap {picked[w].candidate} :
     ~HasReceipt(e, deliveries[e].replay_count, deliveries[e].attempts)}}

\* Fault: only the rows that are retired are receipted.
LeaseExpiredReceiptsOfRetired(w) ==
  {LeaseExpiredReceipt(d) : d \in {e \in picked[w].expired \ {picked[w].candidate} :
     ~HasReceipt(e, deliveries[e].replay_count, deliveries[e].attempts)}}

\* Fault: receipts are taken from the table and not from the locked batch.
LeaseExpiredReceiptsOfAll(w) ==
  {LeaseExpiredReceipt(d) : d \in {e \in Delivery :
     LeaseOver(w, e) /\ ~HasReceipt(e, deliveries[e].replay_count, deliveries[e].attempts)}}

\* ON CONFLICT DO NOTHING: an attempt already receipted keeps its receipt.
LeaseExpiredReceipts(w) ==
  {LeaseExpiredReceipt(d) : d \in {e \in picked[w].expired :
     ~HasReceipt(e, deliveries[e].replay_count, deliveries[e].attempts)}}

Exhausted(row) == row.attempts >= MaxAttemptsOf(row)

RetiredRow(row) == [row EXCEPT !.status = "dead_letter", !.lease_expires_at = Null]

ClaimedRow(w, row) ==
  [row EXCEPT !.status = "delivering", !.attempts = row.attempts + 1,
              !.lease_expires_at = ts[w] + LeaseSeconds[config[w]]]

\* Receipts, retirements and the claim become visible together. An insert of
\* the same receipt in flight makes the statement wait.
ClaimCommit(w) ==
  /\ pc[w] = "claim_locked"
  /\ \A d \in picked[w].expired : ~InFlight(d)
  /\ receipts' = receipts \cup LeaseExpiredReceipts(w)
  /\ deliveries' = [d \in Delivery |->
       IF d = picked[w].candidate THEN ClaimedRow(w, deliveries[d])
       ELSE IF d \in picked[w].expired /\ Exhausted(deliveries[d])
       THEN RetiredRow(deliveries[d])
       ELSE deliveries[d]]
  /\ IF picked[w].candidate = NoDelivery
     THEN Finish(w)                       \* answered "idle"
     ELSE /\ At(w, "claimed")
          /\ claim' = [claim EXCEPT ![w] =
               [delivery_id |-> picked[w].candidate,
                replay_count |-> deliveries[picked[w].candidate].replay_count,
                attempts |-> deliveries[picked[w].candidate].attempts + 1]]
          /\ picked' = [picked EXCEPT ![w] = NoPick]
          /\ UNCHANGED <<ts, config, result>>
  /\ UNCHANGED <<now, producer, operator>>

-----------------------------------------------------------------------------
(* dispatch, the attempt itself. *)

\* The stored endpoint is not the configured one: dead-letter without a POST.
EndpointMatches(w) ==
  EndpointUrl[deliveries[claim[w].delivery_id].config] = EndpointUrl[config[w]]

EndpointChanged(w) ==
  /\ pc[w] = "claimed"
  /\ ~EndpointMatches(w)
  /\ result' = [result EXCEPT ![w] =
       [outcome |-> "endpoint_configuration_changed", status |-> "dead_letter",
        next_available_at |-> Null, storable |-> TRUE]]
  /\ At(w, "answered")
  /\ UNCHANGED <<now, tables, ts, config, picked, claim, producer, operator>>

\* Sign and send. Nothing looks at the lease again before the POST.
Post(w) ==
  /\ pc[w] = "claimed"
  /\ EndpointMatches(w)
  /\ At(w, "posting")
  /\ UNCHANGED <<now, tables, ts, config, picked, claim, result, producer, operator>>

\* Fault: the last attempt is retried too.
MayRetryLast(w) == claim[w].attempts <= MaxAttemptsOf(deliveries[claim[w].delivery_id])

MayRetry(w) == claim[w].attempts < MaxAttemptsOf(deliveries[claim[w].delivery_id])

\* Fault: a retry waits the delay of the attempt it will be.
DelayOfNext(w) == RetryDelay[config[w]][claim[w].attempts + 1]

\* retry_delay_seconds of the attempt that failed, under the caller's limits.
DelayOf(w) == RetryDelay[config[w]][claim[w].attempts]

\* What finish_dispatch records for a response at application time t.
ResultOf(w, response, t) ==
  LET Settle(outcome, status, at) ==
        [outcome |-> outcome, status |-> status, next_available_at |-> at,
         storable |-> Storable(response)]
      verdict == VerdictOf(response) IN
  CASE verdict = "accepted" -> Settle("delivered", "delivered", Null)
    [] verdict = "runtime"  -> Settle("http_runtime_failure", "delivering", Null)
    [] verdict = "retryable" /\ MayRetry(w) ->
         Settle("http_failure", "retry_scheduled", t + DelayOf(w))
    [] OTHER -> Settle("http_failure", "dead_letter", Null)

\* Fault: the delay is counted from the claim.
HttpAnswerDelayedFromClaim(w) ==
  /\ pc[w] = "posting"
  /\ \E response \in Response, skew \in Skew :
       result' = [result EXCEPT ![w] = ResultOf(w, response, ts[w] + skew)]
  /\ At(w, "answered")
  /\ UNCHANGED <<now, tables, ts, config, picked, claim, producer, operator>>

HttpAnswer(w) ==
  /\ pc[w] = "posting"
  /\ \E response \in Response, skew \in Skew :
       result' = [result EXCEPT ![w] = ResultOf(w, response, now + skew)]
  /\ At(w, "answered")
  /\ UNCHANGED <<now, tables, ts, config, picked, claim, producer, operator>>

-----------------------------------------------------------------------------
(* dispatch, second transaction: record_outcome. *)

RecordBegin(w) ==
  /\ pc[w] = "answered"
  /\ At(w, "record_begun")
  /\ ts' = [ts EXCEPT ![w] = now]
  /\ UNCHANGED <<now, tables, config, picked, claim, result, producer, operator>>

Receipted(w) == HasReceipt(claim[w].delivery_id, claim[w].replay_count, claim[w].attempts)

\* INSERT of the receipt, ON CONFLICT DO NOTHING.
RecordInsert(w) ==
  /\ pc[w] = "record_begun"
  /\ result[w].storable
  /\ At(w, IF Receipted(w) THEN "receipt_present" ELSE "receipt_inserted")
  /\ UNCHANGED <<now, tables, ts, config, picked, claim, result, producer, operator>>

\* webhook_attempt_status_valid refuses the row: the transaction fails.
RecordRefused(w) ==
  /\ pc[w] = "record_begun"
  /\ ~result[w].storable
  /\ Finish(w)
  /\ UNCHANGED <<now, tables, producer, operator>>

\* The foreign key of the inserted receipt locks the delivery FOR KEY SHARE.
RecordLink(w) ==
  /\ pc[w] = "receipt_inserted"
  /\ ~ForUpdate(claim[w].delivery_id)
  /\ At(w, "receipt_linked")
  /\ UNCHANGED <<now, tables, ts, config, picked, claim, result, producer, operator>>

\* Fault: fenced to the cycle and a live lease, not to the attempt.
FencedByCycle(w) ==
  LET row == deliveries[claim[w].delivery_id] IN
  /\ row.replay_count = claim[w].replay_count
  /\ row.status = "delivering"
  /\ row.lease_expires_at > ts[w]

\* WHERE of the fenced update, against the timestamp fixed at BEGIN.
Fenced(w) ==
  LET row == deliveries[claim[w].delivery_id] IN
  /\ row.replay_count = claim[w].replay_count
  /\ row.attempts = claim[w].attempts
  /\ row.status = "delivering"
  /\ row.lease_expires_at > ts[w]

\* Fault: available_at is overwritten without COALESCE.
SettledRowNullDue(w, row) ==
  [row EXCEPT !.status = result[w].status,
              !.available_at = result[w].next_available_at,
              !.lease_expires_at = IF result[w].status = "delivering" THEN @ ELSE Null]

SettledRow(w, row) ==
  [row EXCEPT !.status = result[w].status,
              !.available_at = IF result[w].next_available_at = Null THEN @
                               ELSE result[w].next_available_at,
              !.lease_expires_at = IF result[w].status = "delivering" THEN @ ELSE Null]

OwnReceipt(w) ==
  [delivery_id |-> claim[w].delivery_id, replay_count |-> claim[w].replay_count,
   attempt |-> claim[w].attempts, outcome |-> result[w].outcome]

\* One row updated: receipt and transition commit together.
RecordCommit(w) ==
  /\ pc[w] \in {"receipt_linked", "receipt_present"}
  /\ ~ForUpdate(claim[w].delivery_id)
  /\ Fenced(w)
  /\ deliveries' = [deliveries EXCEPT ![claim[w].delivery_id] = SettledRow(w, @)]
  /\ receipts' = IF pc[w] = "receipt_linked" THEN receipts \cup {OwnReceipt(w)} ELSE receipts
  /\ Finish(w)
  /\ UNCHANGED <<now, producer, operator>>

\* Fault: rows_affected is not checked, the receipt is committed.
RecordFencedButCommitted(w) ==
  /\ pc[w] \in {"receipt_linked", "receipt_present"}
  /\ ~Fenced(w)
  /\ receipts' = IF pc[w] = "receipt_linked" THEN receipts \cup {OwnReceipt(w)} ELSE receipts
  /\ Finish(w)
  /\ UNCHANGED <<now, deliveries, producer, operator>>

\* No row updated: ensure_updated fails and the receipt is rolled back.
RecordFenced(w) ==
  /\ pc[w] \in {"receipt_linked", "receipt_present"}
  /\ ~Fenced(w)
  /\ Finish(w)
  /\ UNCHANGED <<now, tables, producer, operator>>

\* The call is cancelled, the process dies, the connection fails or
\* PostgreSQL breaks a deadlock: whatever is not committed is rolled back.
Abandon(w) ==
  /\ pc[w] # "idle"
  /\ Finish(w)
  /\ UNCHANGED <<now, tables, producer, operator>>

-----------------------------------------------------------------------------
(* replay: load, then begin_replay. *)

ReplayLoad(o, d) ==
  /\ operator[o].step = "idle"
  /\ deliveries[d].status = "dead_letter"     \* otherwise NotFound or NotDeadLetter
  /\ operator' = [operator EXCEPT ![o] =
       [step |-> "loaded", delivery |-> d, replay_count |-> deliveries[d].replay_count]]
  /\ UNCHANGED <<now, tables, calls, producer>>

\* Fault: the update relies on the status load returned.
ReplayableUnchecked(row) == row.replay_count < MaxReplayCount

\* Fault: the limit is left to the CHECK of the table.
ReplayableUnlimited(row) == row.status = "dead_letter"

Replayable(row) == row.status = "dead_letter" /\ row.replay_count < MaxReplayCount

\* Fault: the count is computed from what load returned.
NextReplayCountLoaded(o) == operator[o].replay_count + 1

\* The update counts from the row, not from what load returned.
NextReplayCount(o) == deliveries[operator[o].delivery].replay_count + 1

\* Fault: the new cycle keeps the attempts of the old one.
ReplayedRowKeepingAttempts(o, row) ==
  [row EXCEPT !.replay_count = NextReplayCount(o), !.status = "queued",
              !.available_at = now, !.lease_expires_at = Null]

ReplayedRow(o, row) ==
  [row EXCEPT !.replay_count = NextReplayCount(o), !.status = "queued", !.attempts = 0,
              !.available_at = now, !.lease_expires_at = Null]

ReplayUpdate(o) ==
  LET d == operator[o].delivery IN
  /\ operator[o].step = "loaded"
  /\ ~ForUpdate(d)
  /\ Replayable(deliveries[d])
  /\ deliveries' = [deliveries EXCEPT ![d] = ReplayedRow(o, @)]
  /\ operator' = [operator EXCEPT ![o] =
       [step |-> "replayed", delivery |-> d, replay_count |-> NextReplayCount(o)]]
  /\ UNCHANGED <<now, receipts, calls, producer>>

\* Another replay came first, or the cycle limit is reached: NotDeadLetter.
ReplayRefused(o) ==
  /\ operator[o].step = "loaded"
  /\ ~Replayable(deliveries[operator[o].delivery])
  /\ operator' = [operator EXCEPT ![o] = NoReplay]
  /\ UNCHANGED <<now, tables, calls, producer>>

-----------------------------------------------------------------------------
(* The specification. *)

NoCalls ==
  /\ pc = [w \in Worker |-> "idle"]
  /\ ts = [w \in Worker |-> 0]
  /\ config = [w \in Worker |-> AnyConfig]
  /\ picked = [w \in Worker |-> NoPick]
  /\ claim = [w \in Worker |-> NoClaim]
  /\ result = [w \in Worker |-> NoResult]
  /\ producer = [p \in Producer |-> NoEnqueue]
  /\ operator = [o \in Operator |-> NoReplay]

Init ==
  /\ now = 0
  /\ deliveries = [d \in Delivery |-> AbsentRow]
  /\ receipts = {}
  /\ NoCalls

Tick ==
  /\ now < MaxTime
  /\ now' = now + 1
  /\ UNCHANGED <<tables, calls, producer, operator>>

Enqueue(p) ==
  \/ \E d \in Delivery, c \in Config, b \in Payload : EnqueueInsert(p, d, c, b)
  \/ EnqueueLock(p)
  \/ EnqueueReply(p)
  \/ EnqueueLost(p)

Claim(w) == (\E c \in Config : ClaimBegin(w, c)) \/ ClaimLock(w) \/ ClaimCommit(w)

Attempt(w) == EndpointChanged(w) \/ Post(w) \/ HttpAnswer(w)

Record(w) ==
  \/ RecordBegin(w) \/ RecordInsert(w) \/ RecordRefused(w) \/ RecordLink(w)
  \/ RecordCommit(w) \/ RecordFenced(w)

Replay(o) == (\E d \in Delivery : ReplayLoad(o, d)) \/ ReplayUpdate(o) \/ ReplayRefused(o)

Next ==
  \/ Tick
  \/ \E p \in Producer : Enqueue(p)
  \/ \E w \in Worker : Claim(w) \/ Attempt(w) \/ Record(w) \/ Abandon(w)
  \/ \E o \in Operator : Replay(o)

Spec == Init /\ [][Next]_vars
-----------------------------------------------------------------------------
(* Properties. *)

Step == {"idle", "claim_begun", "claim_locked", "claimed", "posting", "answered",
         "record_begun", "receipt_inserted", "receipt_linked", "receipt_present"}

EnqueueStep == {"idle", "conflicted", "locked", "created", "existing", "conflict"}

\* Types of the columns (001_create_outbound_webhook.sql) and of what the
\* calls in flight hold.
TypeOK ==
  /\ now \in Nat
  /\ deliveries \in [Delivery -> Row]
  /\ receipts \subseteq Receipt
  /\ pc \in [Worker -> Step]
  /\ ts \in [Worker -> Int]
  /\ config \in [Worker -> Config]
  /\ picked \in [Worker -> Pick]
  /\ claim \in [Worker -> Generation]
  /\ result \in [Worker -> Result]
  /\ producer \in [Producer -> [step : EnqueueStep, delivery : Delivery \cup {NoDelivery},
                                config : Config, payload : Payload]]
  /\ operator \in [Operator -> [step : {"idle", "loaded", "replayed"},
                                delivery : Delivery \cup {NoDelivery}, replay_count : Nat]]

\* No statement of storage.rs ever trips a CHECK of webhook_deliveries: the
\* attempt and cycle counters stay within their limits whatever is claimed,
\* retired and replayed in whatever order, and exactly the leased rows have a
\* lease.
RowConstraints ==
  \A d \in Delivery : LET row == deliveries[d] IN
    /\ row.attempts <= MaxAttemptsOf(row)
    /\ row.replay_count <= MaxReplayCount
    /\ row.status = "delivering" <=> row.lease_expires_at # Null

\* A queued or retry-scheduled row has an attempt left. The candidate query
\* skips a row without one for ever and no other statement retires it, so
\* finish_dispatch must never schedule a retry that cannot be claimed.
WaitingRowsClaimable ==
  \A d \in Delivery :
    deliveries[d].status \in Waiting => deliveries[d].attempts < MaxAttemptsOf(deliveries[d])

\* Attempts of cycle r of delivery d that have a receipt.
Receipts(d, r) == {a \in 1..MaxAttemptsOf(deliveries[d]) : HasReceipt(d, r, a)}

\* Every attempt leaves a receipt before anything follows it: a cycle's
\* receipts are an unbroken run from attempt 1; they reach the last attempt of
\* every row at rest, and all attempts but the running one of a leased row.
\* Late workers, maintenance batches and replays all insert receipts.
ReceiptTrail ==
  \A d \in Delivery : LET row == deliveries[d] IN
    /\ \A r \in 0..(row.replay_count - 1) :
         \E k \in 1..MaxAttemptsOf(row) : Receipts(d, r) = 1..k
    /\ \/ Receipts(d, row.replay_count) = 1..row.attempts
       \/ row.status = "delivering" /\ Receipts(d, row.replay_count) = 1..(row.attempts - 1)
    /\ \A x \in receipts : x.delivery_id = d => x.replay_count <= row.replay_count

\* A "delivered" receipt is the end of its delivery: the row is delivered, in
\* that cycle and at that attempt ("terminal success and its immutable receipt
\* cannot be overwritten"). An endpoint change ends its cycle.
TerminalReceiptIsFinal ==
  \A x \in receipts : LET row == deliveries[x.delivery_id] IN
    /\ x.outcome = "delivered" =>
         /\ row.status = "delivered"
         /\ row.replay_count = x.replay_count
         /\ row.attempts = x.attempt
    /\ x.outcome = "endpoint_configuration_changed" /\ row.replay_count = x.replay_count =>
         row.status = "dead_letter" /\ row.attempts = x.attempt

\* Two POSTs of one delivery are in flight together only when the lease of the
\* older attempt is over: claim_due never hands out a leased delivery, whatever
\* replays, maintenance and late records happen between. While a call posts, ts
\* is the timestamp of its claim.
LeaseEnd(w) == ts[w] + LeaseSeconds[config[w]]

NoOverlapWithinLease ==
  \A v, w \in Worker :
    /\ v # w /\ pc[v] = "posting" /\ pc[w] = "posting"
    /\ claim[v].delivery_id = claim[w].delivery_id
    => /\ claim[v] # claim[w]
       /\ LeaseEnd(v) <= now \/ LeaseEnd(w) <= now

\* Until its lease is over, a leased row is changed only by the call that
\* claimed this very attempt, as its last step ("an expired attempt must be
\* fenced from changing state").
LeaseProtectsHolder ==
  [][\A d \in Delivery : LET row == deliveries[d] IN
       row.status = "delivering" /\ deliveries'[d] # row =>
         \/ row.lease_expires_at <= now
         \/ \E w \in Worker :
              /\ claim[w] = [delivery_id |-> d, replay_count |-> row.replay_count,
                             attempts |-> row.attempts]
              /\ pc'[w] = "idle"]_vars

\* History is never rewritten: receipts stay, a delivered row never changes
\* again, cycles only go up and, within one, attempts do.
HistoryOnlyGrows ==
  [][/\ receipts \subseteq receipts'
     /\ \A d \in Delivery : LET row == deliveries[d]
                                new == deliveries'[d] IN
          /\ row.status = "delivered" => new = row
          /\ \/ new.replay_count > row.replay_count
             \/ new.replay_count = row.replay_count /\ new.attempts >= row.attempts]_vars

\* Instances share the tables, not the queues: a claim receipts, retires and
\* claims rows of its own queue only, so those of a queue that nobody
\* dispatches any more stay as they are, and so do their receipts.
QueuesApart ==
  [][\A w \in Worker, d \in Delivery :
       /\ pc[w] = "claim_locked" /\ pc'[w] # "claim_locked"
       /\ deliveries'[d] # deliveries[d] \/ \E x \in receipts' \ receipts : x.delivery_id = d
       => QueueName[deliveries[d].config] = QueueName[config[w]]]_vars

\* Of all the calls that enqueue one event, whatever they race with, at most
\* one is told it created the delivery, one told "existing" asked for the very
\* content that will be delivered, and one told of a conflict did not.
EnqueueAgreement ==
  /\ \A p, q \in Producer :
       /\ producer[p].step = "created" /\ producer[q].step = "created"
       /\ producer[p].delivery = producer[q].delivery
       => p = q
  /\ \A p \in Producer :
       LET call == producer[p]
           row  == deliveries[call.delivery]
           same == /\ EndpointUrl[row.config] = EndpointUrl[call.config]
                   /\ QueueName[row.config] = QueueName[call.config]
                   /\ row.payload = call.payload IN
       /\ producer[p].step \in {"created", "existing"} => same
       /\ producer[p].step = "conflict" => ~same

\* One dead letter is replayed into one new cycle: operators racing on it are
\* never answered the same replay_count, and each answered cycle was begun.
ReplayOpensOneCycle ==
  \A o, u \in Operator :
    operator[o].step = "replayed" =>
      /\ operator[o].replay_count <= deliveries[operator[o].delivery].replay_count
      /\ o # u /\ operator[u].step = "replayed" /\ operator[u].delivery = operator[o].delivery
         => operator[u].replay_count # operator[o].replay_count

\* The claim of w waits for the receipt that the record of v has in flight.
ClaimAwaits(w, v) ==
  /\ w # v
  /\ pc[w] = "claim_locked" /\ pc[v] \in {"receipt_inserted", "receipt_linked"}
  /\ claim[v].delivery_id \in picked[w].expired
  /\ InFlight(claim[v].delivery_id)

\* A claim that waits for a receipt in flight waits for a record that in turn
\* waits for the row this claim, and nobody else, has locked: PostgreSQL sees a
\* cycle of exactly two transactions and aborting either ends it. No call ever
\* waits for more.
DeadlocksArePairs ==
  \A v, w \in Worker : ClaimAwaits(w, v) =>
    /\ pc[v] = "receipt_inserted"
    /\ {u \in Worker : WorkerLocks(u, claim[v].delivery_id)} = {w}
    /\ ~\E p \in Producer : ProducerLocks(p, claim[v].delivery_id)

\* What "Every completed attempt stores an immutable receipt" and the
\* acceptance test's last assertion suppose: the receipt of the attempt that
\* delivered says so.
DeliveredRowsHaveDeliveredReceipts ==
  \A d \in Delivery : deliveries[d].status = "delivered" =>
    [delivery_id |-> d, replay_count |-> deliveries[d].replay_count,
     attempt |-> deliveries[d].attempts, outcome |-> "delivered"] \in receipts
=============================================================================
