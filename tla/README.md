# Verification of the Lenso Outbound Webhook Plugin

TLA+ modules, TLC runs and TLAPS proofs for the Plugin in this repository: a durable
webhook delivery queue in PostgreSQL that an external worker drives by calling Admin
`dispatch`. `PROJECT.json` maps every definition to the lines it models; paths below are
relative to `crates/lenso-outbound-webhook-plugin/`.

## The system

| Component | State it keeps | Operations | What makes it correct |
|---|---|---|---|
| Delivery store (`src/storage.rs`, `migrations/`) | tables `webhook_deliveries`, `webhook_delivery_attempts` | `insert_or_get`, `claim_due`, `record_outcome`, `begin_replay`, `load`, `last_receipt` | one holder per leased attempt, an unbroken trail of receipts, delivered is final, counters within their CHECKs |
| Dispatch flow (`src/service.rs`) | the claimed record, the answer, the receipt to be, across three awaits | `dispatch_delivery`, `finish_dispatch`, `retry_delay_seconds` | a late call changes nothing; every answer ends in a retry that can be claimed, a delivery or a dead letter |
| Enqueue and replay flows (`src/service.rs`) | the request, across one or two statements | `enqueue_delivery`, `replay_delivery` | producers agree on one delivery per event; one dead letter, one new cycle |
| Inspect flow (`src/service.rs`) | none | `inspect_delivery` | the row and the receipt it shows belong together |
| Wire protocol (`src/protocol.rs`) | none | signing, snapshot, hashes, failure classes | which failures are retried |
| Plugin lifecycle (`src/lib.rs`) | the `prepared` pool, key and endpoint behind a lock; the connections of the pool | `activate`, `deactivate`, `prepared` and every call that uses the pool | the database is used only in the activation a call began in, and never after `deactivate`; nobody waits for ever |
| Configuration (`src/config.rs`) | immutable per Instance | `validate`, `validate_config`, allowlists | delays that double and never wrap, references that are relative paths |
| Schema operator (`src/operator.rs`, `src/schema.rs`) | the managed schema | `setup`, `upgrade`, verification at activation | statements find the authored migrations |
| Capability contracts (`../lenso-capability-outbound-webhook*`) | none | codecs of responses and errors, endpoint, client, forwarding | a failure keeps its layer, code and details on any way; a response arrives as it was answered or fails |

Callers are other Instances on the Host: producers call `enqueue`; workers and operators call
`dispatch`, `inspect` and `replay`. The calls of any number of Plugin Instances, possibly with
different configurations, meet only in the database; there is no in-process queue, lock or timer.
So the hard part is concurrency in the database: statements of several transactions interleave,
`transaction_timestamp()` is fixed at BEGIN, leases end while a POST is awaited, a worker may
die at any await, and every answer may be lost. `PROJECT.json` lists each hazard at its line.

## Modules

- **ResponsePolicy**: what one HTTP answer means: accepted, retryable, permanent, a runtime
  failure, and whether its receipt passes the table's CHECK.
- **RetryBackoff**: `retry_delay_seconds` in two's complement of `IntWidth` bits, with the
  saturations, the clamp and the checked shift of the code.
- **WebhookStore**: the core. Variables and actions:

  | Model | Code |
  |---|---|
  | `deliveries`, `receipts` | the committed tables. `Row.config` stands for the columns copied from the enqueuing configuration, `payload` for event type and snapshot |
  | `now`, `ts` | the database clock and each transaction's `transaction_timestamp()` |
  | `pc`, `config`, `picked`, `claim`, `result` | the await each dispatch call is at, the configuration it runs under, the rows its statement locked, the `DeliveryRecord` and the arguments of `record_outcome` |
  | `producer`, `operator` | enqueue and replay calls |
  | `EnqueueInsert`, `EnqueueLock`, `EnqueueReply`, `EnqueueLost` | `insert_or_get`: `ON CONFLICT DO NOTHING`, `SELECT ... FOR UPDATE`, comparison; the answer lost |
  | `ClaimBegin`, `ClaimLock`, `ClaimCommit` | `claim_due`: BEGIN, the rows its statement selects and locks, its writes at the commit |
  | `EndpointChanged`, `Post`, `HttpAnswer` | `dispatch_delivery` after the claim and the decision of `finish_dispatch` |
  | `RecordBegin`, `RecordInsert`, `RecordLink`, `RecordCommit`, `RecordFenced`, `RecordRefused` | `record_outcome`: BEGIN, receipt insert, its foreign-key lock, the fenced update with the commit, its two failures |
  | `ReplayLoad`, `ReplayUpdate`, `ReplayRefused` | `replay_delivery`: unlocked read, conditional update |
  | `Abandon` | error, cancellation, crash, deadlock victim or lost connection at any step |

- **Inspection**: `inspect_delivery` beside all of the above: `InspectRow` reads the row,
  `InspectReceipt` its newest receipt, with any writers' commits in between.
- **FairDispatch**: `WebhookStore` under the fairness of callers that keep dispatching (below).
- **RetryPacing**: `WebhookStore` with two history variables: `answeredAt`, when each call had its
  answer, and `notBefore`, when the next attempt is wanted by that; neither disables a step.
- **PostHistory**: `WebhookStore` with two others: `posted`, the attempts the receiver was sent, and
  `accepted`, those it answered with a success. An attempt is the `DeliveryRecord` of its claim: the
  delivery, the cycle and the number. They relate what happened outside to what the tables say.
- **DeliveryContract**: what is promised for one delivery, with neither transactions, clocks
  nor calls: cycles of numbered attempts, each receipted before the next.
- **WebhookStoreContract**: reads the tables as such promises (the refinement mapping).
- **WebhookStoreInvariant**, **WebhookStoreProofs**: the inductive invariant and the theorems on
  `WebhookStore`; **WebhookStoreCallersProofs** (producers, operators, waits and queues),
  **WebhookStoreContractProofs** (the trail of receipts and the refinement), **HistoryProofs** (on
  `RetryPacing` and `PostHistory`) and **InspectionProofs** build on them.
- **PluginInstance**, **PluginInstanceProofs**: one Instance, its pools and its calls. Here a call
  is only the connections it takes, one after the other, and the POST between them; what its
  statements do is `WebhookStore`.

  | Model | Code |
  |---|---|
  | `lifecycle`, `activations`, `prepared`, `pools` | the await `activate` or `deactivate` is at; `prepared` holds the number of a pool, each activation opens its own |
  | `schema` | the version of the last installed migration, 0 without a schema |
  | `pc`, `operation`, `pool`, `left` | the await a call is at, the pool of the clone it took, the connections it has still to take |
  | `Activate`, `DatabaseUrlResolved`, `SigningKeyResolved`, `Verify`, `Publish`, `ActivationFails` | `activate`: both secrets, the key's length, `OwnedPostgres::prepare`, the publication |
  | `Deactivate`, `Deactivated` | `take()` of `prepared`, then `close().await` |
  | `Setup`, `Upgrade` | `OutboundWebhookOperator`, of an older, this or a newer release, at any moment |
  | `Start`, `Acquire`, `AcquireRefused`, `Continue`, `HttpAnswer`, `Answer`, `Fail` | a handler clones `prepared` once and goes from connection to connection |

- **InstanceContract**: what an Instance promises about its database, with neither pools nor handlers: a
  gate that is opened, drained and shut, and calls that enter with the ticket of the period they
  began in. **PluginInstanceContract** reads an Instance as that gate: a pool is a period, the clone a
  call took is its ticket, a connection it has out is its being inside.
- **CapabilityAnswers**, **CapabilityAnswersProofs**: one answer on its way through both generated
  crates: `native` is the nested result of a provider, `flat` the one of a client, `holder` who
  has it, `route` the peers whose decoder it went through. `PluginAnswers`, `EndpointRefuses`
  and `ForeignAnswers` (any JSON error or response of an unknown descriptor) begin it;
  `ClientReceives`, `Forward` and `EnterProcess` move it. Errors are open: an unknown code is decoded as
  `Unknown`. Responses are not: `DecodeResponse` refuses a status that is no variant of the reader and an
  object without a member of its own, nullable or not (`deserialize_required`), and drops members it does not
  know (the contract's schemas forbid them, the generated structs do not). A response is one enum and
  its set of members. The generated code of the four operations is the same up to names.
- **Configuration**, **ConfigurationProofs**: `validate_config` and all it calls, on any deserialized
  value, and the delays `RetryBackoff` computes from what is accepted.
- **MCWebhookStore**, **MCInspection**, **MCFairDispatch**, **MCRetryPacing**,
  **MCPostHistory**, **MCPluginInstance**, **MCCapabilityAnswers**, **MCConfiguration**: small instances.

Operators commented `Fault:` are plausible bugs of the definition that follows them. No
specification uses them; substituting one for its original must violate the property
`PROJECT.json` pairs it with.

### Modelling decisions

- *PostgreSQL* is READ COMMITTED; only its row locks, the wait of `ON CONFLICT` for an
  uncommitted key and the foreign key's `FOR KEY SHARE` are modelled. A claim waits for an
  insert of a receipt in flight before any of its own receipts count; the real statement may
  have inserted some already, which nobody can see before its commit.
- *The claim* is one statement: its selection and locks are one step, its writes become visible
  at its commit. Ties of `available_at` are left open.
- *Clocks*: due times come from the application clock, `now + skew` with any `skew \in Skew`;
  leases and comparisons use the database clock.
- *Configuration* never changes in an Instance. A reconfiguration is a call that runs under
  another configuration.
- *Identity*: `delivery_id` is a hash of endpoint and event id and is taken as injective, so
  the "delivery identity collision" branch is unreachable. A row is found by its event.
- *Admission*: the generated descriptors ask the Kernel for at most one call at a time and no
  queue (`generated.rs:13-16`). The Kernel is external and an Instance is not alone, so the
  modules allow any calls together.
- *Bytes* of names and references are five classes (letters, digits, `_` and `-` behave alike).
  An endpoint is what `Url::parse` makes of it: a scheme and the parts it has.
- *Left out*: caller allowlists and request checks (they answer before any state
  is touched), response bodies, failure codes, `created_at` and `updated_at`.

## What the runs check

| Run | Instance | Shows |
|---|---|---|
| `lease` | 2 deliveries, 2 dispatch calls, batch 1, time 0..3, lease 1 | `NoOverlapWithinLease`, `LeaseProtectsHolder`, `TerminalReceiptIsFinal`: a call that outlives its lease overlaps, is fenced and loses, and nothing else. `WaitingRowsClaimable`: no retry is scheduled that can never be claimed. `TypeOK` |
| `locks` | 3 dispatch calls, a duplicate enqueue | `DeadlocksArePairs`: the only circular wait is a record and the claim that holds its row, which PostgreSQL resolves by aborting one (`Abandon`) |
| `replay` | 1 delivery, enqueued once (duplicates are the question of `enqueue`), 2 calls, 2 operators, 2 replays, every kind of answer | `RowConstraints`, `ReceiptTrail`, `ReplayOpensOneCycle`, `HistoryOnlyGrows` across cycles; `ImplementsContract`: refinement of `DeliveryContract`. `NoAttemptPostedTwice`: no attempt is sent twice. `PostsAreAccounted`: and none forgotten. `PostsStayWithinLimit`: and in no cycle more than the delivery's limit. `SuccessWasAnswered`: "delivered" is said of accepted attempts only. `RepeatsOnlyAfterExpiry`: what a receiver accepted it gets again only when a lease ran out before the record, and the receipt says so |
| `enqueue` | 3 producers, 2 configurations (endpoint, attempts), 2 payloads, skewed clock | `EnqueueAgreement` |
| `batch` | 3 deliveries under two attempt limits and in two queues, batches of 2 | `BatchMovesByContract`: a claim that receipts, retires and reclaims several rows moves each legally. `QueuesApart`: and neither changes nor receipts one of another queue, so rows that a reconfiguration left behind stay as they are |
| `inspection` | 1 delivery, 2 calls, 2 operators and one replay, an inspector | `InspectionNeverLags`: the receipt shown is never older than the row shown implies, though it may come from its future. `InspectedDeliveryMatches`: "delivered" is shown with the receipt of the attempt that delivered. `RowConstraints`: the operator who comes after the last replay finds no row |
| `served` | 2 deliveries, 2 calls, batch 1, failing answers, fair | `DueIsServed`, `LapsedIsServed`: whatever is due is claimed, whatever has lapsed is recovered or retired, through locked rows, idle answers, crashes and expired rows outside the batch |
| `pacing` | 1 delivery, 3 attempts, 2 calls, lease 2, time 0..4, a clock one behind or ahead | `RetriesArePaced`: late records, fenced records and other Instances never shorten a retry's delay by more than the skew. `WaitsAreBounded`: nor does anything put a row out of reach |
| `lifecycle` | 2 calls, 1 connection, 2 activations, releases of 3 versions, fair | `QuietWhenInactive`, `NoConnectionOfAnEarlierPool`, `StatementsFindTheirSchema`, `TypeOK`; `ImplementsInstanceContract`: refinement of `InstanceContract`; `DeactivationEnds` and `NoCallStarves` although a receiver may never answer |
| `answers` | 2 peers (one descriptor a code, a status and a member behind), a code, a status and a member neither has, 3 hops | `FailureSurvives`, `VariantWhileKnown`: one old peer on the way hides variants of errors, and loses nothing. `ResponseArrivesOrFails`: of responses it loses members, or all of it, and then the caller has a runtime failure and no other answer. `TypeOK` |
| `configuration` | a typical configuration with one thing changed: all references of up to 5 bytes, 10 delays each, the edges of every range; 16-bit integers | `AcceptedDelaysDouble`: no attempt of an accepted configuration wraps or shortens its delay. `SecretReferencesArePaths`: the conditions on bytes admit exactly the relative paths |
| `receipt_of_success` | 2 deliveries, 2 calls, batch 1 | the finding below |

Each run is exhaustive within its bounds. The runs of `WebhookStore` without liveness,
`inspection` and `pacing` use symmetry over deliveries, calls, producers and operators, which no
property names; `served`, `lifecycle`, `answers` and `configuration` use none.

*Why the bounds are enough.* A lease of 1 and a clock of 3 let a call claim, outlive its lease,
lose the row and meet its successor's expiry. Two attempts are the fewest with a retry
and an exhaustion. Every conflict in the code is between two transactions on one row; the third
worker of `locks` is there to look for longer waits. Batches of 1 and 2 leave rows outside the
batch in `lease` and `served` and fill it in `batch`. Two replays let a call of cycle 0 meet the same attempt
number in cycles 1 and 2; in `inspection`, where one replay is the limit, the second operator meets it. In `pacing` a lease of 2 leaves time to record late, and a third attempt
to do so after another call's retry. One connection and two calls are the fewest where a call
could hold what the other waits for; two activations let a call outlive one in the next. Three
hops put an old peer between two newer ones, and the theorems on answers are proved for ways of any length. The 16-bit
arithmetic saturates at attempt 15 where 64 bits do at 63, and keeps the code's ratio: delays up to
`2^14` where 86400 is far below `2^62`; its byte bounds are scaled so that both sides of each occur.
`MaxTime` only bounds the clock, so a deadlock at its end is not hidden: a call can always be
abandoned and another begun. Deadlock is checked in every run but `configuration`, which ends
with its one answer.

What some runs do not meet the theorems cover: `lease` has one configuration and no operator, so
`endpoint_configuration_changed` and replays beside its four properties are only in the proofs.

*Fairness.* Safety runs assume none. `served` adds what dispatching callers and PostgreSQL give:

- dispatch is called again and again on every configuration (strong fairness of `ClaimBegin`: a
  call can begin only when one of the workers is idle). The Plugin has no timer, so without this nothing happens;
- a statement that can run again and again does run (`ClaimLock`, `Record`: row locks are granted
  in turn), a claim that has picked a row is not aborted every time (`ClaimsRow`), and
  a circular wait is broken (`DeadlockBroken`), by aborting either;
- a POST ends, by its answer or its caller's deadline (`PostEnds`).

The clock need not move, and any call may crash at any step. Enqueues are absent (`Producer = {}`):
a duplicate enqueue holds its row's lock, and `SKIP LOCKED` gives no guarantee against producers
that never stop repeating one event. The work in `served` is finite, so the run does not show that older rows come
before newer ones (`ORDER BY available_at`) when new ones keep arriving. `lifecycle` assumes that PostgreSQL answers statements, that
the pool serves its waiters in turn, as sqlx does, and that the future of `close()` is polled. It asks
nothing of receivers, callers or the Kernel, so a POST may hang for ever.

### Finding: a delivered row whose only receipt says `lease_expired`

`record_outcome` begins, its lease ends, another `dispatch` receipts the attempt as
`lease_expired` in its maintenance batch but claims an older due row, and commits. Then the record's insert
meets `ON CONFLICT DO NOTHING` and its update still passes, because it compares the lease with
its own BEGIN time. The row is `delivered`; its last receipt is `lease_expired`, without
HTTP status or digest. `storage.rs:262` promises a receipt fenced to the active lease,
`docs/plugin-card.md:34-35` a receipt for every completed attempt, and the acceptance test
(`postgres_tests.rs:189`) reads "delivered" from the last receipt of a delivered row. The state
machine itself is unharmed: `ReceiptTrail` and `ImplementsContract` hold with this behaviour included.

## What is proved

`WebhookStoreProofs` proves, for every set of deliveries, calls and configurations and
every limit, lease, delay, skew and clock that satisfies the named assumptions of `WebhookStore`:

| Theorem | Property |
|---|---|
| `TypeCorrect` | `TypeOK` |
| `ConstraintsHold` | `RowConstraints` |
| `NoRowStranded` | `WaitingRowsClaimable` |
| `SuccessIsFinal` | `TerminalReceiptIsFinal` |
| `LeasesExclude` | `NoOverlapWithinLease` |
| `HolderProtected` | `LeaseProtectsHolder` |
| `HistoryIsKept` | `HistoryOnlyGrows` |

*Assumptions.* "No row" is not a delivery, NULL is not a number, there is a configuration and a
payload, limits and leases are positive and delays natural (`validate` demands more).

*Argument.* None of the properties is inductive. `IInv` adds what calls in flight may rely on:
transactions begin in the past (`ClockSound`); a held attempt was reached by its delivery
(`ClaimsSound`) and is held once (`ClaimedOnce`); rows selected by a claim stay as selected while
locked (`PicksSound`, `LocksExclusive`); what is to be recorded fits its attempt
(`ResultsSound`); until a call begins to record, its lease is over or the row still carries it
(`LeasesHeld`); receipts belong to cycles that were reached (`ReceiptsSound`). That a call's
attempt is never ahead of the row and that attempts and cycles never go back (`RowsForward`)
makes the fence exact: equality of cycle and attempt with status `delivering` identifies the
holder. `RowMoves` and `CallMoves` reduce the twenty-odd actions to the few ways a row and a call can
change, and every conjunct of `IInv` is proved from those, one lemma each; `NextInv` collects
them. `LeasesExclude` needs `LeasesHeld` for both calls: two live leases on one row would be one
attempt, which `ClaimedOnce` excludes.

The modules that extend `WebhookStoreProofs` strengthen `IInv` by what their property needs, under the
same assumptions:

| Theorem | Module | Property |
|---|---|---|
| `ProducersAgree` | `WebhookStoreCallersProofs` | `EnqueueAgreement` |
| `ReplaysOpenCycles` | `WebhookStoreCallersProofs` | `ReplayOpensOneCycle` |
| `WaitsArePairs` | `WebhookStoreCallersProofs` | `DeadlocksArePairs` |
| `QueuesStayApart` | `WebhookStoreCallersProofs` | `QueuesApart` |
| `TrailUnbroken` | `WebhookStoreContractProofs` | `ReceiptTrail` |
| `MovesLegal` | `WebhookStoreContractProofs` | `BatchMovesByContract` |
| `ContractKept` | `WebhookStoreContractProofs` | `ImplementsContract` |
| `RetriesWait` | `HistoryProofs` | `RetriesArePaced` |
| `NothingOutOfReach` | `HistoryProofs` | `WaitsAreBounded` |
| `PostedOnce` | `HistoryProofs` | `NoAttemptPostedTwice` |
| `PostsHaveReceipts` | `HistoryProofs` | `PostsAreAccounted` |
| `PostsAreLimited` | `HistoryProofs` | `PostsStayWithinLimit` |
| `SuccessIsTrue` | `HistoryProofs` | `SuccessWasAnswered` |
| `RepeatsAreExplained` | `HistoryProofs` | `RepeatsOnlyAfterExpiry` |
| `NeverLags` | `InspectionProofs` | `InspectionNeverLags` |
| `DeliveredMatches` | `InspectionProofs` | `InspectedDeliveryMatches` |

- *Callers* (`CallersInv`). What a producer was told is true of its row and stays true, because no
  statement updates those columns (`Told`); one producer was told "created" (`CreatedOnce`). A claim has
  locked rows of its own queue (`PicksInQueue`) and shares them with nobody (`LocksApart`), so
  whoever a claim waits for waits for that claim alone.
- *Receipts* (`TrailInv`). A step leaves the receipts of a delivery as they are (`Keeps`) or adds the one of
  its running attempt (`Gains`), and `CycleMoves` says which counters may move with it: a row is claimed
  again, retired or settled only with its attempt receipted. This needs that an insert which met
  a receipt still finds one at its commit (`PresentSound`) and that a row which left the queue has an
  attempt (`AttemptsBegun`).
- *Contract*. `Init` maps to the initial promise, every step of a delivery to one move or a stutter:
  `AcceptMove`, `ReceiptingMoves`, `LeaseMove`, `ReplayMove`, one lemma each over the moves of a row. The
  trail of receipts is what enables the moves that demand a receipt.
- *Pacing* (`PacingInv`). What is to be recorded as due, and the row once it is, lie no earlier than
  wanted but for a skew (`RecordsPaced`, `RowsPaced`); a claim picks by its BEGIN time and the row stays
  as picked (`PicksDue`). The other way round (`WaitInv`): a row is within reach of the moment it is
  written, since answers lie in the past, and time only takes it nearer (`ReachStep`).
- *Posts* (`HistoryInv`). A claimed attempt is new, because its row never had that cycle and number before
  (`Reached`): so it is posted once. Those of one cycle have numbers within the limit, one each, so there
  are no more than that. A row gives up an attempt only with its receipt (the trail again), so
  a posted one stays `Accounted`. What a call records agrees with what it was answered
  (`CallAgrees`), the fence makes the row's last attempt the one recorded (`DeliveredIsAccepted`), and the
  receipt of an accepted attempt is its own or maintenance's (`AcceptedIsReceipted`). A later attempt exists
  only when the row left the accepted one without becoming delivered, so the receipt is maintenance's.
- *Inspection* (`InspectionInv`). A row implies a receipt (`Explained`, from the trail), receipts stay, so the
  second statement finds it or a newer one. A newest receipt exists because the receipts of each cycle are a
  bounded run (`NewestExists`); a delivered row does not change any more (`DeliveredKept`).

`PluginInstanceProofs`, for any number of calls, connections, releases and activations:

| Theorem | Property |
|---|---|
| `TypeCorrect` | `TypeOK` |
| `Quiet` | `QuietWhenInactive` |
| `EarlierPoolsAreDrained` | `NoConnectionOfAnEarlierPool` |
| `SchemaIsThere` | `StatementsFindTheirSchema` |
| `InstanceContractKept` | `ImplementsInstanceContract` |

Its invariant: an Instance is active exactly while a pool is published, and that pool is open and
the last one opened (`Published`); no other pool is open, and at most one is closing, only while `deactivate` awaits it
(`PoolsInTurn`); a call in flight has a pool, and one with a connection a pool that is not closed
(`CallsOnPools`); from its verification on the schema holds the authored migrations (`SchemaKept`).
Closing waits for the connections, so a call on an earlier pool has none. For the refinement each action
has a lemma that names its step of the gate: `Publish` opens it, `Deactivate` drains it, `Deactivated`
shuts it with nobody inside, since the pool `close()` waited for is the only one with connections out;
`Acquire` enters with the ticket of the period, since only the published pool is open; what
`activate` does before it publishes, and the answer to a POST, leave the gate alone.

`CapabilityAnswersProofs`, for any descriptors, codes, payloads, statuses and members and a way of any length:

| Theorem | Property |
|---|---|
| `TypeCorrect` | `TypeOK` |
| `FailuresSurvive` | `FailureSurvives` |
| `ResponsesArriveOrFail` | `ResponseArrivesOrFails` |
| `VariantsWhileKnown` | `VariantWhileKnown` |

Its invariant says of whoever has the answer what the properties say of the caller: the
provider's nested result and the client's flat one tell the same (`Tells`), of a failure that it is the one
answered (`TellsFailure`), of a response that it is what the decoders so far kept or that one of them could not
have it (`TellsResponse`); decoding, encoding and nesting keep it. `HopTells` is the hop into another process.

`ConfigurationProofs`, for integers of any width, any limits (`MaxRetrySeconds` at most the widest
positive power of two, as 86400 is for `i64`) and references of any length:

| Theorem | Property |
|---|---|
| `DelaysDouble` | `AcceptedDelaysDouble` |
| `ReferencesArePaths` | `SecretReferencesArePaths` |
| `AcceptedForDispatch` | `DispatchMaySupposeIt` |

An Instance is constructed only when `Validate` said so (`Decided`). For the delays, the clamped shift is
a power of two (`ShiftedIs`) and where the product saturates the maximum applies anyway (`DelayIs`), which
needs that powers of two double and outgrow every number. For the references, a sequence that meets the
conditions on bytes (`Proper`) is a segment, or the segment before its first slash and a shorter proper
sequence (`ProperSplits`, `JoinProper`): `RelativePath` is therefore the set of proper references of each
length (`PathIsProper`). Both arguments are inductions; the provers take none with a predicate as parameter,
so they are made as the search for a least counterexample (`LeastNat`), and `2^n` is followed through
the number of subsets of `1..n` (`TwoStep`). `AcceptedForDispatch` closes the gap between two models: what
`validate_config` lets through is what `ConfigAssumption` of `WebhookStore` asks of attempts,
leases and delays.

*Only model-checked*: the four liveness properties, `DueIsServed` and `LapsedIsServed` of `served`,
`DeactivationEnds` and `NoCallStarves` of `lifecycle`. They need fairness and ENABLED, which are beyond
the provers. Every other property of a passing run is proved.

## Not modelled

Signing, headers, hashing, the snapshot and time formatting (data conversions on which no state
depends); of the generated contracts the types of single fields, requests, their JSON schemas, the construction of
clients from dependencies and the descriptor text (no behaviour); `Url::parse`, the schema name check,
the Kernel, sqlx and `lenso_postgres_kit` (external); the allowlist lookup and getters of the configuration;
tests, build and release files.

## Plan

What the plan had is built: every property but the four of liveness is proved. Next:

1. the safety half of those four: what must hold so that a fair step gets them on (a claim that answers
   idle left nothing it could have taken; a call that waits has nothing others wait for);
2. what follows from the two contracts alone, proved of the contracts;
3. as the code grows: larger instances of `served` (three deliveries), `inspect` with several Instances'
   pools, and the conversions of `protocol.rs` should a state ever come to depend on one.
