------------------------- MODULE WebhookStoreProofs -------------------------
(***************************************************************************)
(* The inductive invariant of WebhookStore and the safety properties it    *)
(* gives, for any number of deliveries, calls and configurations, any      *)
(* limits and any clock.                                                   *)
(***************************************************************************)
EXTENDS WebhookStoreInvariant, TLAPS

-----------------------------------------------------------------------------
(* Which variables each actor leaves alone. *)

LEMMA TickFrame ==
  ASSUME Tick
  PROVE  now' = now + 1 /\ UNCHANGED <<tables, calls, producer, operator>>
BY DEF Tick

LEMMA EnqueueFrame ==
  ASSUME NEW p \in Producer, Enqueue(p)
  PROVE  UNCHANGED <<now, receipts, calls, operator>>
<1>1. CASE \E d \in Delivery, c \in Config, b \in Payload : EnqueueInsert(p, d, c, b)
  BY <1>1 DEF EnqueueInsert
<1>2. CASE EnqueueLock(p) \/ EnqueueReply(p) \/ EnqueueLost(p)
  BY <1>2 DEF EnqueueLock, EnqueueReply, EnqueueLost, tables
<1> QED BY <1>1, <1>2 DEF Enqueue

LEMMA DispatchFrame ==
  ASSUME NEW w \in Worker, Claim(w) \/ Attempt(w) \/ Record(w) \/ Abandon(w)
  PROVE  /\ UNCHANGED <<now, producer, operator>>
         /\ UNCHANGED receipts \/ ClaimCommit(w) \/ RecordCommit(w)
<1>1. CASE Claim(w)
  <2>1. CASE (\E c \in Config : ClaimBegin(w, c)) \/ ClaimLock(w)
    BY <2>1 DEF ClaimBegin, ClaimLock, tables
  <2>2. CASE ClaimCommit(w)
    BY <2>2 DEF ClaimCommit
  <2> QED BY <1>1, <2>1, <2>2 DEF Claim
<1>2. CASE Attempt(w)
  BY <1>2 DEF Attempt, EndpointChanged, Post, HttpAnswer, tables
<1>3. CASE Record(w)
  <2>1. CASE RecordBegin(w) \/ RecordInsert(w) \/ RecordLink(w)
    BY <2>1 DEF RecordBegin, RecordInsert, RecordLink, tables
  <2>2. CASE RecordRefused(w) \/ RecordFenced(w)
    BY <2>2 DEF RecordRefused, RecordFenced, tables
  <2>3. CASE RecordCommit(w)
    BY <2>3 DEF RecordCommit
  <2> QED BY <1>3, <2>1, <2>2, <2>3 DEF Record
<1>4. CASE Abandon(w)
  BY <1>4 DEF Abandon, tables
<1> QED BY <1>1, <1>2, <1>3, <1>4

LEMMA ReplayFrame ==
  ASSUME NEW o \in Operator, Replay(o)
  PROVE  UNCHANGED <<now, receipts, calls, producer>>
<1>1. CASE \E d \in Delivery : ReplayLoad(o, d)
  BY <1>1 DEF ReplayLoad, tables
<1>2. CASE ReplayUpdate(o)
  BY <1>2 DEF ReplayUpdate
<1>3. CASE ReplayRefused(o)
  BY <1>3 DEF ReplayRefused, tables
<1> QED BY <1>1, <1>2, <1>3 DEF Replay

\* Who writes the receipts, moves the producers and moves the operators.
LEMMA WhoMoves ==
  ASSUME [Next]_vars
  PROVE  /\ UNCHANGED receipts \/ \E w \in Worker : ClaimCommit(w) \/ RecordCommit(w)
         /\ UNCHANGED producer \/ \E p \in Producer : Enqueue(p)
         /\ UNCHANGED operator \/ \E o \in Operator : Replay(o)
         /\ UNCHANGED now \/ Tick
<1>1. CASE UNCHANGED vars
  BY <1>1 DEF vars, tables
<1>2. CASE Tick
  BY <1>2, TickFrame DEF tables
<1>3. ASSUME NEW p \in Producer, Enqueue(p)
      PROVE  UNCHANGED <<now, receipts, operator>>
  BY <1>3, EnqueueFrame
<1>4. ASSUME NEW w \in Worker, Claim(w) \/ Attempt(w) \/ Record(w) \/ Abandon(w)
      PROVE  /\ UNCHANGED <<now, producer, operator>>
             /\ UNCHANGED receipts \/ ClaimCommit(w) \/ RecordCommit(w)
  BY <1>4, DispatchFrame
<1>5. ASSUME NEW o \in Operator, Replay(o) PROVE UNCHANGED <<now, receipts, producer>>
  BY <1>5, ReplayFrame
<1> QED BY <1>1, <1>2, <1>3, <1>4, <1>5 DEF Next

\* The database clock never goes back.
LEMMA ClockMoves ==
  ASSUME TypeOK, [Next]_vars
  PROVE  now \in Nat /\ now' \in Nat /\ now <= now'
<1>1. now \in Nat
  BY DEF TypeOK
<1>2. now' = now \/ now' = now + 1
  BY WhoMoves, TickFrame
<1> QED BY <1>1, <1>2

-----------------------------------------------------------------------------
(* How a step may change a row. *)

\* The default values of idle calls have their types.
LEMMA DefaultsTyped ==
  /\ AnyConfig \in Config /\ AnyPayload \in Payload
  /\ AbsentRow \in Row
  /\ NoClaim \in Generation
  /\ NoResult \in Result
BY SetsAssumption DEF AnyConfig, AnyPayload, AbsentRow, Row, NoClaim, Generation,
   NoResult, Result, Outcome, DeliveryStatus

RowQueued(d) ==
  /\ deliveries[d].status = "absent"
  /\ \E c \in Config, b \in Payload, skew \in Skew, at \in Int :
       at = now + skew /\ deliveries'[d] = QueuedRow(c, b, at)

RowClaimed(w, d) ==
  /\ ClaimCommit(w) /\ d = picked[w].candidate
  /\ deliveries'[d] = ClaimedRow(w, deliveries[d])

RowRetired(w, d) ==
  /\ ClaimCommit(w) /\ d \in picked[w].expired /\ d # picked[w].candidate
  /\ Exhausted(deliveries[d])
  /\ deliveries'[d] = RetiredRow(deliveries[d])

RowSettled(w, d) ==
  /\ RecordCommit(w) /\ d = claim[w].delivery_id
  /\ deliveries'[d] = SettledRow(w, deliveries[d])

RowReplayed(o, d) ==
  /\ ReplayUpdate(o) /\ d = operator[o].delivery
  /\ deliveries'[d] = ReplayedRow(o, deliveries[d])

\* Every step leaves a row alone or is one of the five updates of it.
LEMMA RowMoves ==
  ASSUME TypeOK, [Next]_vars, NEW d \in Delivery
  PROVE  \/ deliveries'[d] = deliveries[d]
         \/ RowQueued(d)
         \/ \E w \in Worker : RowClaimed(w, d) \/ RowRetired(w, d) \/ RowSettled(w, d)
         \/ \E o \in Operator : RowReplayed(o, d)
<1> USE DEF tables, calls
<1>1. CASE UNCHANGED vars \/ Tick
  BY <1>1 DEF vars, Tick
<1>2. ASSUME NEW p \in Producer, Enqueue(p) PROVE deliveries'[d] = deliveries[d] \/ RowQueued(d)
  <2>1. ASSUME NEW e \in Delivery, NEW c \in Config, NEW b \in Payload, EnqueueInsert(p, e, c, b)
        PROVE  deliveries'[d] = deliveries[d] \/ RowQueued(d)
    <3>1. CASE deliveries[e].status = "absent"
      <4>1. PICK skew \in Skew : deliveries' = [deliveries EXCEPT ![e] = QueuedRow(c, b, now + skew)]
        BY <2>1, <3>1 DEF EnqueueInsert
      <4>2. now + skew \in Int
        BY BoundsAssumption DEF TypeOK
      <4> QED BY <3>1, <4>1, <4>2 DEF RowQueued, TypeOK
    <3>2. CASE deliveries[e].status # "absent"
      BY <2>1, <3>2 DEF EnqueueInsert
    <3> QED BY <3>1, <3>2
  <2>2. CASE EnqueueLock(p) \/ EnqueueReply(p) \/ EnqueueLost(p)
    BY <2>2 DEF EnqueueLock, EnqueueReply, EnqueueLost
  <2> QED BY <1>2, <2>1, <2>2 DEF Enqueue
<1>3. ASSUME NEW w \in Worker, Claim(w)
      PROVE  deliveries'[d] = deliveries[d] \/ RowClaimed(w, d) \/ RowRetired(w, d)
  <2>1. CASE (\E c \in Config : ClaimBegin(w, c)) \/ ClaimLock(w)
    BY <2>1 DEF ClaimBegin, ClaimLock
  <2>2. CASE ClaimCommit(w)
    BY <2>2 DEF ClaimCommit, RowClaimed, RowRetired
  <2> QED BY <1>3, <2>1, <2>2 DEF Claim
<1>4. ASSUME NEW w \in Worker, Attempt(w) \/ Abandon(w) PROVE deliveries'[d] = deliveries[d]
  BY <1>4 DEF Attempt, Abandon, EndpointChanged, Post, HttpAnswer
<1>5. ASSUME NEW w \in Worker, Record(w) PROVE deliveries'[d] = deliveries[d] \/ RowSettled(w, d)
  <2>1. CASE RecordCommit(w)
    BY <2>1 DEF RecordCommit, RowSettled, TypeOK
  <2>2. CASE ~RecordCommit(w)
    BY <1>5, <2>2 DEF Record, RecordBegin, RecordInsert, RecordRefused, RecordLink, RecordFenced
  <2> QED BY <2>1, <2>2
<1>6. ASSUME NEW o \in Operator, Replay(o) PROVE deliveries'[d] = deliveries[d] \/ RowReplayed(o, d)
  <2>1. CASE ReplayUpdate(o)
    BY <2>1 DEF ReplayUpdate, RowReplayed, TypeOK
  <2>2. CASE ~ReplayUpdate(o)
    BY <1>6, <2>2 DEF Replay, ReplayLoad, ReplayRefused
  <2> QED BY <2>1, <2>2
<1> QED BY <1>1, <1>2, <1>3, <1>4, <1>5, <1>6 DEF Next

LEMMA DeliveriesFunction ==
  ASSUME TypeOK, [Next]_vars
  PROVE  deliveries' = [d \in Delivery |-> deliveries'[d]]
<1> USE DEF tables, calls
<1>1. CASE UNCHANGED vars \/ Tick
  BY <1>1 DEF vars, Tick, TypeOK
<1>2. ASSUME NEW p \in Producer, Enqueue(p) PROVE deliveries' = [d \in Delivery |-> deliveries'[d]]
  BY <1>2 DEF Enqueue, EnqueueInsert, EnqueueLock, EnqueueReply, EnqueueLost, TypeOK
<1>3. ASSUME NEW w \in Worker, Claim(w) PROVE deliveries' = [d \in Delivery |-> deliveries'[d]]
  BY <1>3 DEF Claim, ClaimBegin, ClaimLock, ClaimCommit, TypeOK
<1>4. ASSUME NEW w \in Worker, Attempt(w) \/ Record(w) \/ Abandon(w)
      PROVE  deliveries' = [d \in Delivery |-> deliveries'[d]]
  BY <1>4 DEF Attempt, EndpointChanged, Post, HttpAnswer, Abandon, Record, RecordBegin,
     RecordInsert, RecordRefused, RecordLink, RecordCommit, RecordFenced, TypeOK
<1>5. ASSUME NEW o \in Operator, Replay(o) PROVE deliveries' = [d \in Delivery |-> deliveries'[d]]
  BY <1>5 DEF Replay, ReplayLoad, ReplayUpdate, ReplayRefused, TypeOK
<1> QED BY <1>1, <1>2, <1>3, <1>4, <1>5 DEF Next

\* The picks of a claim and what its sets offer.
LEMMA LocksTyped ==
  ASSUME TypeOK, NEW w \in Worker, pc[w] = "claim_locked"
  PROVE  picked[w].expired \in SUBSET Delivery /\ picked[w].candidate \in Delivery \cup {NoDelivery}
BY DEF TypeOK, Pick

\* The two updates that write several columns, by the values they write.
LEMMA ClaimColumns ==
  ASSUME NEW row \in Row, NEW n \in Nat, NEW lease \in Int
  PROVE  [row EXCEPT !.status = "delivering", !.attempts = n, !.lease_expires_at = lease] \in Row
BY DEF Row, DeliveryStatus

LEMMA ReplayColumns ==
  ASSUME NEW row \in Row, NEW r \in Nat, NEW at \in Int
  PROVE  [row EXCEPT !.replay_count = r, !.status = "queued", !.attempts = 0,
                     !.available_at = at, !.lease_expires_at = Null] \in Row
BY DEF Row, DeliveryStatus

\* A row changed by a step is still a row.
LEMMA RowTyped ==
  ASSUME IInv, [Next]_vars, NEW d \in Delivery
  PROVE  deliveries'[d] \in Row
<1>a. TypeOK
  BY DEF IInv
<1>0. deliveries[d] \in Row
  BY <1>a DEF TypeOK
<1>1. CASE RowQueued(d)
  <2>1. PICK c \in Config, b \in Payload, at \in Int : deliveries'[d] = QueuedRow(c, b, at)
    BY <1>1 DEF RowQueued
  <2> QED BY <2>1, DefaultsTyped DEF QueuedRow, Row, DeliveryStatus, AbsentRow
<1>2. ASSUME NEW w \in Worker, RowClaimed(w, d) PROVE deliveries'[d] \in Row
  <2> DEFINE end == ts[w] + LeaseSeconds[config[w]]
  <2>1. end \in Int
    BY <1>a, ConfigAssumption DEF TypeOK
  <2>2. deliveries'[d] = [deliveries[d] EXCEPT !.status = "delivering",
                            !.attempts = deliveries[d].attempts + 1, !.lease_expires_at = end]
    BY <1>2 DEF RowClaimed, ClaimedRow
  <2>3. deliveries[d].attempts + 1 \in Nat
    BY <1>0 DEF Row
  <2>4. [deliveries[d] EXCEPT !.status = "delivering",
           !.attempts = deliveries[d].attempts + 1, !.lease_expires_at = end] \in Row
    BY ONLY <1>0, <2>1, <2>3, ClaimColumns, Zenon
  <2> QED BY <2>2, <2>4
<1>3. ASSUME NEW w \in Worker, RowRetired(w, d) PROVE deliveries'[d] \in Row
  BY <1>0, <1>3 DEF RowRetired, RetiredRow, Row, DeliveryStatus
<1>4. ASSUME NEW w \in Worker, RowSettled(w, d) PROVE deliveries'[d] \in Row
  <2>1. result[w] \in Result
    BY <1>a DEF TypeOK
  <2> QED BY <1>0, <1>4, <2>1 DEF RowSettled, SettledRow, Row, Result
<1>5. ASSUME NEW o \in Operator, RowReplayed(o, d) PROVE deliveries'[d] \in Row
  <2>1. deliveries[d].replay_count + 1 \in Nat /\ now \in Int
    BY <1>0, <1>a DEF Row, TypeOK
  <2>2. deliveries'[d] = [deliveries[d] EXCEPT
          !.replay_count = deliveries[d].replay_count + 1, !.status = "queued", !.attempts = 0,
          !.available_at = now, !.lease_expires_at = Null]
    BY <1>5 DEF RowReplayed, ReplayedRow, NextReplayCount
  <2>3. [deliveries[d] EXCEPT
          !.replay_count = deliveries[d].replay_count + 1, !.status = "queued", !.attempts = 0,
          !.available_at = now, !.lease_expires_at = Null] \in Row
    BY ONLY <1>0, <2>1, ReplayColumns, Zenon
  <2> QED BY <2>2, <2>3
<1> QED BY <1>a, <1>0, <1>1, <1>2, <1>3, <1>4, <1>5, RowMoves
-----------------------------------------------------------------------------
(* Types. *)

\* Ending a call leaves its variables with their types.
LEMMA FinishTyped ==
  ASSUME TypeOK, NEW w \in Worker, Finish(w)
  PROVE  /\ pc' \in [Worker -> Step]
         /\ ts' \in [Worker -> Int]
         /\ config' \in [Worker -> Config]
         /\ picked' \in [Worker -> Pick]
         /\ claim' \in [Worker -> Generation]
         /\ result' \in [Worker -> Result]
BY DefaultsTyped DEF TypeOK, Finish, At, Step, NoPick, Pick

\* What an answer makes a call record is a Result.
LEMMA ResultTyped ==
  ASSUME IInv, NEW w \in Worker, pc[w] = "posting", NEW response \in Response, NEW t \in Int
  PROVE  ResultOf(w, response, t) \in Result
<1>1. TypeOK /\ ClaimSound(w)
  BY DEF IInv, ClaimsSound, Holding
<1> DEFINE row == deliveries[claim[w].delivery_id]
           delay == RetryDelay[config[w]][claim[w].attempts]
<1>2. delay \in Int
  <2>1. row.config \in Config /\ config[w] \in Config
    BY <1>1 DEF TypeOK, ClaimSound, Row
  <2>2. claim[w].attempts \in 1..MaxAttempts[row.config]
    BY <1>1 DEF ClaimSound, MaxAttemptsOf
  <2> HIDE DEF row
  <2> QED BY <2>1, <2>2, ConfigAssumption
<1>3. t + delay \in Int
  BY <1>2
<1>4. Storable(response) \in BOOLEAN
  BY DEF Storable
<1> HIDE DEF delay
<1> DEFINE Settle(o, s, at) == [outcome |-> o, status |-> s, next_available_at |-> at,
                                storable |-> Storable(response)]
<1>5. /\ Settle("delivered", "delivered", Null) \in Result
      /\ Settle("http_runtime_failure", "delivering", Null) \in Result
      /\ Settle("http_failure", "retry_scheduled", t + delay) \in Result
      /\ Settle("http_failure", "dead_letter", Null) \in Result
  BY <1>3, <1>4 DEF Result, Outcome, DeliveryStatus
<1>6. \/ ResultOf(w, response, t) = Settle("delivered", "delivered", Null)
      \/ ResultOf(w, response, t) = Settle("http_runtime_failure", "delivering", Null)
      \/ ResultOf(w, response, t) = Settle("http_failure", "retry_scheduled", t + delay)
      \/ ResultOf(w, response, t) = Settle("http_failure", "dead_letter", Null)
  BY DEF ResultOf, DelayOf, delay
<1> QED BY <1>5, <1>6

LEMMA ReceiptsTyped ==
  ASSUME IInv, [Next]_vars
  PROVE  receipts' \subseteq Receipt
<1> USE DEF tables, calls
<1>0. TypeOK
  BY DEF IInv
<1>1. ASSUME NEW w \in Worker, ClaimCommit(w) PROVE receipts' \subseteq Receipt
  <2>1. SUFFICES ASSUME NEW d \in picked[w].expired PROVE LeaseExpiredReceipt(d) \in Receipt
    BY <1>0, <1>1, <2>1 DEF ClaimCommit, LeaseExpiredReceipts, TypeOK
  <2>2. d \in Delivery /\ deliveries[d] \in Row
    BY <1>0, <1>1, LocksTyped DEF ClaimCommit, TypeOK
  <2> QED BY <2>2 DEF LeaseExpiredReceipt, Receipt, Outcome, Row
<1>2. ASSUME NEW w \in Worker, RecordCommit(w) PROVE receipts' \subseteq Receipt
  <2>1. claim[w] \in Generation /\ claim[w].delivery_id \in Delivery /\ result[w] \in Result
    BY <1>0, <1>2 DEF RecordCommit, TypeOK, IInv, ClaimsSound, ClaimSound, Holding, Recording
  <2>2. OwnReceipt(w) \in Receipt
    BY <2>1 DEF OwnReceipt, Receipt, Generation, Result
  <2> QED BY <1>0, <1>2, <2>2 DEF RecordCommit, TypeOK
<1>3. CASE UNCHANGED receipts
  BY <1>0, <1>3 DEF TypeOK
<1>4. \/ UNCHANGED receipts
      \/ \E w \in Worker : ClaimCommit(w) \/ RecordCommit(w)
  BY WhoMoves
<1> QED BY <1>1, <1>2, <1>3, <1>4
\* The variables of the dispatch calls keep their types.
CallsTyped ==
  /\ pc \in [Worker -> Step]
  /\ ts \in [Worker -> Int]
  /\ config \in [Worker -> Config]
  /\ picked \in [Worker -> Pick]
  /\ claim \in [Worker -> Generation]
  /\ result \in [Worker -> Result]

LEMMA CallsStep ==
  ASSUME IInv, [Next]_vars
  PROVE  CallsTyped'
<1> USE DEF tables, calls
<1>0. TypeOK /\ CallsTyped
  BY DEF IInv, TypeOK, CallsTyped
<1>1. CASE UNCHANGED calls
  BY <1>0, <1>1 DEF CallsTyped
<1>2. ASSUME NEW w \in Worker, Finish(w) PROVE CallsTyped'
  BY <1>0, <1>2, FinishTyped DEF CallsTyped
<1>3. ASSUME NEW w \in Worker, NEW c \in Config, ClaimBegin(w, c) PROVE CallsTyped'
  BY <1>0, <1>3 DEF CallsTyped, ClaimBegin, At, Step, TypeOK
<1>4. ASSUME NEW w \in Worker, ClaimLock(w) PROVE CallsTyped'
  <2>1. PICK batch \in SUBSET Expired(w), d \in Delivery \cup {NoDelivery} :
          picked' = [picked EXCEPT ![w] = [expired |-> batch, candidate |-> d]]
    BY <1>4 DEF ClaimLock
  <2>2. batch \in SUBSET Delivery
    BY DEF Expired
  <2>3. [expired |-> batch, candidate |-> d] \in Pick
    BY <2>2 DEF Pick
  <2> QED BY <1>0, <1>4, <2>1, <2>3 DEF ClaimLock, CallsTyped, At, Step
<1>5. ASSUME NEW w \in Worker, ClaimCommit(w), ~Finish(w) PROVE CallsTyped'
  <2>1. picked[w].candidate \in Delivery
    BY <1>0, <1>5, LocksTyped DEF ClaimCommit
  <2> DEFINE row == deliveries[picked[w].candidate]
             held == [delivery_id |-> picked[w].candidate, replay_count |-> row.replay_count,
                      attempts |-> row.attempts + 1]
  <2>2. row \in Row
    BY <1>0, <2>1 DEF TypeOK
  <2>3. held \in Generation
    BY <2>1, <2>2 DEF Generation, Row
  <2>4. /\ pc' = [pc EXCEPT ![w] = "claimed"]
        /\ claim' = [claim EXCEPT ![w] = held]
        /\ picked' = [picked EXCEPT ![w] = NoPick]
        /\ UNCHANGED <<ts, config, result>>
    BY <1>5 DEF ClaimCommit, At
  <2>5. NoPick \in Pick
    BY DEF NoPick, Pick
  <2> HIDE DEF held
  <2> QED BY <1>0, <2>3, <2>4, <2>5 DEF CallsTyped, Step
<1>6. ASSUME NEW w \in Worker, HttpAnswer(w) PROVE CallsTyped'
  <2>1. PICK response \in Response, skew \in Skew :
          result' = [result EXCEPT ![w] = ResultOf(w, response, now + skew)]
    BY <1>6 DEF HttpAnswer
  <2>2. now + skew \in Int
    BY <1>0, BoundsAssumption DEF TypeOK
  <2>3. ResultOf(w, response, now + skew) \in Result
    BY <1>6, <2>2, ResultTyped DEF HttpAnswer
  <2> QED BY <1>0, <1>6, <2>1, <2>3 DEF HttpAnswer, CallsTyped, At, Step
<1>7. ASSUME NEW w \in Worker, EndpointChanged(w) PROVE CallsTyped'
  BY <1>0, <1>7 DEF CallsTyped, EndpointChanged, At, Step, Result, Outcome, DeliveryStatus
<1>8. ASSUME NEW w \in Worker, RecordBegin(w) PROVE CallsTyped'
  BY <1>0, <1>8 DEF CallsTyped, RecordBegin, At, Step, TypeOK
<1>9. ASSUME NEW w \in Worker, Post(w) \/ RecordInsert(w) \/ RecordLink(w) PROVE CallsTyped'
  BY <1>0, <1>9 DEF CallsTyped, Post, RecordInsert, RecordLink, At, Step
<1>10. ASSUME NEW w \in Worker,
              RecordRefused(w) \/ RecordCommit(w) \/ RecordFenced(w) \/ Abandon(w)
       PROVE  CallsTyped'
  BY <1>2, <1>10 DEF RecordRefused, RecordCommit, RecordFenced, Abandon
<1>11. CASE Tick \/ (\E p \in Producer : Enqueue(p)) \/ (\E o \in Operator : Replay(o))
  BY <1>1, <1>11 DEF Tick, Enqueue, EnqueueInsert, EnqueueLock, EnqueueReply, EnqueueLost,
     Replay, ReplayLoad, ReplayUpdate, ReplayRefused
<1> QED BY <1>1, <1>2, <1>3, <1>4, <1>5, <1>6, <1>7, <1>8, <1>9, <1>10, <1>11
        DEF Next, vars, Claim, Attempt, Record

\* The variables of the producers and operators keep theirs.
LEMMA CallersStep ==
  ASSUME IInv, [Next]_vars
  PROVE  /\ now' \in Nat
         /\ producer' \in [Producer -> [step : EnqueueStep, delivery : Delivery \cup {NoDelivery},
                                        config : Config, payload : Payload]]
         /\ operator' \in [Operator -> [step : {"idle", "loaded", "replayed"},
                                        delivery : Delivery \cup {NoDelivery}, replay_count : Nat]]
<1> USE DEF tables, calls
<1> DEFINE Request == [step : EnqueueStep, delivery : Delivery \cup {NoDelivery},
                       config : Config, payload : Payload]
           Reply == [step : {"idle", "loaded", "replayed"},
                     delivery : Delivery \cup {NoDelivery}, replay_count : Nat]
<1>0. /\ now \in Nat /\ producer \in [Producer -> Request] /\ operator \in [Operator -> Reply]
      /\ deliveries \in [Delivery -> Row]
  BY DEF IInv, TypeOK
<1>1. now' \in Nat
  BY ClockMoves DEF IInv
<1>2. ASSUME NEW p \in Producer, Enqueue(p) PROVE producer' \in [Producer -> Request]
  <2>1. ASSUME NEW r \in Request, NEW step \in EnqueueStep PROVE [r EXCEPT !.step = step] \in Request
    BY <2>1
  <2>2. \A d \in Delivery, c \in Config, b \in Payload, step \in EnqueueStep :
          [step |-> step, delivery |-> d, config |-> c, payload |-> b] \in Request
    OBVIOUS
  <2>3. {"created", "conflicted", "locked", "existing", "conflict", "idle"} \subseteq EnqueueStep
    BY DEF EnqueueStep
  <2>4. NoEnqueue \in Request
    BY DefaultsTyped DEF NoEnqueue, EnqueueStep
  <2>5. \E r \in Request : producer' = [producer EXCEPT ![p] = r]
    <3>1. CASE \E d \in Delivery, c \in Config, b \in Payload : EnqueueInsert(p, d, c, b)
      BY <3>1, <2>2, <2>3 DEF EnqueueInsert
    <3>2. CASE EnqueueLock(p)
      <4>1. producer' = [producer EXCEPT ![p] = [producer[p] EXCEPT !.step = "locked"]]
        BY <3>2 DEF EnqueueLock
      <4> QED BY <1>0, <2>1, <2>3, <4>1
    <3>3. CASE EnqueueReply(p)
      <4>1. \E step \in EnqueueStep :
              producer' = [producer EXCEPT ![p] = [producer[p] EXCEPT !.step = step]]
        BY <3>3, <2>3 DEF EnqueueReply
      <4> QED BY <1>0, <2>1, <4>1
    <3>4. CASE EnqueueLost(p)
      BY <3>4, <2>4 DEF EnqueueLost
    <3> QED BY <1>2, <3>1, <3>2, <3>3, <3>4 DEF Enqueue
  <2> HIDE DEF Request
  <2> QED BY <1>0, <2>5
<1>3. ASSUME NEW o \in Operator, Replay(o) PROVE operator' \in [Operator -> Reply]
  <2>1. \E r \in Reply : operator' = [operator EXCEPT ![o] = r]
    <3>1. ASSUME NEW d \in Delivery, ReplayLoad(o, d)
          PROVE  \E r \in Reply : operator' = [operator EXCEPT ![o] = r]
      <4>1. deliveries[d].replay_count \in Nat
        BY <1>0 DEF Row
      <4>2. [step |-> "loaded", delivery |-> d, replay_count |-> deliveries[d].replay_count] \in Reply
        BY <4>1
      <4> QED BY <3>1, <4>2 DEF ReplayLoad
    <3>2. CASE ReplayUpdate(o)
      <4> DEFINE d == operator[o].delivery
                 r == [step |-> "replayed", delivery |-> d, replay_count |-> NextReplayCount(o)]
      <4>1. operator' = [operator EXCEPT ![o] = r]
        BY <3>2 DEF ReplayUpdate
      <4>2. d \in Delivery
        BY <3>2 DEF ReplayUpdate, IInv, ReplaysSound
      <4>3. NextReplayCount(o) \in Nat
        BY <1>0, <4>2 DEF NextReplayCount, Row
      <4>4. r \in Reply
        BY <4>2, <4>3
      <4> QED BY <4>1, <4>4
    <3>3. CASE ReplayRefused(o)
      BY <3>3 DEF ReplayRefused, NoReplay
    <3> QED BY <1>3, <3>1, <3>2, <3>3 DEF Replay
  <2> HIDE DEF Reply
  <2> QED BY <1>0, <2>1
<1>4. UNCHANGED producer \/ \E p \in Producer : Enqueue(p)
  BY WhoMoves
<1>5. UNCHANGED operator \/ \E o \in Operator : Replay(o)
  BY WhoMoves
<1> HIDE DEF Request, Reply
<1>6. producer' \in [Producer -> Request] /\ operator' \in [Operator -> Reply]
  BY <1>0, <1>2, <1>3, <1>4, <1>5
<1> QED BY <1>1, <1>6 DEF Request, Reply

LEMMA TypeStep ==
  ASSUME IInv, [Next]_vars
  PROVE  TypeOK'
<1>1. TypeOK
  BY DEF IInv
<1>2. deliveries' \in [Delivery -> Row]
  BY <1>1, DeliveriesFunction, RowTyped
<1> QED BY <1>1, <1>2, ReceiptsTyped, CallsStep, CallersStep DEF TypeOK, CallsTyped
-----------------------------------------------------------------------------
(* How a step may change a call, and which way a row may go. *)

CallKept(w) ==
  /\ pc'[w] = pc[w] /\ ts'[w] = ts[w] /\ config'[w] = config[w]
  /\ picked'[w] = picked[w] /\ claim'[w] = claim[w] /\ result'[w] = result[w]

\* Every step leaves a call as it is, ends it, or is its own next step.
LEMMA CallMoves ==
  ASSUME TypeOK, [Next]_vars, NEW w \in Worker
  PROVE  \/ CallKept(w)
         \/ pc'[w] = "idle" /\ ts'[w] = 0
         \/ \E c \in Config : ClaimBegin(w, c)
         \/ ClaimLock(w)
         \/ ClaimCommit(w)
         \/ Attempt(w)
         \/ RecordBegin(w) \/ RecordInsert(w) \/ RecordLink(w)
<1> USE DEF tables, calls
<1>1. CASE UNCHANGED calls
  BY <1>1 DEF CallKept
<1>2. ASSUME NEW v \in Worker, Finish(v) PROVE CallKept(w) \/ (pc'[w] = "idle" /\ ts'[w] = 0)
  <2>0. CallsTyped
    BY DEF TypeOK, CallsTyped
  <2>1. CASE v = w
    BY <1>2, <2>0, <2>1 DEF Finish, At, CallsTyped
  <2>2. CASE v # w
    BY <1>2, <2>0, <2>2 DEF Finish, At, CallKept, CallsTyped
  <2> QED BY <2>1, <2>2
<1>3. ASSUME NEW v \in Worker, v # w,
             \/ \E c \in Config : ClaimBegin(v, c)
             \/ ClaimLock(v) \/ (ClaimCommit(v) /\ ~Finish(v))
             \/ Attempt(v) \/ RecordBegin(v) \/ RecordInsert(v) \/ RecordLink(v)
      PROVE  CallKept(w)
  BY <1>3 DEF CallKept, TypeOK, ClaimBegin, ClaimLock, ClaimCommit, Attempt, EndpointChanged,
     Post, HttpAnswer, RecordBegin, RecordInsert, RecordLink, At
<1>4. ASSUME NEW v \in Worker,
             RecordRefused(v) \/ RecordCommit(v) \/ RecordFenced(v) \/ Abandon(v)
      PROVE  Finish(v)
  BY <1>4 DEF RecordRefused, RecordCommit, RecordFenced, Abandon
<1>5. CASE Tick \/ (\E p \in Producer : Enqueue(p)) \/ (\E o \in Operator : Replay(o))
  BY <1>1, <1>5 DEF Tick, Enqueue, EnqueueInsert, EnqueueLock, EnqueueReply, EnqueueLost,
     Replay, ReplayLoad, ReplayUpdate, ReplayRefused
<1> QED BY <1>1, <1>2, <1>3, <1>4, <1>5 DEF Next, vars, Claim, Record

\* The row of d in the next state carries what it carried, or comes after it.
Forward(d) ==
  LET row == deliveries[d]
      new == deliveries'[d] IN
  row.status # "absent" =>
    /\ new.status # "absent"
    /\ new.config = row.config
    /\ \/ new.replay_count > row.replay_count
       \/ new.replay_count = row.replay_count /\ new.attempts >= row.attempts

LEMMA RowsForward ==
  ASSUME TypeOK, ResultsSound, [Next]_vars, NEW d \in Delivery
  PROVE  Forward(d)
<1>0. deliveries[d] \in Row
  BY DEF TypeOK
<1>1. ASSUME NEW w \in Worker, RowClaimed(w, d) \/ RowRetired(w, d) PROVE Forward(d)
  <2>1. CASE RowClaimed(w, d)
    <3> DEFINE end == ts[w] + LeaseSeconds[config[w]]
    <3>1. deliveries'[d] = [deliveries[d] EXCEPT !.status = "delivering",
             !.attempts = deliveries[d].attempts + 1, !.lease_expires_at = end]
      BY <2>1 DEF RowClaimed, ClaimedRow
    <3> HIDE DEF end
    <3> QED BY <1>0, <3>1 DEF Forward, Row
  <2>2. CASE RowRetired(w, d)
    BY <1>0, <2>2 DEF RowRetired, RetiredRow, Forward, Row
  <2> QED BY <1>1, <2>1, <2>2
<1>2. ASSUME NEW w \in Worker, RowSettled(w, d) PROVE Forward(d)
  <2>1. result[w].status # "absent"
    BY <1>2 DEF RowSettled, RecordCommit, ResultsSound, ResultSound, Recording
  <2> QED BY <1>0, <1>2, <2>1 DEF RowSettled, SettledRow, Forward, Row
<1>3. ASSUME NEW o \in Operator, RowReplayed(o, d) PROVE Forward(d)
  BY <1>0, <1>3 DEF RowReplayed, ReplayedRow, NextReplayCount, Forward, Row
<1>4. CASE deliveries'[d] = deliveries[d]
  BY <1>0, <1>4 DEF Forward, Row
<1>5. CASE RowQueued(d)
  BY <1>5 DEF RowQueued, Forward
<1> QED BY <1>1, <1>2, <1>3, <1>4, <1>5, RowMoves

LEMMA ClockStep ==
  ASSUME IInv, [Next]_vars
  PROVE  ClockSound'
<1>1. SUFFICES ASSUME NEW w \in Worker PROVE ts'[w] <= now'
  BY DEF ClockSound
<1>2. TypeOK /\ now \in Nat /\ ts[w] \in Int /\ ts[w] <= now
  BY DEF IInv, TypeOK, ClockSound
<1>3. now' \in Nat /\ now' >= now
  BY <1>2, ClockMoves
<1>4. ts'[w] \in {ts[w], 0, now}
  BY <1>2, CallMoves DEF CallKept, ClaimBegin, ClaimLock, ClaimCommit, Attempt, EndpointChanged,
     Post, HttpAnswer, RecordBegin, RecordInsert, RecordLink, Finish, TypeOK
<1> QED BY <1>2, <1>3, <1>4

LEMMA RowsStep ==
  ASSUME IInv, [Next]_vars
  PROVE  RowsSound'
<1>1. SUFFICES ASSUME NEW d \in Delivery PROVE RowSound(deliveries'[d])
  BY DEF RowsSound
<1> DEFINE row == deliveries[d]
<1>2. /\ TypeOK /\ row \in Row /\ RowSound(row)
      /\ MaxAttemptsOf(row) \in Nat \ {0}
  BY ConfigAssumption DEF IInv, TypeOK, RowsSound, MaxAttemptsOf, Row
<1>3. CASE RowQueued(d)
  <2>1. PICK c \in Config, b \in Payload, at \in Int : deliveries'[d] = QueuedRow(c, b, at)
    BY <1>3 DEF RowQueued
  <2>2. MaxAttempts[c] \in Nat \ {0}
    BY ConfigAssumption
  <2> QED BY <2>1, <2>2, BoundsAssumption DEF QueuedRow, AbsentRow, RowSound, MaxAttemptsOf, Waiting
<1>4. ASSUME NEW w \in Worker, RowClaimed(w, d) PROVE RowSound(deliveries'[d])
  <2>1. row.attempts < MaxAttemptsOf(row)
    BY <1>1, <1>4, DeliveryAssumption DEF RowClaimed, ClaimCommit, IInv, PicksSound, PickSound
  <2>2. ts[w] + LeaseSeconds[config[w]] \in Int
    BY <1>2, ConfigAssumption DEF TypeOK
  <2> DEFINE end == ts[w] + LeaseSeconds[config[w]]
  <2>3. deliveries'[d] = [row EXCEPT !.status = "delivering", !.attempts = row.attempts + 1,
                                     !.lease_expires_at = end]
    BY <1>4 DEF RowClaimed, ClaimedRow
  <2>4. end # Null
    BY <2>2, NullAssumption
  <2> HIDE DEF end
  <2> QED BY <1>2, <2>1, <2>3, <2>4 DEF RowSound, MaxAttemptsOf, Waiting, Row
<1>5. ASSUME NEW w \in Worker, RowRetired(w, d) PROVE RowSound(deliveries'[d])
  BY <1>2, <1>5 DEF RowRetired, RetiredRow, RowSound, MaxAttemptsOf, Waiting, Row
<1>6. ASSUME NEW w \in Worker, RowSettled(w, d) PROVE RowSound(deliveries'[d])
  <2>1. pc[w] \in Recording /\ Fenced(w) /\ d = claim[w].delivery_id
    BY <1>6 DEF RowSettled, RecordCommit, Recording
  <2>2. ResultSound(w)
    BY <2>1 DEF IInv, ResultsSound
  <2>3. deliveries'[d] = SettledRow(w, row)
    BY <1>6 DEF RowSettled
  <2>4. result[w].status = "retry_scheduled" => row.attempts < MaxAttemptsOf(row)
    BY <2>1, <2>2 DEF ResultSound, Fenced
  <2> QED BY <1>2, <2>1, <2>2, <2>3, <2>4
          DEF SettledRow, RowSound, MaxAttemptsOf, Waiting, Row, ResultSound, Fenced
<1>7. ASSUME NEW o \in Operator, RowReplayed(o, d) PROVE RowSound(deliveries'[d])
  <2>1. Replayable(row)
    BY <1>7 DEF RowReplayed, ReplayUpdate
  <2> QED BY <1>2, <1>7, <2>1, BoundsAssumption
          DEF RowReplayed, ReplayedRow, NextReplayCount, Replayable, RowSound, MaxAttemptsOf,
              Waiting, Row
<1>8. CASE deliveries'[d] = deliveries[d]
  BY <1>2, <1>8
<1> QED BY <1>2, <1>3, <1>4, <1>5, <1>6, <1>7, <1>8, RowMoves
-----------------------------------------------------------------------------
(* Claims. *)

\* A call holds a claim because it held it before or because it just
\* committed it, and then the row carries exactly that attempt.
LEMMA HoldingMoves ==
  ASSUME IInv, [Next]_vars, NEW w \in Worker, pc'[w] \in Holding
  PROVE  \/ pc[w] \in Holding /\ claim'[w] = claim[w]
         \/ /\ ClaimCommit(w)
            /\ picked[w].candidate \in Delivery
            /\ RowClaimed(w, picked[w].candidate)
            /\ claim'[w] = [delivery_id |-> picked[w].candidate,
                            replay_count |-> deliveries[picked[w].candidate].replay_count,
                            attempts |-> deliveries[picked[w].candidate].attempts + 1]
            /\ \A v \in Worker \ {w} : CallKept(v)
<1>1. TypeOK /\ CallsTyped
  BY DEF IInv, TypeOK, CallsTyped
<1>2. CASE CallKept(w)
  BY <1>2 DEF CallKept
<1>3. CASE \E c \in Config : ClaimBegin(w, c)
  BY <1>1, <1>3 DEF ClaimBegin, At, CallsTyped, Holding, Recording
<1>4. CASE ClaimLock(w)
  BY <1>1, <1>4 DEF ClaimLock, At, CallsTyped, Holding, Recording
<1>5. CASE Attempt(w) \/ RecordBegin(w) \/ RecordInsert(w) \/ RecordLink(w)
  BY <1>5 DEF Attempt, EndpointChanged, Post, HttpAnswer, RecordBegin, RecordInsert, RecordLink,
     Holding, Recording
<1>6. CASE ClaimCommit(w)
  <2>1. ~Finish(w)
    BY <1>1 DEF Finish, At, CallsTyped, Holding, Recording
  <2>2. picked[w].candidate \in Delivery
    BY <1>1, <1>6, <2>1, LocksTyped DEF ClaimCommit
  <2>3. RowClaimed(w, picked[w].candidate)
    BY <1>6, <2>2 DEF ClaimCommit, RowClaimed
  <2>4. \A v \in Worker \ {w} : CallKept(v)
    BY <1>1, <1>6, <2>1 DEF ClaimCommit, At, CallKept, CallsTyped
  <2>5. claim'[w] = [delivery_id |-> picked[w].candidate,
                     replay_count |-> deliveries[picked[w].candidate].replay_count,
                     attempts |-> deliveries[picked[w].candidate].attempts + 1]
    BY <1>1, <1>6, <2>1 DEF ClaimCommit, CallsTyped
  <2> QED BY <1>6, <2>2, <2>3, <2>4, <2>5
<1>7. CASE pc'[w] = "idle"
  BY <1>7 DEF Holding, Recording
<1> QED BY <1>1, <1>2, <1>3, <1>4, <1>5, <1>6, <1>7, CallMoves

\* What a committed claim does to its row.
LEMMA ClaimedColumns ==
  ASSUME IInv, NEW w \in Worker, NEW d \in Delivery, RowClaimed(w, d)
  PROVE  LET row == deliveries[d]
             new == deliveries'[d] IN
         /\ row \in Row
         /\ row.attempts < MaxAttemptsOf(row)
         /\ row.status \in {"queued", "retry_scheduled", "delivering"}
         /\ row.status = "delivering" => row.lease_expires_at <= ts[w]
         /\ new.status = "delivering" /\ new.config = row.config
         /\ new.attempts = row.attempts + 1 /\ new.replay_count = row.replay_count
         /\ new.lease_expires_at = LeaseEnd(w)
<1>1. TypeOK /\ deliveries[d] \in Row
  BY DEF IInv, TypeOK
<1>2. pc[w] = "claim_locked" /\ d = picked[w].candidate /\ d # NoDelivery
  BY DeliveryAssumption DEF RowClaimed, ClaimCommit
<1>3. PickSound(w)
  BY <1>2 DEF IInv, PicksSound
<1>4. deliveries'[d] = [deliveries[d] EXCEPT !.status = "delivering",
         !.attempts = deliveries[d].attempts + 1, !.lease_expires_at = LeaseEnd(w)]
  BY DEF RowClaimed, ClaimedRow, LeaseEnd
<1>5. /\ deliveries[d].attempts < MaxAttemptsOf(deliveries[d])
      /\ deliveries[d].status \in {"queued", "retry_scheduled", "delivering"}
  BY <1>2, <1>3 DEF PickSound, Waiting
<1>6. deliveries[d].status = "delivering" => deliveries[d].lease_expires_at <= ts[w]
  BY <1>2, <1>3 DEF PickSound, Waiting
<1> QED BY <1>1, <1>4, <1>5, <1>6 DEF Row

LEMMA ClaimsStep ==
  ASSUME IInv, [Next]_vars
  PROVE  ClaimsSound'
<1>1. SUFFICES ASSUME NEW w \in Worker, pc'[w] \in Holding PROVE ClaimSound(w)'
  BY DEF ClaimsSound
<1>2. TypeOK /\ ResultsSound
  BY DEF IInv
<1>3. CASE pc[w] \in Holding /\ claim'[w] = claim[w]
  <2> DEFINE d == claim[w].delivery_id
  <2>1. ClaimSound(w)
    BY <1>3 DEF IInv, ClaimsSound
  <2>2. d \in Delivery /\ deliveries[d].status # "absent"
    BY <2>1 DEF ClaimSound
  <2>3. Forward(d)
    BY <1>2, <2>2, RowsForward
  <2>4. deliveries[d] \in Row /\ deliveries'[d] \in Row /\ claim[w] \in Generation
    BY <1>2, <2>2, RowTyped DEF TypeOK
  <2> QED BY <1>3, <2>1, <2>2, <2>3, <2>4 DEF ClaimSound, Forward, MaxAttemptsOf, Row, Generation
<1>4. CASE /\ ClaimCommit(w)
           /\ picked[w].candidate \in Delivery
           /\ RowClaimed(w, picked[w].candidate)
           /\ claim'[w] = [delivery_id |-> picked[w].candidate,
                           replay_count |-> deliveries[picked[w].candidate].replay_count,
                           attempts |-> deliveries[picked[w].candidate].attempts + 1]
  <2> DEFINE d == picked[w].candidate
             row == deliveries[d]
             new == deliveries'[d]
  <2>1. /\ row \in Row /\ new.status = "delivering" /\ new.config = row.config
        /\ row.attempts < MaxAttemptsOf(row)
        /\ new.attempts = row.attempts + 1 /\ new.replay_count = row.replay_count
    BY <1>4, ClaimedColumns
  <2>2. MaxAttemptsOf(row) \in Nat /\ MaxAttemptsOf(new) = MaxAttemptsOf(row) /\ row.attempts \in Nat
    BY <2>1, ConfigAssumption DEF MaxAttemptsOf, Row
  <2>3. row.attempts + 1 \in 1..MaxAttemptsOf(row)
    BY <2>1, <2>2
  <2> QED BY <1>4, <2>1, <2>2, <2>3 DEF ClaimSound, MaxAttemptsOf
<1> QED BY <1>1, <1>3, <1>4, HoldingMoves

LEMMA ClaimedOnceStep ==
  ASSUME IInv, [Next]_vars
  PROVE  ClaimedOnce'
<1>1. ASSUME NEW v \in Worker, NEW w \in Worker, v # w, pc[v] \in Holding,
             claim'[v] = claim[v],
             picked[w].candidate \in Delivery,
             claim'[w] = [delivery_id |-> picked[w].candidate,
                          replay_count |-> deliveries[picked[w].candidate].replay_count,
                          attempts |-> deliveries[picked[w].candidate].attempts + 1]
      PROVE  claim'[v] # claim'[w]
  <2>1. ClaimSound(v)
    BY <1>1 DEF IInv, ClaimsSound
  <2>2. deliveries[picked[w].candidate] \in Row
    BY <1>1 DEF IInv, TypeOK
  <2>3. SUFFICES ASSUME claim[v].delivery_id = picked[w].candidate,
                        claim[v].replay_count = deliveries[picked[w].candidate].replay_count,
                        claim[v].attempts = deliveries[picked[w].candidate].attempts + 1
                 PROVE  FALSE
    BY <1>1
  <2> QED BY <2>1, <2>2, <2>3 DEF ClaimSound, Row
<1>2. SUFFICES ASSUME NEW v \in Worker, NEW w \in Worker, v # w,
                      pc'[v] \in Holding, pc'[w] \in Holding
               PROVE  claim'[v] # claim'[w]
  BY DEF ClaimedOnce
<1>3. CASE /\ pc[v] \in Holding /\ claim'[v] = claim[v]
           /\ pc[w] \in Holding /\ claim'[w] = claim[w]
  BY <1>2, <1>3 DEF IInv, ClaimedOnce
<1>4. CASE ClaimCommit(w) /\ CallKept(v)
  <2>1. pc[v] \in Holding /\ claim'[v] = claim[v] /\ pc[w] \notin Holding
    BY <1>2, <1>4 DEF CallKept, ClaimCommit, Holding, Recording
  <2> QED BY <1>1, <1>2, <2>1, HoldingMoves
<1>5. CASE ClaimCommit(v) /\ CallKept(w)
  <2>1. pc[w] \in Holding /\ claim'[w] = claim[w] /\ pc[v] \notin Holding
    BY <1>2, <1>5 DEF CallKept, ClaimCommit, Holding, Recording
  <2> QED BY <1>1, <1>2, <2>1, HoldingMoves
<1> QED BY <1>2, <1>3, <1>4, <1>5, HoldingMoves
-----------------------------------------------------------------------------
(* Row locks. *)

LEMMA PickMoves ==
  ASSUME IInv, [Next]_vars, NEW w \in Worker, pc'[w] = "claim_locked"
  PROVE  (pc[w] = "claim_locked" /\ CallKept(w)) \/ ClaimLock(w)
<1>1. TypeOK /\ CallsTyped
  BY DEF IInv, TypeOK, CallsTyped
<1>2. CASE CallKept(w)
  BY <1>2 DEF CallKept
<1>3. CASE \E c \in Config : ClaimBegin(w, c)
  BY <1>1, <1>3 DEF ClaimBegin, At, CallsTyped
<1>4. CASE ClaimCommit(w)
  BY <1>1, <1>4 DEF ClaimCommit, Finish, At, CallsTyped
<1>5. CASE Attempt(w) \/ RecordBegin(w) \/ RecordInsert(w) \/ RecordLink(w)
  BY <1>1, <1>5 DEF Attempt, EndpointChanged, Post, HttpAnswer, RecordBegin, RecordInsert,
     RecordLink, At, CallsTyped
<1> QED BY <1>1, <1>2, <1>3, <1>4, <1>5, CallMoves

\* What ClaimLock picks, on tables it leaves alone.
LEMMA Picked ==
  ASSUME IInv, NEW w \in Worker, ClaimLock(w)
  PROVE  /\ UNCHANGED deliveries /\ ts'[w] = ts[w]
         /\ \A d \in picked'[w].expired : LeaseOver(w, d) /\ Lockable(d)
         /\ picked'[w].candidate # NoDelivery =>
              /\ Lockable(picked'[w].candidate)
              /\ deliveries[picked'[w].candidate].attempts <
                   MaxAttemptsOf(deliveries[picked'[w].candidate])
              /\ \/ deliveries[picked'[w].candidate].status \in Waiting
                 \/ picked'[w].candidate \in picked'[w].expired
<1>1. picked \in [Worker -> Pick]
  BY DEF IInv, TypeOK
<1>2. PICK batch \in SUBSET Expired(w), d \in Delivery \cup {NoDelivery} :
        IsCandidate(w, batch, d) /\ picked' = [picked EXCEPT ![w] = [expired |-> batch, candidate |-> d]]
  BY DEF ClaimLock
<1>3. picked'[w].expired = batch /\ picked'[w].candidate = d
  BY <1>1, <1>2
<1>4. d # NoDelivery => d \in Due(w, batch)
  BY <1>2 DEF IsCandidate
<1>5. \A e \in batch : LeaseOver(w, e) /\ Lockable(e)
  BY DEF Expired
<1>6. UNCHANGED deliveries /\ ts'[w] = ts[w]
  BY DEF ClaimLock, tables
<1> QED BY <1>3, <1>4, <1>5, <1>6 DEF Due

LEMMA LocksStep ==
  ASSUME IInv, [Next]_vars
  PROVE  LocksExclusive'
<1>0. CallsTyped
  BY DEF IInv, TypeOK, CallsTyped
<1>1. ASSUME NEW v \in Worker, NEW w \in Worker, v # w, NEW d \in Delivery,
             pc[v] = "claim_locked", CallKept(v), d \in picked'[v].expired \cup {picked'[v].candidate},
             ClaimLock(w), d \in picked'[w].expired \cup {picked'[w].candidate}
      PROVE  FALSE
  <2>1. Lockable(d)
    BY <1>1, Picked, DeliveryAssumption
  <2>2. WorkerLocks(v, d)
    BY <1>1 DEF CallKept, WorkerLocks, Rows
  <2> QED BY <2>1, <2>2 DEF Lockable, ForUpdate
<1>2. SUFFICES ASSUME NEW d \in Delivery, NEW v \in Worker, NEW w \in Worker, v # w,
                      WorkerLocks(v, d)', WorkerLocks(w, d)'
               PROVE  FALSE
  BY DEF LocksExclusive
<1>3. /\ pc'[v] = "claim_locked" /\ d \in picked'[v].expired \cup {picked'[v].candidate}
      /\ pc'[w] = "claim_locked" /\ d \in picked'[w].expired \cup {picked'[w].candidate}
  BY <1>2 DEF WorkerLocks, Rows
<1>4. CASE CallKept(v) /\ CallKept(w)
  BY <1>2, <1>3, <1>4 DEF CallKept, WorkerLocks, Rows, IInv, LocksExclusive
<1>5. ~(ClaimLock(v) /\ ClaimLock(w))
  BY <1>0, <1>2 DEF ClaimLock, At, CallsTyped
<1> QED BY <1>1, <1>2, <1>3, <1>4, <1>5, PickMoves

\* A row locked by a claim is changed by that claim's commit alone.
LEMMA LockedRowKept ==
  ASSUME IInv, [Next]_vars, NEW w \in Worker, NEW d \in Delivery,
         WorkerLocks(w, d), pc'[w] = "claim_locked"
  PROVE  deliveries'[d] = deliveries[d]
<1>1. TypeOK /\ CallsTyped /\ pc[w] = "claim_locked" /\ PickSound(w)
  BY DEF IInv, TypeOK, CallsTyped, WorkerLocks, PicksSound
<1>2. deliveries[d].status # "absent"
  BY <1>1, DeliveryAssumption DEF WorkerLocks, Rows, PickSound, Waiting
<1>3. ~RowQueued(d)
  BY <1>2 DEF RowQueued
<1>4. ASSUME NEW v \in Worker, RowClaimed(v, d) \/ RowRetired(v, d) PROVE FALSE
  <2>1. ClaimCommit(v) /\ WorkerLocks(v, d)
    BY <1>4 DEF RowClaimed, RowRetired, ClaimCommit, WorkerLocks, Rows
  <2>2. v = w
    BY <2>1 DEF IInv, LocksExclusive
  <2> QED BY <1>1, <2>1, <2>2 DEF ClaimCommit, Finish, At, CallsTyped
<1>5. ForUpdate(d)
  BY DEF ForUpdate
<1>6. ASSUME NEW v \in Worker, RowSettled(v, d) PROVE FALSE
  BY <1>5, <1>6 DEF RowSettled, RecordCommit
<1>7. ASSUME NEW o \in Operator, RowReplayed(o, d) PROVE FALSE
  BY <1>5, <1>7 DEF RowReplayed, ReplayUpdate
<1> QED BY <1>1, <1>3, <1>4, <1>6, <1>7, RowMoves

LEMMA PicksStep ==
  ASSUME IInv, [Next]_vars
  PROVE  PicksSound'
<1>1. SUFFICES ASSUME NEW w \in Worker, pc'[w] = "claim_locked" PROVE PickSound(w)'
  BY DEF PicksSound
<1>2. CASE pc[w] = "claim_locked" /\ CallKept(w)
  <2>1. PickSound(w) /\ picked'[w] = picked[w] /\ ts'[w] = ts[w]
    BY <1>2 DEF IInv, PicksSound, CallKept
  <2>2. picked[w].expired \subseteq Delivery /\ picked[w].candidate \in Delivery \cup {NoDelivery}
    BY <1>2, LocksTyped DEF IInv
  <2>3. \A d \in picked[w].expired : deliveries'[d] = deliveries[d]
    BY <1>1, <1>2, <2>2, LockedRowKept DEF WorkerLocks, Rows
  <2>4. picked[w].candidate # NoDelivery =>
          deliveries'[picked[w].candidate] = deliveries[picked[w].candidate]
    BY <1>1, <1>2, <2>2, LockedRowKept DEF WorkerLocks, Rows
  <2> QED BY <2>1, <2>3, <2>4 DEF PickSound, MaxAttemptsOf
<1>3. CASE ClaimLock(w)
  BY <1>3, Picked DEF PickSound, LeaseOver, MaxAttemptsOf
<1> QED BY <1>1, <1>2, <1>3, PickMoves
-----------------------------------------------------------------------------
(* Results, leases and receipts. *)

LEMMA ResultsStep ==
  ASSUME IInv, [Next]_vars
  PROVE  ResultsSound'
<1>1. TypeOK /\ CallsTyped /\ ResultsSound
  BY DEF IInv, TypeOK, CallsTyped
<1>2. SUFFICES ASSUME NEW w \in Worker, pc'[w] \in Recording PROVE ResultSound(w)'
  BY DEF ResultsSound
<1> DEFINE d == claim[w].delivery_id
<1>3. ASSUME pc[w] \in Holding
      PROVE  d \in Delivery /\ MaxAttemptsOf(deliveries'[d]) = MaxAttemptsOf(deliveries[d])
  <2>1. d \in Delivery /\ deliveries[d].status # "absent"
    BY <1>3 DEF IInv, ClaimsSound, ClaimSound
  <2> QED BY <1>1, <2>1, RowsForward DEF Forward, MaxAttemptsOf
<1>4. CASE pc[w] \in Recording /\ claim'[w] = claim[w] /\ result'[w] = result[w]
  <2>1. ResultSound(w) /\ pc[w] \in Holding
    BY <1>1, <1>4 DEF ResultsSound, Holding
  <2> QED BY <1>3, <1>4, <2>1 DEF ResultSound, MaxAttemptsOf
<1>5. CASE HttpAnswer(w)
  <2>1. PICK response \in Response, skew \in Skew :
          result' = [result EXCEPT ![w] = ResultOf(w, response, now + skew)]
    BY <1>5 DEF HttpAnswer
  <2>2. result'[w] = ResultOf(w, response, now + skew) /\ claim'[w] = claim[w]
    BY <1>1, <1>5, <2>1 DEF HttpAnswer, CallsTyped
  <2>3. pc[w] \in Holding
    BY <1>5 DEF HttpAnswer, Holding
  <2> HIDE DEF d
  <2>4. ResultOf(w, response, now + skew).status \in
          {"delivering", "retry_scheduled", "delivered", "dead_letter"}
    BY DEF ResultOf
  <2>5. ResultOf(w, response, now + skew).status = "retry_scheduled" => MayRetry(w)
    BY DEF ResultOf
  <2>6. ResultOf(w, response, now + skew).outcome = "delivered" =>
          ResultOf(w, response, now + skew).status = "delivered"
    BY DEF ResultOf
  <2>7. ResultOf(w, response, now + skew).outcome # "endpoint_configuration_changed"
    BY DEF ResultOf
  <2> QED BY <1>3, <2>2, <2>3, <2>4, <2>5, <2>6, <2>7 DEF ResultSound, MayRetry, MaxAttemptsOf, d
<1>6. CASE EndpointChanged(w)
  BY <1>1, <1>6 DEF EndpointChanged, ResultSound, CallsTyped
<1>7. CASE ClaimCommit(w) \/ Post(w) \/ (\E c \in Config : ClaimBegin(w, c)) \/ ClaimLock(w)
  BY <1>1, <1>2, <1>7 DEF ClaimCommit, Post, ClaimBegin, ClaimLock, Finish, At, CallsTyped, Recording
<1>8. CASE RecordBegin(w) \/ RecordInsert(w) \/ RecordLink(w)
  BY <1>4, <1>8 DEF RecordBegin, RecordInsert, RecordLink, Recording
<1>9. CASE CallKept(w)
  BY <1>2, <1>4, <1>9 DEF CallKept
<1>10. pc'[w] # "idle"
  BY <1>2 DEF Recording
<1> QED BY <1>1, <1>5, <1>6, <1>7, <1>8, <1>9, <1>10, CallMoves DEF Attempt

\* A lease that is not over keeps its row as the claim left it.
LEMMA LeasesStep ==
  ASSUME IInv, [Next]_vars
  PROVE  LeasesHeld'
<1>1. TypeOK /\ CallsTyped /\ ClockSound
  BY DEF IInv, TypeOK, CallsTyped
<1>2. SUFFICES ASSUME NEW w \in Worker, pc'[w] \in {"claimed", "posting"} PROVE LeaseHeld(w)'
  BY DEF LeasesHeld
<1>3. now \in Nat /\ now' \in Nat /\ now <= now'
  BY <1>1, ClockMoves
<1>4. CASE /\ pc[w] \in {"claimed", "posting"}
           /\ claim'[w] = claim[w] /\ ts'[w] = ts[w] /\ config'[w] = config[w]
  <2> DEFINE d == claim[w].delivery_id
             row == deliveries[d]
  <2>1. LeaseHeld(w) /\ ClaimSound(w) /\ pc[w] \in Holding
    BY <1>4 DEF IInv, LeasesHeld, ClaimsSound, Holding
  <2>2. LeaseEnd(w)' = LeaseEnd(w) /\ LeaseEnd(w) \in Int
    BY <1>1, <1>4, ConfigAssumption DEF LeaseEnd, CallsTyped
  <2>3. CASE LeaseEnd(w) <= now
    BY <1>3, <2>2, <2>3 DEF LeaseHeld
  <2>4. CASE /\ ~(LeaseEnd(w) <= now)
             /\ claim[w] = GenerationOf(d)
             /\ row.status = "delivering" /\ row.lease_expires_at = LeaseEnd(w)
    <3>1. d \in Delivery
      BY <2>1 DEF ClaimSound
    <3>2. ASSUME NEW v \in Worker, RowClaimed(v, d) PROVE FALSE
      <4>1. row.lease_expires_at <= ts[v] /\ ts[v] <= now /\ ts[v] \in Int
        BY <1>1, <2>4, <3>1, <3>2, ClaimedColumns DEF ClockSound, CallsTyped
      <4> QED BY <1>3, <2>2, <2>4, <4>1
    <3>3. ASSUME NEW v \in Worker, RowRetired(v, d) PROVE FALSE
      <4>1. pc[v] = "claim_locked" /\ d \in picked[v].expired
        BY <3>3 DEF RowRetired, ClaimCommit
      <4>2. row.lease_expires_at <= ts[v] /\ ts[v] <= now /\ ts[v] \in Int
        BY <1>1, <4>1 DEF IInv, PicksSound, PickSound, ClockSound, CallsTyped
      <4> QED BY <1>3, <2>2, <2>4, <4>2
    <3>4. ASSUME NEW v \in Worker, RowSettled(v, d) PROVE FALSE
      <4>1. pc[v] \in Holding /\ v # w
        BY <1>4, <3>4 DEF RowSettled, RecordCommit, Holding, Recording
      <4>2. claim[v].delivery_id = d /\ claim[v].replay_count = row.replay_count
            /\ claim[v].attempts = row.attempts
        BY <3>4 DEF RowSettled, RecordCommit, Fenced
      <4>3. claim[v] \in Generation
        BY <1>1 DEF CallsTyped
      <4>4. claim[v] = claim[w]
        BY <2>4, <4>2, <4>3 DEF Generation, GenerationOf
      <4> QED BY <2>1, <4>1, <4>4 DEF IInv, ClaimedOnce
    <3>5. ASSUME NEW o \in Operator, RowReplayed(o, d) PROVE FALSE
      BY <2>4, <3>5 DEF RowReplayed, ReplayUpdate, Replayable
    <3>6. ~RowQueued(d)
      BY <2>4 DEF RowQueued
    <3>7. deliveries'[d] = deliveries[d]
      BY <1>1, <3>1, <3>2, <3>3, <3>4, <3>5, <3>6, RowMoves
    <3> QED BY <1>4, <2>2, <2>4, <3>7 DEF LeaseHeld, GenerationOf
  <2> QED BY <2>1, <2>3, <2>4 DEF LeaseHeld
<1>5. CASE ClaimCommit(w) /\ pc[w] \notin Holding
  <2> DEFINE d == picked[w].candidate
  <2>1. pc'[w] \in Holding
    BY <1>2 DEF Holding
  <2>2. /\ d \in Delivery /\ RowClaimed(w, d)
        /\ claim'[w] = [delivery_id |-> d, replay_count |-> deliveries[d].replay_count,
                        attempts |-> deliveries[d].attempts + 1]
    BY <1>5, <2>1, HoldingMoves
  <2>3. /\ deliveries'[d].status = "delivering"
        /\ deliveries'[d].attempts = deliveries[d].attempts + 1
        /\ deliveries'[d].replay_count = deliveries[d].replay_count
        /\ deliveries'[d].lease_expires_at = LeaseEnd(w)
    BY <2>2, ClaimedColumns
  <2>4. ts'[w] = ts[w] /\ config'[w] = config[w]
    BY <1>1, <1>2, <1>5 DEF ClaimCommit, Finish, At, CallsTyped
  <2> QED BY <2>2, <2>3, <2>4 DEF LeaseHeld, LeaseEnd, GenerationOf
<1>6. CASE Post(w)
  BY <1>4, <1>6 DEF Post
<1>7. CASE CallKept(w)
  BY <1>2, <1>4, <1>7 DEF CallKept
<1>8. CASE \/ (\E c \in Config : ClaimBegin(w, c)) \/ ClaimLock(w)
           \/ EndpointChanged(w) \/ HttpAnswer(w)
           \/ RecordBegin(w) \/ RecordInsert(w) \/ RecordLink(w)
  BY <1>1, <1>2, <1>8 DEF ClaimBegin, ClaimLock, EndpointChanged, HttpAnswer, RecordBegin,
     RecordInsert, RecordLink, At, CallsTyped
<1>9. ClaimCommit(w) => pc[w] \notin Holding
  BY DEF ClaimCommit, Holding, Recording
<1> QED BY <1>1, <1>2, <1>5, <1>6, <1>7, <1>8, <1>9, CallMoves DEF Attempt

\* Where a receipt of the next state comes from.
LEMMA ReceiptMoves ==
  ASSUME IInv, [Next]_vars, NEW x \in receipts'
  PROVE  \/ x \in receipts
         \/ \E w \in Worker : /\ ClaimCommit(w)
                              /\ \E d \in picked[w].expired : x = LeaseExpiredReceipt(d)
         \/ \E w \in Worker : RecordCommit(w) /\ x = OwnReceipt(w)
<1> USE DEF tables, calls
<1>1. ASSUME NEW w \in Worker, ClaimCommit(w), x \notin receipts
      PROVE  \E d \in picked[w].expired : x = LeaseExpiredReceipt(d)
  BY <1>1 DEF ClaimCommit, LeaseExpiredReceipts
<1>2. ASSUME NEW w \in Worker, RecordCommit(w), x \notin receipts PROVE x = OwnReceipt(w)
  BY <1>2 DEF RecordCommit
<1>3. \/ UNCHANGED receipts
      \/ \E w \in Worker : ClaimCommit(w) \/ RecordCommit(w)
  BY WhoMoves
<1> QED BY <1>1, <1>2, <1>3
LEMMA ReceiptsStep ==
  ASSUME IInv, [Next]_vars
  PROVE  ReceiptsSound'
<1>1. TypeOK /\ CallsTyped /\ ResultsSound
  BY DEF IInv, TypeOK, CallsTyped
<1>2. ASSUME NEW d \in Delivery, deliveries[d].status # "absent"
      PROVE  /\ deliveries'[d].status # "absent"
             /\ deliveries[d].replay_count <= deliveries'[d].replay_count
             /\ deliveries[d].replay_count \in Nat /\ deliveries'[d].replay_count \in Nat
  BY <1>1, <1>2, RowsForward, RowTyped DEF Forward, TypeOK, Row
<1>3. SUFFICES ASSUME NEW x \in receipts'
               PROVE  /\ deliveries'[x.delivery_id].status # "absent"
                      /\ x.replay_count <= deliveries'[x.delivery_id].replay_count
  BY DEF ReceiptsSound
<1>4. CASE x \in receipts
  <2>1. /\ x.delivery_id \in Delivery /\ x.replay_count \in Nat
        /\ deliveries[x.delivery_id].status # "absent"
        /\ x.replay_count <= deliveries[x.delivery_id].replay_count
    BY <1>1, <1>4 DEF TypeOK, Receipt, IInv, ReceiptsSound
  <2> QED BY <1>2, <2>1
<1>5. ASSUME NEW w \in Worker, ClaimCommit(w), NEW d \in picked[w].expired, x = LeaseExpiredReceipt(d)
      PROVE  /\ deliveries'[x.delivery_id].status # "absent"
             /\ x.replay_count <= deliveries'[x.delivery_id].replay_count
  <2>1. d \in Delivery /\ deliveries[d].status # "absent"
    BY <1>1, <1>5, LocksTyped DEF ClaimCommit, IInv, PicksSound, PickSound
  <2>2. x.delivery_id = d /\ x.replay_count = deliveries[d].replay_count
    BY <1>5 DEF LeaseExpiredReceipt
  <2> QED BY <1>2, <2>1, <2>2
<1>6. ASSUME NEW w \in Worker, RecordCommit(w), x = OwnReceipt(w)
      PROVE  /\ deliveries'[x.delivery_id].status # "absent"
             /\ x.replay_count <= deliveries'[x.delivery_id].replay_count
  <2>1. claim[w].delivery_id \in Delivery /\ deliveries[claim[w].delivery_id].status # "absent"
    BY <1>6 DEF RecordCommit, IInv, ClaimsSound, ClaimSound, Holding, Recording
  <2>2. /\ x.delivery_id = claim[w].delivery_id
        /\ x.replay_count = deliveries[claim[w].delivery_id].replay_count
    BY <1>6 DEF OwnReceipt, RecordCommit, Fenced
  <2> QED BY <1>2, <2>1, <2>2
<1> QED BY <1>3, <1>4, <1>5, <1>6, ReceiptMoves

LEMMA ReplaysStep ==
  ASSUME IInv, [Next]_vars
  PROVE  ReplaysSound'
<1> USE DEF tables, calls
<1>1. operator \in [Operator ->
        [step : {"idle", "loaded", "replayed"}, delivery : Delivery \cup {NoDelivery},
         replay_count : Nat]] /\ ReplaysSound
  BY DEF IInv, TypeOK
<1>2. ASSUME NEW o \in Operator, NEW d \in Delivery, ReplayLoad(o, d) PROVE ReplaysSound'
  BY <1>1, <1>2 DEF ReplayLoad, ReplaysSound
<1>3. ASSUME NEW o \in Operator, ReplayUpdate(o) PROVE ReplaysSound'
  BY <1>1, <1>3 DEF ReplayUpdate, ReplaysSound
<1>4. ASSUME NEW o \in Operator, ReplayRefused(o) PROVE ReplaysSound'
  BY <1>1, <1>4 DEF ReplayRefused, ReplaysSound, NoReplay
<1>5. CASE UNCHANGED operator
  BY <1>1, <1>5 DEF ReplaysSound
<1>6. UNCHANGED operator \/ \E o \in Operator : Replay(o)
  BY WhoMoves
<1> QED BY <1>2, <1>3, <1>4, <1>5, <1>6 DEF Replay

\* What a terminal receipt says of its row.
Final(x, row) ==
  /\ x.outcome = "delivered" =>
       row.status = "delivered" /\ row.replay_count = x.replay_count /\ row.attempts = x.attempt
  /\ x.outcome = "endpoint_configuration_changed" /\ row.replay_count = x.replay_count =>
       row.status = "dead_letter" /\ row.attempts = x.attempt

\* A terminal receipt that was there stays final: no update applies to a
\* delivered row, and only a replay, which opens another cycle, to a dead one.
LEMMA FinalKept ==
  ASSUME IInv, [Next]_vars, NEW x \in receipts
  PROVE  Final(x, deliveries'[x.delivery_id])
<1> DEFINE d == x.delivery_id
           row == deliveries[d]
<1>1. /\ TypeOK /\ d \in Delivery /\ row \in Row /\ x.replay_count \in Nat
      /\ Final(x, row) /\ row.status # "absent" /\ x.replay_count <= row.replay_count
  BY DEF IInv, TypeOK, Receipt, TerminalReceiptIsFinal, Final, ReceiptsSound
<1>2. CASE deliveries'[d] = row
  BY <1>1, <1>2
<1>3. CASE RowQueued(d)
  BY <1>1, <1>3 DEF RowQueued
<1>4. ASSUME NEW w \in Worker, RowClaimed(w, d) PROVE Final(x, deliveries'[d])
  <2>1. row.status \notin {"delivered", "dead_letter"}
        /\ deliveries'[d].replay_count = row.replay_count
    BY <1>1, <1>4, ClaimedColumns
  <2> QED BY <1>1, <2>1 DEF Final
<1>5. ASSUME NEW w \in Worker, RowRetired(w, d) PROVE Final(x, deliveries'[d])
  <2>1. row.status = "delivering"
    BY <1>5 DEF RowRetired, ClaimCommit, IInv, PicksSound, PickSound
  <2>2. deliveries'[d].replay_count = row.replay_count
    BY <1>1, <1>5 DEF RowRetired, RetiredRow, Row
  <2> QED BY <1>1, <2>1, <2>2 DEF Final
<1>6. ASSUME NEW w \in Worker, RowSettled(w, d) PROVE Final(x, deliveries'[d])
  <2>1. row.status = "delivering"
    BY <1>6 DEF RowSettled, RecordCommit, Fenced
  <2>2. deliveries'[d].replay_count = row.replay_count
    BY <1>1, <1>6 DEF RowSettled, SettledRow, Row
  <2> QED BY <1>1, <2>1, <2>2 DEF Final
<1>7. ASSUME NEW o \in Operator, RowReplayed(o, d) PROVE Final(x, deliveries'[d])
  <2>1. row.status = "dead_letter"
    BY <1>7 DEF RowReplayed, ReplayUpdate, Replayable
  <2>2. deliveries'[d].replay_count = row.replay_count + 1
    BY <1>1, <1>7 DEF RowReplayed, ReplayedRow, NextReplayCount, Row
  <2>3. row.replay_count \in Nat
    BY <1>1 DEF Row
  <2> QED BY <1>1, <2>1, <2>2, <2>3 DEF Final
<1> QED BY <1>1, <1>2, <1>3, <1>4, <1>5, <1>6, <1>7, RowMoves

LEMMA TerminalStep ==
  ASSUME IInv, [Next]_vars
  PROVE  TerminalReceiptIsFinal'
<1>1. SUFFICES ASSUME NEW x \in receipts' PROVE Final(x, deliveries'[x.delivery_id])
  BY DEF TerminalReceiptIsFinal, Final
<1>2. CASE x \in receipts
  BY <1>2, FinalKept
<1>3. ASSUME NEW d, x = LeaseExpiredReceipt(d) PROVE Final(x, deliveries'[x.delivery_id])
  BY <1>3 DEF LeaseExpiredReceipt, Final
<1>4. ASSUME NEW w \in Worker, RecordCommit(w), x = OwnReceipt(w)
      PROVE  Final(x, deliveries'[x.delivery_id])
  <2> DEFINE d == claim[w].delivery_id
  <2>1. TypeOK /\ d \in Delivery /\ ResultSound(w) /\ Fenced(w)
    BY <1>4 DEF IInv, RecordCommit, ClaimsSound, ClaimSound, ResultsSound, Holding, Recording
  <2>2. deliveries[d] \in Row
    BY <2>1 DEF TypeOK
  <2>3. deliveries'[d] = SettledRow(w, deliveries[d])
    BY <1>4, <2>1 DEF RecordCommit, TypeOK
  <2>4. /\ deliveries'[d].status = result[w].status
        /\ deliveries'[d].replay_count = claim[w].replay_count
        /\ deliveries'[d].attempts = claim[w].attempts
    BY <2>1, <2>2, <2>3 DEF SettledRow, Fenced, Row
  <2> QED BY <1>4, <2>1, <2>4 DEF OwnReceipt, Final, ResultSound
<1> QED BY <1>1, <1>2, <1>3, <1>4, ReceiptMoves

-----------------------------------------------------------------------------
(* The theorems. *)

LEMMA InitInv == Init => IInv
<1> SUFFICES ASSUME Init PROVE IInv
  OBVIOUS
<1> USE DEF Init, NoCalls
<1>1. TypeOK
  BY DefaultsTyped DEF TypeOK, Step, NoPick, Pick, NoEnqueue, EnqueueStep, NoReplay
<1>2. RowsSound
  BY DefaultsTyped, ConfigAssumption, BoundsAssumption, NullAssumption
     DEF RowsSound, RowSound, AbsentRow, MaxAttemptsOf, Waiting
<1>3. ClockSound /\ ClaimsSound /\ ClaimedOnce /\ PicksSound /\ ResultsSound /\ LeasesHeld
  BY DEF ClockSound, ClaimsSound, ClaimedOnce, PicksSound, ResultsSound, LeasesHeld, Holding,
     Recording
<1>4. LocksExclusive /\ ReceiptsSound /\ ReplaysSound /\ TerminalReceiptIsFinal
  BY DEF LocksExclusive, WorkerLocks, ReceiptsSound, ReplaysSound, NoReplay, TerminalReceiptIsFinal
<1> QED BY <1>1, <1>2, <1>3, <1>4 DEF IInv

\* The invariant is inductive: one lemma above per conjunct.
LEMMA NextInv == IInv /\ [Next]_vars => IInv'
<1> SUFFICES ASSUME IInv, [Next]_vars PROVE IInv'
  OBVIOUS
<1> QED BY TypeStep, ClockStep, RowsStep, ClaimsStep, ClaimedOnceStep, PicksStep, LocksStep,
           ResultsStep, LeasesStep, ReceiptsStep, ReplaysStep, TerminalStep DEF IInv

THEOREM Invariance == Spec => []IInv
<1>1. Init => IInv
  BY InitInv
<1>2. IInv /\ [Next]_vars => IInv'
  BY NextInv
<1> QED BY <1>1, <1>2, PTL DEF Spec
\* Columns and variables keep their types.
THEOREM TypeCorrect == Spec => []TypeOK
BY Invariance, PTL DEF IInv

\* No statement trips a CHECK of webhook_deliveries.
THEOREM ConstraintsHold == Spec => []RowConstraints
<1>1. IInv => RowConstraints
  BY DEF IInv, RowsSound, RowSound, RowConstraints
<1> QED BY Invariance, <1>1, PTL

\* No queued or retry-scheduled row is out of attempts.
THEOREM NoRowStranded == Spec => []WaitingRowsClaimable
<1>1. IInv => WaitingRowsClaimable
  BY DEF IInv, RowsSound, RowSound, WaitingRowsClaimable
<1> QED BY Invariance, <1>1, PTL

\* A "delivered" receipt, and a changed endpoint, are never followed.
THEOREM SuccessIsFinal == Spec => []TerminalReceiptIsFinal
BY Invariance, PTL DEF IInv

\* Two POSTs of one delivery overlap only past the lease of one of them: two
\* leases in force would both be the lease of the row, hence the same claim.
THEOREM LeasesExclude == Spec => []NoOverlapWithinLease
<1>1. ASSUME IInv PROVE NoOverlapWithinLease
  <2>1. SUFFICES ASSUME NEW v \in Worker, NEW w \in Worker, v # w,
                        pc[v] = "posting", pc[w] = "posting",
                        claim[v].delivery_id = claim[w].delivery_id
                 PROVE  claim[v] # claim[w] /\ (LeaseEnd(v) <= now \/ LeaseEnd(w) <= now)
    BY DEF NoOverlapWithinLease
  <2>2. claim[v] # claim[w]
    BY <1>1, <2>1 DEF IInv, ClaimedOnce, Holding
  <2>3. LeaseHeld(v) /\ LeaseHeld(w)
    BY <1>1, <2>1 DEF IInv, LeasesHeld
  <2> QED BY <2>1, <2>2, <2>3 DEF LeaseHeld
<1> QED BY Invariance, <1>1, PTL

\* Only its holder changes a leased row before the lease is over.
THEOREM HolderProtected == Spec => LeaseProtectsHolder
<1> DEFINE Protected ==
      \A d \in Delivery : LET row == deliveries[d] IN
        row.status = "delivering" /\ deliveries'[d] # row =>
          \/ row.lease_expires_at <= now
          \/ \E w \in Worker :
               /\ claim[w] = [delivery_id |-> d, replay_count |-> row.replay_count,
                              attempts |-> row.attempts]
               /\ pc'[w] = "idle"
<1>1. ASSUME IInv, [Next]_vars PROVE Protected
  <2>1. SUFFICES ASSUME NEW d \in Delivery, deliveries[d].status = "delivering",
                        deliveries'[d] # deliveries[d]
                 PROVE  \/ deliveries[d].lease_expires_at <= now
                        \/ \E w \in Worker :
                             /\ claim[w] = [delivery_id |-> d,
                                            replay_count |-> deliveries[d].replay_count,
                                            attempts |-> deliveries[d].attempts]
                             /\ pc'[w] = "idle"
    OBVIOUS
  <2>2. /\ TypeOK /\ CallsTyped /\ ClockSound /\ now \in Int
        /\ deliveries[d].lease_expires_at \in Int
    BY <1>1, <2>1, NullAssumption DEF IInv, TypeOK, CallsTyped, RowsSound, RowSound, Row
  <2>3. ASSUME NEW w \in Worker, deliveries[d].lease_expires_at <= ts[w]
        PROVE  deliveries[d].lease_expires_at <= now
    BY <2>2, <2>3 DEF ClockSound, CallsTyped
  <2>4. ASSUME NEW w \in Worker, RowClaimed(w, d) PROVE deliveries[d].lease_expires_at <= now
    BY <1>1, <2>1, <2>3, <2>4, ClaimedColumns
  <2>5. ASSUME NEW w \in Worker, RowRetired(w, d) PROVE deliveries[d].lease_expires_at <= now
    BY <1>1, <2>3, <2>5 DEF RowRetired, ClaimCommit, IInv, PicksSound, PickSound
  <2>6. ASSUME NEW w \in Worker, RowSettled(w, d)
        PROVE  /\ claim[w] = [delivery_id |-> d, replay_count |-> deliveries[d].replay_count,
                              attempts |-> deliveries[d].attempts]
               /\ pc'[w] = "idle"
    BY <2>2, <2>6 DEF RowSettled, RecordCommit, Fenced, Finish, At, CallsTyped, Generation
  <2>7. ~RowQueued(d) /\ \A o \in Operator : ~RowReplayed(o, d)
    BY <2>1 DEF RowQueued, RowReplayed, ReplayUpdate, Replayable
  <2> QED BY <1>1, <2>1, <2>2, <2>4, <2>5, <2>6, <2>7, RowMoves
<1>2. Spec => [][Protected]_vars
  BY <1>1, Invariance, PTL DEF Spec
<1> QED BY <1>2 DEF LeaseProtectsHolder

\* History only grows.
THEOREM HistoryIsKept == Spec => HistoryOnlyGrows
<1> DEFINE Kept ==
      /\ receipts \subseteq receipts'
      /\ \A d \in Delivery : LET row == deliveries[d]
                                 new == deliveries'[d] IN
           /\ row.status = "delivered" => new = row
           /\ \/ new.replay_count > row.replay_count
              \/ new.replay_count = row.replay_count /\ new.attempts >= row.attempts
<1>1. ASSUME IInv, [Next]_vars PROVE Kept
  <2>1. receipts \subseteq receipts'
    BY <1>1, WhoMoves DEF ClaimCommit, RecordCommit
  <2>2. ASSUME NEW d \in Delivery, deliveries[d].status = "delivered"
        PROVE  deliveries'[d] = deliveries[d]
    <3>1. ASSUME NEW w \in Worker, RowClaimed(w, d) \/ RowRetired(w, d) \/ RowSettled(w, d)
          PROVE  FALSE
      BY <1>1, <2>2, <3>1, ClaimedColumns
         DEF RowRetired, ClaimCommit, IInv, PicksSound, PickSound, RowSettled, RecordCommit, Fenced
    <3>2. ~RowQueued(d) /\ \A o \in Operator : ~RowReplayed(o, d)
      BY <2>2 DEF RowQueued, RowReplayed, ReplayUpdate, Replayable
    <3> QED BY <1>1, <3>1, <3>2, RowMoves DEF IInv
  <2>3. ASSUME NEW d \in Delivery
        PROVE  \/ deliveries'[d].replay_count > deliveries[d].replay_count
               \/ /\ deliveries'[d].replay_count = deliveries[d].replay_count
                  /\ deliveries'[d].attempts >= deliveries[d].attempts
    <3>1. CASE deliveries[d].status # "absent"
      BY <1>1, <3>1, RowsForward DEF IInv, Forward
    <3>2. CASE deliveries[d].status = "absent"
      <4>1. deliveries[d].replay_count = 0 /\ deliveries[d].attempts = 0
        BY <1>1, <3>2 DEF IInv, RowsSound, RowSound, AbsentRow
      <4>2. deliveries'[d].replay_count \in Nat /\ deliveries'[d].attempts \in Nat
        BY <1>1, RowTyped DEF Row
      <4> QED BY <4>1, <4>2
    <3> QED BY <3>1, <3>2
  <2> QED BY <2>1, <2>2, <2>3
<1>2. Spec => [][Kept]_vars
  BY <1>1, Invariance, PTL DEF Spec
<1> QED BY <1>2 DEF HistoryOnlyGrows
=============================================================================
