---------------------------- MODULE HistoryProofs ----------------------------
(***************************************************************************)
(* What a run of WebhookStore leaves behind, for any number of calls,      *)
(* deliveries, cycles, configurations, delays and clock skews: retries are *)
(* paced (RetryPacing), and what was posted and accepted agrees with rows  *)
(* and receipts (PostHistory).                                             *)
(***************************************************************************)
EXTENDS RetryPacing, PostHistory, WebhookStoreContractProofs, FiniteSetTheorems

-----------------------------------------------------------------------------
(* Retries: what is remembered of the answers agrees with what the calls   *)
(* are to record and with what the rows carry.                             *)

\* A retry to be recorded is due its delay after its answer, but for a skew.
RecordsPaced ==
  \A w \in Worker :
    pc[w] \in Recording /\ result[w].status = "retry_scheduled" =>
      \E skew \in Skew :
        result[w].next_available_at =
          answeredAt[w] + RetryDelay[config[w]][claim[w].attempts] + skew

\* A scheduled retry is due when it is wanted, but for a skew.
RowsPaced ==
  \A d \in Delivery :
    deliveries[d].status = "retry_scheduled" =>
      \E skew \in Skew : deliveries[d].available_at = notBefore[d] + skew

\* A claim has picked no retry that was not due when it began.
PicksDue ==
  \A w \in Worker, d \in Delivery :
    pc[w] = "claim_locked" /\ picked[w].candidate = d /\ deliveries[d].status = "retry_scheduled" =>
      deliveries[d].available_at <= ts[w]

PacingInv ==
  /\ IInv
  /\ answeredAt \in [Worker -> Int]
  /\ RecordsPaced
  /\ RowsPaced
  /\ PicksDue

LEMMA DelayTyped ==
  ASSUME IInv, NEW w \in Worker, pc[w] \in Holding
  PROVE  RetryDelay[config[w]][claim[w].attempts] \in Nat
<1>1. TypeOK /\ ClaimSound(w)
  BY DEF IInv, ClaimsSound
<1>2. deliveries[claim[w].delivery_id].config \in Config /\ config[w] \in Config
  BY <1>1 DEF TypeOK, ClaimSound, Row
<1> QED BY <1>1, <1>2, ConfigAssumption DEF ClaimSound, MaxAttemptsOf

LEMMA RecordsPacedStep ==
  ASSUME PacingInv, PacingNext
  PROVE  RecordsPaced'
<1>1. SUFFICES ASSUME NEW w \in Worker, pc'[w] \in Recording, result'[w].status = "retry_scheduled"
               PROVE  \E skew \in Skew :
                        result'[w].next_available_at =
                          answeredAt'[w] + RetryDelay[config'[w]][claim'[w].attempts] + skew
  BY DEF RecordsPaced
<1>2. IInv /\ TypeOK /\ CallsTyped /\ [Next]_vars
  BY DEF PacingInv, PacingNext, IInv, TypeOK, CallsTyped
<1>3. answeredAt'[w] = IF pc[w] = "posting" /\ pc'[w] = "answered" THEN now ELSE answeredAt[w]
  BY DEF PacingNext
<1>4. CASE /\ pc[w] \in Recording /\ result'[w] = result[w]
           /\ config'[w] = config[w] /\ claim'[w] = claim[w]
  BY <1>1, <1>3, <1>4 DEF PacingInv, RecordsPaced, Recording
<1>5. CASE CallKept(w) \/ RecordBegin(w) \/ RecordInsert(w) \/ RecordLink(w)
  BY <1>1, <1>2, <1>4, <1>5 DEF CallKept, RecordBegin, RecordInsert, RecordLink, Recording
<1>6. CASE HttpAnswer(w)
  <2>1. PICK response \in Response, skew \in Skew :
          result' = [result EXCEPT ![w] = ResultOf(w, response, now + skew)]
    BY <1>6 DEF HttpAnswer
  <2>2. /\ pc[w] = "posting" /\ pc'[w] = "answered"
        /\ config'[w] = config[w] /\ claim'[w] = claim[w]
        /\ result'[w] = ResultOf(w, response, now + skew)
    BY <1>2, <1>6, <2>1 DEF HttpAnswer, At, CallsTyped
  <2>3. result'[w].next_available_at = (now + skew) + RetryDelay[config[w]][claim[w].attempts]
    BY <1>1, <2>2 DEF ResultOf, DelayOf
  <2>4. RetryDelay[config[w]][claim[w].attempts] \in Nat /\ now \in Nat /\ skew \in Int
    BY <1>2, <2>2, DelayTyped, BoundsAssumption DEF TypeOK, Holding
  <2> QED BY <1>3, <2>2, <2>3, <2>4
<1>7. ASSUME EndpointChanged(w) \/ Post(w) PROVE FALSE
  BY <1>1, <1>2, <1>7 DEF EndpointChanged, Post, At, CallsTyped, Recording
<1>8. ASSUME (\E c \in Config : ClaimBegin(w, c)) \/ ClaimLock(w) \/ ClaimCommit(w) PROVE FALSE
  BY <1>1, <1>2, <1>8 DEF ClaimBegin, ClaimLock, ClaimCommit, Finish, At, CallsTyped, Recording
<1> QED BY <1>1, <1>2, <1>5, <1>6, <1>7, <1>8, CallMoves DEF Attempt, Recording

\* The step that schedules a retry is a record, and no other call ends in it.
LEMMA RecordKnown ==
  ASSUME IInv, NEW v \in Worker, NEW d \in Delivery, RowSettled(v, d)
  PROVE  (CHOOSE w \in Worker : Records(w, d)) = v
<1>1. CallsTyped
  BY DEF IInv, TypeOK, CallsTyped
<1>2. Records(v, d)
  BY <1>1 DEF Records, RowSettled, RecordCommit, Finish, At, CallsTyped
<1>3. ASSUME NEW w \in Worker, Records(w, d) PROVE w = v
  BY <1>1, <1>3 DEF Records, RowSettled, RecordCommit, Finish, At, CallsTyped
<1> QED BY <1>2, <1>3

LEMMA RowsPacedStep ==
  ASSUME PacingInv, PacingNext
  PROVE  RowsPaced'
<1>1. SUFFICES ASSUME NEW d \in Delivery, deliveries'[d].status = "retry_scheduled"
               PROVE  \E skew \in Skew : deliveries'[d].available_at = notBefore'[d] + skew
  BY DEF RowsPaced
<1>2. IInv /\ TypeOK /\ [Next]_vars /\ deliveries[d] \in Row
  BY DEF PacingInv, PacingNext, IInv, TypeOK
<1>3. CASE deliveries'[d] = deliveries[d]
  BY <1>1, <1>3 DEF PacingInv, PacingNext, RowsPaced
<1>4. ASSUME NEW v \in Worker, RowSettled(v, d)
      PROVE  \E skew \in Skew : deliveries'[d].available_at = notBefore'[d] + skew
  <2>1. deliveries[d].status = "delivering" /\ pc[v] \in Recording
    BY <1>4 DEF RowSettled, RecordCommit, Fenced, Recording
  <2>2. deliveries'[d].status = result[v].status
    BY <1>2, <1>4 DEF RowSettled, SettledRow, Row
  <2>3. PICK skew \in Skew :
          result[v].next_available_at =
            answeredAt[v] + RetryDelay[config[v]][claim[v].attempts] + skew
    BY <1>1, <2>1, <2>2 DEF PacingInv, RecordsPaced
  <2>4. result[v].next_available_at \in Int
    BY <1>2, <2>1, <2>3, DelayTyped, BoundsAssumption DEF PacingInv, Holding
  <2>5. deliveries'[d].available_at = result[v].next_available_at
    BY <1>2, <1>4, <2>4, NullAssumption DEF RowSettled, SettledRow, Row
  <2>6. notBefore'[d] = answeredAt[v] + RetryDelay[config[v]][claim[v].attempts]
    BY <1>1, <1>2, <1>4, <2>1, RecordKnown DEF PacingNext
  <2> QED BY <2>3, <2>5, <2>6
<1>5. ASSUME NEW v \in Worker, RowClaimed(v, d) \/ RowRetired(v, d) PROVE FALSE
  BY <1>1, <1>2, <1>5, ClaimedColumns DEF RowRetired, RetiredRow, Row
<1>6. ASSUME NEW o \in Operator, RowReplayed(o, d) PROVE FALSE
  BY <1>1, <1>2, <1>6 DEF RowReplayed, ReplayedRow, Row
<1>7. ASSUME RowQueued(d) PROVE FALSE
  BY <1>1, <1>7 DEF RowQueued, QueuedRow, AbsentRow
<1> QED BY <1>2, <1>3, <1>4, <1>5, <1>6, <1>7, RowMoves

LEMMA PicksDueStep ==
  ASSUME IInv, [Next]_vars, PicksDue
  PROVE  PicksDue'
<1>1. SUFFICES ASSUME NEW w \in Worker, NEW d \in Delivery, pc'[w] = "claim_locked",
                      picked'[w].candidate = d, deliveries'[d].status = "retry_scheduled"
               PROVE  deliveries'[d].available_at <= ts'[w]
  BY DEF PicksDue
<1>2. CASE pc[w] = "claim_locked" /\ CallKept(w)
  <2>1. deliveries'[d] = deliveries[d]
    BY <1>1, <1>2, LockedRowKept DEF CallKept, WorkerLocks, Rows
  <2> QED BY <1>1, <1>2, <2>1 DEF CallKept, PicksDue
<1>3. CASE ClaimLock(w)
  <2>1. picked \in [Worker -> Pick] /\ UNCHANGED deliveries /\ ts'[w] = ts[w]
    BY <1>3, Picked DEF IInv, TypeOK
  <2>2. PICK batch \in SUBSET Expired(w), e \in Delivery \cup {NoDelivery} :
          /\ IsCandidate(w, batch, e)
          /\ picked' = [picked EXCEPT ![w] = [expired |-> batch, candidate |-> e]]
    BY <1>3 DEF ClaimLock
  <2>3. d \in Due(w, batch)
    BY <1>1, <2>1, <2>2, DeliveryAssumption DEF IsCandidate
  <2>4. d \notin batch
    BY <1>1, <2>1, <2>2 DEF Expired, LeaseOver
  <2> QED BY <2>1, <2>3, <2>4 DEF Due
<1> QED BY <1>1, <1>2, <1>3, PickMoves

-----------------------------------------------------------------------------
(* The theorem. *)

LEMMA InitPacing == Init /\ NothingAnswered => PacingInv
<1> SUFFICES ASSUME Init, NothingAnswered PROVE PacingInv
  OBVIOUS
<1>1. IInv
  BY InitInv
<1>2. RecordsPaced /\ RowsPaced /\ PicksDue
  BY DEF Init, NoCalls, RecordsPaced, RowsPaced, PicksDue, Recording, AbsentRow
<1> QED BY <1>1, <1>2 DEF PacingInv, NothingAnswered

LEMMA NextPacing == PacingInv /\ [PacingNext]_pacingVars => PacingInv'
<1>1. ASSUME PacingInv, PacingNext PROVE PacingInv'
  <2>1. IInv /\ [Next]_vars /\ now \in Nat /\ answeredAt \in [Worker -> Int]
    BY <1>1 DEF PacingInv, PacingNext, IInv, TypeOK
  <2>2. answeredAt' \in [Worker -> Int]
    BY <1>1, <2>1 DEF PacingNext
  <2>3. IInv' /\ PicksDue'
    BY <1>1, <2>1, NextInv, PicksDueStep DEF PacingInv
  <2> QED BY <1>1, <2>2, <2>3, RecordsPacedStep, RowsPacedStep DEF PacingInv
<1>2. ASSUME PacingInv, UNCHANGED pacingVars PROVE PacingInv'
  <2>1. IInv' /\ PicksDue'
    BY <1>2, NextInv, PicksDueStep DEF PacingInv, pacingVars
  <2> QED BY <1>2, <2>1
          DEF PacingInv, pacingVars, vars, tables, calls, RecordsPaced, RowsPaced
<1> QED BY <1>1, <1>2

\* No retry is claimed before its delay has passed since the answer, but for
\* the skew of the clock that scheduled it.
THEOREM RetriesWait == PacingSpec => RetriesArePaced
<1> DEFINE Paced ==
      \A d \in Delivery :
        deliveries[d].status = "retry_scheduled" /\ deliveries'[d].status = "delivering" =>
          \E w \in Worker, skew \in Skew :
            /\ pc[w] = "claim_locked" /\ pc'[w] = "claimed" /\ picked[w].candidate = d
            /\ ts[w] >= notBefore[d] + skew
<1>1. ASSUME PacingInv, [PacingNext]_pacingVars PROVE Paced
  <2>1. SUFFICES ASSUME NEW d \in Delivery, deliveries[d].status = "retry_scheduled",
                        deliveries'[d].status = "delivering"
                 PROVE  \E w \in Worker, skew \in Skew :
                          /\ pc[w] = "claim_locked" /\ pc'[w] = "claimed"
                          /\ picked[w].candidate = d
                          /\ ts[w] >= notBefore[d] + skew
    OBVIOUS
  <2>2. IInv /\ TypeOK /\ CallsTyped /\ [Next]_vars
    BY <1>1 DEF PacingInv, PacingNext, pacingVars, IInv, TypeOK, CallsTyped
  <2>3. PICK w \in Worker : RowClaimed(w, d)
    <3>1. ASSUME NEW v \in Worker, RowRetired(v, d) \/ RowSettled(v, d) PROVE FALSE
      BY <2>1, <2>2, <3>1 DEF RowRetired, RowSettled, ClaimCommit, RecordCommit, Fenced, IInv,
         PicksSound, PickSound
    <3>2. ~RowQueued(d) /\ \A o \in Operator : ~RowReplayed(o, d)
      BY <2>1 DEF RowQueued, RowReplayed, ReplayUpdate, Replayable
    <3>3. deliveries'[d] # deliveries[d]
      BY <2>1
    <3> QED BY <2>2, <3>1, <3>2, <3>3, RowMoves
  <2>4. /\ pc[w] = "claim_locked" /\ picked[w].candidate = d
        /\ pc'[w] = "claimed"
    BY <2>2, <2>3, DeliveryAssumption DEF RowClaimed, ClaimCommit, At, CallsTyped
  <2>5. PICK skew \in Skew : deliveries[d].available_at = notBefore[d] + skew
    BY <1>1, <2>1 DEF PacingInv, RowsPaced
  <2>6. deliveries[d].available_at <= ts[w]
    BY <1>1, <2>1, <2>4 DEF PacingInv, PicksDue
  <2>7. ts[w] \in Int /\ deliveries[d].available_at \in Int
    BY <2>2 DEF TypeOK, CallsTyped, Row
  <2> QED BY <2>4, <2>5, <2>6, <2>7
<1>2. PacingSpec => []PacingInv
  BY InitPacing, NextPacing, PTL DEF PacingSpec
<1>3. PacingSpec => [][Paced]_pacingVars
  BY <1>1, <1>2, PTL DEF PacingSpec
<1> QED BY <1>3 DEF RetriesArePaced

-----------------------------------------------------------------------------
(* No row is put out of reach.                                              *)

\* The three bounds of WaitsAreBounded, of one row at a time t.
WithinReach(row, t) ==
  /\ row.status = "queued" =>
       row.available_at <= t \/ \E skew \in Skew : row.available_at <= t + skew
  /\ row.status = "retry_scheduled" =>
       /\ row.attempts \in 1..MaxAttemptsOf(row)
       /\ \E c \in Config, skew \in Skew : row.available_at <= t + RetryDelay[c][row.attempts] + skew
  /\ row.status = "delivering" =>
       \E c \in Config : row.lease_expires_at <= t + LeaseSeconds[c]

WaitInv ==
  /\ PacingInv
  /\ \A w \in Worker : answeredAt[w] <= now
  /\ \A d \in Delivery : WithinReach(deliveries[d], now)

LEMMA ReachSettled ==
  ASSUME WaitInv, NEW w \in Worker, NEW d \in Delivery, RowSettled(w, d)
  PROVE  WithinReach(deliveries'[d], now)
<1> DEFINE row == deliveries[d]
           new == deliveries'[d]
<1>1. IInv /\ TypeOK /\ row \in Row /\ now \in Nat /\ WithinReach(row, now)
  BY DEF WaitInv, PacingInv, IInv, TypeOK
<1>2. /\ pc[w] \in Recording /\ row.status = "delivering"
      /\ claim[w].attempts = row.attempts /\ config[w] \in Config
  BY <1>1 DEF RowSettled, RecordCommit, Fenced, Recording, TypeOK
<1>3. /\ new.status = result[w].status /\ new.attempts = row.attempts
      /\ result[w].status = "delivering" => new.lease_expires_at = row.lease_expires_at
      /\ result[w].next_available_at # Null => new.available_at = result[w].next_available_at
  BY <1>1 DEF RowSettled, SettledRow, Row
<1>4. CASE new.status = "retry_scheduled"
  <2>1. PICK skew \in Skew :
          result[w].next_available_at = answeredAt[w] + RetryDelay[config[w]][claim[w].attempts] + skew
    BY <1>2, <1>3, <1>4 DEF WaitInv, PacingInv, RecordsPaced
  <2>2. PICK delay \in Nat, at \in Int :
          delay = RetryDelay[config[w]][claim[w].attempts] /\ at = answeredAt[w]
    BY <1>1, <1>2, DelayTyped DEF WaitInv, PacingInv, Holding
  <2>3. at <= now /\ skew \in Int
    BY <2>2, BoundsAssumption DEF WaitInv
  <2>4. new.available_at = at + delay + skew
    BY <1>3, <2>1, <2>2, <2>3, NullAssumption
  <2>5. new.available_at <= now + delay + skew
    BY <1>1, <2>2, <2>3, <2>4
  <2>6. new.attempts \in 1..MaxAttemptsOf(new)
    BY <1>1, <1>2, <1>3 DEF RowSettled, SettledRow, IInv, ClaimsSound, ClaimSound, MaxAttemptsOf,
       Holding, Recording, RecordCommit
  <2> QED BY <1>2, <1>3, <1>4, <2>2, <2>5, <2>6 DEF WithinReach
<1>5. CASE new.status = "delivering"
  BY <1>1, <1>2, <1>3, <1>5 DEF WithinReach
<1>6. new.status # "queued"
  BY <1>1, <1>2, <1>3 DEF IInv, ResultsSound, ResultSound
<1> QED BY <1>4, <1>5, <1>6 DEF WithinReach

\* A row is within reach of now when it is written, and time only takes it nearer.
LEMMA ReachStep ==
  ASSUME WaitInv, [Next]_vars, NEW d \in Delivery
  PROVE  WithinReach(deliveries'[d], now')
<1>1. IInv /\ TypeOK /\ deliveries[d] \in Row /\ deliveries'[d] \in Row
  BY RowTyped DEF WaitInv, PacingInv, IInv, TypeOK
<1>2. now \in Nat /\ now' \in Nat /\ now' >= now /\ (now' = now \/ Tick)
  BY <1>1, WhoMoves DEF TypeOK, Tick
<1>3. WithinReach(deliveries'[d], now)
  <2>1. CASE deliveries'[d] = deliveries[d]
    BY <2>1 DEF WaitInv
  <2>2. CASE RowQueued(d)
    BY <1>1, <2>2 DEF RowQueued, QueuedRow, AbsentRow, WithinReach
  <2>3. ASSUME NEW w \in Worker, RowClaimed(w, d) PROVE WithinReach(deliveries'[d], now)
    <3>1. PICK c \in Config : c = config[w]
      BY <1>1, <2>3 DEF TypeOK, RowClaimed, ClaimCommit
    <3>2. deliveries'[d].status = "delivering" /\ deliveries'[d].lease_expires_at = ts[w] + LeaseSeconds[c]
      BY <1>1, <2>3, <3>1, ClaimedColumns DEF LeaseEnd
    <3>3. ts[w] <= now /\ ts[w] \in Int /\ LeaseSeconds[c] \in Nat
      BY <1>1, <3>1, ConfigAssumption DEF IInv, ClockSound, TypeOK
    <3> QED BY <1>2, <3>2, <3>3 DEF WithinReach
  <2>4. ASSUME NEW w \in Worker, RowRetired(w, d) PROVE WithinReach(deliveries'[d], now)
    BY <1>1, <2>4 DEF RowRetired, RetiredRow, Row, WithinReach
  <2>5. ASSUME NEW o \in Operator, RowReplayed(o, d) PROVE WithinReach(deliveries'[d], now)
    BY <1>1, <1>2, <2>5 DEF RowReplayed, ReplayedRow, Row, WithinReach
  <2> QED BY <1>1, <2>1, <2>2, <2>3, <2>4, <2>5, ReachSettled, RowMoves
<1>4. PICK new \in Row, s, t \in Nat : new = deliveries'[d] /\ s = now /\ t = now' /\ t >= s
  BY <1>1, <1>2
<1>5. WithinReach(new, s)
  BY <1>3, <1>4
<1>6. new.available_at \in Int \/ new.status \notin {"queued", "retry_scheduled"}
  BY <1>4 DEF Row
<1>7. CASE new.status = "queued"
  <2>1. \A skew \in Skew : new.available_at <= s + skew => new.available_at <= t + skew
    BY <1>4, <1>6, <1>7, BoundsAssumption
  <2> QED BY <1>4, <1>5, <1>6, <1>7, <2>1 DEF WithinReach
<1>8. CASE new.status = "retry_scheduled"
  <2>1. \A c \in Config : RetryDelay[c][new.attempts] \in Nat
    <3>1. new.config \in Config /\ new.attempts \in 1..MaxAttempts[new.config]
      BY <1>4, <1>5, <1>8 DEF WithinReach, MaxAttemptsOf, Row
    <3> QED BY <3>1, ConfigAssumption
  <2>2. PICK c \in Config, skew \in Skew :
          new.available_at <= s + RetryDelay[c][new.attempts] + skew
    BY <1>5, <1>8 DEF WithinReach
  <2>3. new.available_at <= t + RetryDelay[c][new.attempts] + skew
    BY <1>4, <1>6, <1>8, <2>1, <2>2, BoundsAssumption
  <2> QED BY <1>4, <1>5, <1>8, <2>3 DEF WithinReach
<1>9. CASE new.status = "delivering"
  <2>1. PICK c \in Config : new.lease_expires_at <= s + LeaseSeconds[c]
    BY <1>5, <1>9 DEF WithinReach
  <2>2. new.lease_expires_at <= t + LeaseSeconds[c]
    <3>1. IInv'
      BY NextInv DEF WaitInv, PacingInv
    <3>2. LeaseSeconds[c] \in Nat /\ new.lease_expires_at \in Int
      BY <1>4, <1>9, <3>1, ConfigAssumption DEF IInv, RowsSound, RowSound, Row
    <3> QED BY <1>4, <2>1, <3>2
  <2> QED BY <1>4, <1>9, <2>2 DEF WithinReach
<1> QED BY <1>4, <1>7, <1>8, <1>9 DEF WithinReach

\* Every waiting row comes due and every lease ends within a bounded time.
THEOREM NothingOutOfReach == PacingSpec => []WaitsAreBounded
<1>1. Init /\ NothingAnswered => WaitInv
  BY InitPacing DEF Init, NothingAnswered, AbsentRow, WaitInv, WithinReach
<1>2. ASSUME WaitInv, [PacingNext]_pacingVars PROVE WaitInv'
  <2>1. [Next]_vars /\ PacingInv'
    BY <1>2, NextPacing DEF WaitInv, PacingNext, pacingVars
  <2>2. \A d \in Delivery : WithinReach(deliveries'[d], now')
    BY <1>2, <2>1, ReachStep
  <2>3. now \in Nat /\ now' \in Nat /\ now' >= now
    BY <1>2, <2>1, WhoMoves DEF WaitInv, PacingInv, IInv, TypeOK, Tick
  <2>4. \A w \in Worker : answeredAt[w] \in Int /\ answeredAt'[w] \in {answeredAt[w], now}
    BY <1>2 DEF WaitInv, PacingInv, PacingNext, pacingVars
  <2>5. \A w \in Worker : answeredAt'[w] <= now'
    BY <1>2, <2>3, <2>4 DEF WaitInv
  <2> QED BY <2>1, <2>2, <2>5 DEF WaitInv, WithinReach
<1>3. WaitInv => WaitsAreBounded
  BY DEF WaitInv, WaitsAreBounded, WithinReach
<1> QED BY <1>1, <1>2, <1>3, PTL DEF PacingSpec

-----------------------------------------------------------------------------
(* POSTs: how a step may change what was posted and accepted. *)

\* What HistoryNext says of the two sets, and a stutter too.
Remembers ==
  /\ posted' = posted \cup {claim[w] : w \in {v \in Worker : PostsNow(v)}}
  /\ accepted' = accepted \cup {claim[w] : w \in {v \in Worker : AcceptsNow(v)}}

LEMMA HistoryMoves ==
  ASSUME [HistoryNext]_historyVars
  PROVE  [Next]_vars /\ Remembers
<1>1. CASE HistoryNext
  BY <1>1 DEF HistoryNext, Remembers
<1>2. CASE UNCHANGED historyVars
  BY <1>2 DEF historyVars, vars, calls, Remembers, PostsNow, AcceptsNow
<1> QED BY <1>1, <1>2

\* Only Post posts, and only HttpAnswer has an attempt accepted.
LEMMA PostsAndAnswers ==
  ASSUME IInv, [Next]_vars, NEW w \in Worker
  PROVE  /\ PostsNow(w) => Post(w)
         /\ AcceptsNow(w) => HttpAnswer(w)
<1>1. TypeOK /\ CallsTyped
  BY DEF IInv, TypeOK, CallsTyped
<1>2. CASE CallKept(w) \/ pc'[w] = "idle"
  BY <1>2 DEF CallKept, PostsNow, AcceptsNow
<1>3. CASE (\E c \in Config : ClaimBegin(w, c)) \/ ClaimLock(w) \/ ClaimCommit(w)
  BY <1>1, <1>3 DEF ClaimBegin, ClaimLock, ClaimCommit, Finish, At, CallsTyped, PostsNow, AcceptsNow
<1>4. CASE RecordBegin(w) \/ RecordInsert(w) \/ RecordLink(w)
  BY <1>1, <1>4 DEF RecordBegin, RecordInsert, RecordLink, At, CallsTyped, PostsNow, AcceptsNow
<1>5. CASE Attempt(w)
  BY <1>1, <1>5 DEF Attempt, EndpointChanged, Post, HttpAnswer, At, CallsTyped, PostsNow, AcceptsNow
<1> QED BY <1>1, <1>2, <1>3, <1>4, <1>5, CallMoves

\* Where the attempts of the next state come from.
LEMMA PostedMoves ==
  ASSUME IInv, [Next]_vars, Remembers
  PROVE  /\ posted \subseteq posted' /\ accepted \subseteq accepted'
         /\ \A g \in posted' \ posted :
              \E w \in Worker : pc[w] = "claimed" /\ g = claim[w]
         /\ \A g \in accepted' \ accepted :
              \E w \in Worker : pc[w] = "posting" /\ g = claim[w] /\ AcceptsNow(w)
         /\ \A w \in Worker : PostsNow(w) => claim[w] \in posted'
         /\ \A w \in Worker : AcceptsNow(w) => claim[w] \in accepted'
<1>1. \A w \in Worker : PostsNow(w) => pc[w] = "claimed"
  BY PostsAndAnswers DEF Post
<1> QED BY <1>1 DEF Remembers, AcceptsNow

-----------------------------------------------------------------------------
(* Posted attempts stay reached and accounted for. *)

\* The row of g has come to that attempt, or past it, and may do so.
Reached(g) ==
  LET row == deliveries[g.delivery_id] IN
  /\ g \in Generation
  /\ g.delivery_id \in Delivery
  /\ row.status # "absent"
  /\ g.attempts \in 1..MaxAttemptsOf(row)
  /\ \/ g.replay_count < row.replay_count
     \/ g.replay_count = row.replay_count /\ g.attempts <= row.attempts

LEMMA ReachedKept ==
  ASSUME IInv, [Next]_vars, NEW g, Reached(g)
  PROVE  Reached(g)'
<1> DEFINE d == g.delivery_id
<1>1. d \in Delivery /\ Forward(d) /\ deliveries[d] \in Row /\ deliveries'[d] \in Row
  BY RowsForward, RowTyped DEF Reached, IInv, TypeOK
<1>2. MaxAttemptsOf(deliveries'[d]) = MaxAttemptsOf(deliveries[d])
  BY <1>1 DEF Reached, Forward, MaxAttemptsOf
<1> QED BY <1>1, <1>2 DEF Reached, Forward, MaxAttemptsOf, Row, Generation

LEMMA HeldReached ==
  ASSUME IInv, NEW w \in Worker, pc[w] \in Holding
  PROVE  Reached(claim[w])
BY DEF IInv, TypeOK, ClaimsSound, ClaimSound, Reached

LEMMA AccountedKept ==
  ASSUME IInv, PresentSound, [Next]_vars, NEW g, Reached(g), Accounted(g)
  PROVE  Accounted(g)'
<1> DEFINE d == g.delivery_id
<1>1. /\ TypeOK /\ d \in Delivery /\ deliveries[d] \in Row /\ deliveries[d].status # "absent"
      /\ g.replay_count \in Nat /\ g.attempts \in Nat
  BY DEF Reached, IInv, TypeOK, Generation
<1>2. CASE HasReceipt(d, g.replay_count, g.attempts)
  <2>1. receipts \subseteq receipts'
    BY WhoMoves DEF ClaimCommit, RecordCommit
  <2> QED BY <1>2, <2>1 DEF Accounted, HasReceipt
<1>3. CASE g = CurrentAttempt(d) /\ deliveries[d].status = "delivering"
  <2>1. g.replay_count = deliveries[d].replay_count /\ g.attempts = deliveries[d].attempts
    BY <1>3 DEF CurrentAttempt
  <2>2. CASE deliveries'[d] = deliveries[d]
    BY <1>3, <2>2 DEF Accounted, CurrentAttempt
  <2>3. CASE Gains(d)
    BY <1>1, <2>1, <2>3 DEF Gains, Accounted
  <2>4. ~RowQueued(d) /\ \A o \in Operator : ~RowReplayed(o, d)
    BY <1>3 DEF RowQueued, RowReplayed, ReplayUpdate, Replayable
  <2>5. ASSUME NEW w \in Worker, RowClaimed(w, d) \/ RowRetired(w, d) \/ RowSettled(w, d)
        PROVE  Gains(d)
    BY <1>1, <1>3, <2>5, LeavesReceipt
  <2> QED BY <1>1, <2>2, <2>3, <2>4, <2>5, RowMoves
<1> QED BY <1>2, <1>3 DEF Accounted
-----------------------------------------------------------------------------
(* What the receipts of an attempt say. *)

Tells(x, g) ==
  x.delivery_id = g.delivery_id /\ x.replay_count = g.replay_count /\ x.attempt = g.attempts

OnlyLapsed(g) == \A x \in receipts : Tells(x, g) => x.outcome = "lease_expired"

\* A receipt that is new is of maintenance or of the call that held the attempt.
LEMMA NewReceipt ==
  ASSUME IInv, [Next]_vars, NEW x \in receipts', x \notin receipts,
         NEW g \in Generation, Tells(x, g)
  PROVE  \/ x.outcome = "lease_expired"
         \/ \E w \in Worker :
              pc[w] \in Recording /\ claim[w] = g /\ x.outcome = result[w].outcome
<1>1. ASSUME NEW d, x = LeaseExpiredReceipt(d) PROVE x.outcome = "lease_expired"
  BY <1>1 DEF LeaseExpiredReceipt
<1>2. ASSUME NEW w \in Worker, RecordCommit(w), x = OwnReceipt(w)
      PROVE  pc[w] \in Recording /\ claim[w] = g /\ x.outcome = result[w].outcome
  <2>1. claim[w] \in Generation
    BY DEF IInv, TypeOK
  <2> QED BY <1>2, <2>1 DEF RecordCommit, Recording, OwnReceipt, Tells, Generation
<1> QED BY <1>1, <1>2, ReceiptMoves

\* What a claim is about to hand out has no receipt but one of a lapsed lease.
LEMMA ClaimIsNew ==
  ASSUME TrailInv, [Next]_vars, NEW w \in Worker, RowClaimed(w, picked[w].candidate),
         picked[w].candidate \in Delivery,
         NEW g, g = [delivery_id |-> picked[w].candidate,
                     replay_count |-> deliveries[picked[w].candidate].replay_count,
                     attempts |-> deliveries[picked[w].candidate].attempts + 1]
  PROVE  /\ ~Reached(g)
         /\ Reached(g)' /\ Accounted(g)'
         /\ OnlyLapsed(g)'
<1> DEFINE d == picked[w].candidate
           row == deliveries[d]
<1>1. IInv /\ TypeOK /\ row \in Row /\ deliveries'[d] \in Row /\ Trail(d)
  BY RowTyped DEF TrailInv, IInv, TypeOK
<1>2. /\ row.attempts < MaxAttemptsOf(row) /\ MaxAttemptsOf(row) \in Nat
      /\ deliveries'[d].status = "delivering"
      /\ deliveries'[d].attempts = row.attempts + 1
      /\ deliveries'[d].replay_count = row.replay_count
      /\ MaxAttemptsOf(deliveries'[d]) = MaxAttemptsOf(row)
  BY <1>1, ClaimedColumns, ConfigAssumption DEF MaxAttemptsOf, Row
<1>3. row.attempts \in Nat /\ row.replay_count \in Nat
  BY <1>1 DEF Row
<1>4. g \in Generation
  BY <1>3 DEF Generation
<1>5. ~Reached(g)
  BY <1>3 DEF Reached
<1>6. Reached(g)' /\ Accounted(g)'
  BY <1>2, <1>3, <1>4 DEF Reached, Accounted, CurrentAttempt, MaxAttemptsOf
<1>7. ASSUME NEW x \in receipts', Tells(x, g) PROVE x.outcome = "lease_expired"
  <2>1. x \notin receipts
    <3>1. row.attempts + 1 \notin Receipts(d, row.replay_count)
      BY <1>1, <1>3 DEF Trail
    <3> QED BY <1>2, <1>3, <1>7, <3>1 DEF Receipts, HasReceipt, Tells
  <2>2. \A v \in Worker : pc[v] \in Recording => claim[v] # g
    BY <1>1, <1>5, HeldReached DEF Holding
  <2> QED BY <1>1, <1>4, <1>7, <2>1, <2>2, NewReceipt
<1> QED BY <1>5, <1>6, <1>7 DEF OnlyLapsed

\* While a call holds an attempt and has nothing to record, nobody else has.
LEMMA OnlyLapsedKept ==
  ASSUME IInv, [Next]_vars, NEW w \in Worker, pc[w] \in {"claimed", "posting"},
         OnlyLapsed(claim[w])
  PROVE  \A x \in receipts' : Tells(x, claim[w]) => x.outcome = "lease_expired"
<1>1. claim[w] \in Generation
  BY DEF IInv, TypeOK
<1>2. \A v \in Worker : pc[v] \in Recording => claim[v] # claim[w]
  BY DEF IInv, ClaimedOnce, Holding, Recording
<1> QED BY <1>1, <1>2, NewReceipt DEF OnlyLapsed
-----------------------------------------------------------------------------
(* The invariant of PostHistory. *)

\* A claimed attempt is not posted yet; a posted one has no answer yet; what a
\* call records is a success when its attempt was accepted and only then.
CallAgrees(w) ==
  /\ pc[w] = "claimed" => claim[w] \notin posted /\ Accounted(claim[w])
  /\ pc[w] = "posting" => claim[w] \in posted /\ claim[w] \notin accepted
  /\ pc[w] \in {"claimed", "posting"} => OnlyLapsed(claim[w])
  /\ pc[w] \in Recording =>
       /\ claim[w] \in accepted <=> result[w].outcome = "delivered"
       /\ result[w].status = "delivered" => result[w].outcome = "delivered"

\* The receipt of an accepted attempt says so, or that its lease ran out.
AcceptedIsReceipted ==
  \A g \in accepted, x \in receipts :
    Tells(x, g) => x.outcome \in {"delivered", "lease_expired"}

DeliveredIsAccepted ==
  \A d \in Delivery : deliveries[d].status = "delivered" => CurrentAttempt(d) \in accepted

HistoryInv ==
  /\ TrailInv
  /\ accepted \subseteq posted
  /\ \A g \in posted : Reached(g) /\ Accounted(g)
  /\ \A w \in Worker : CallAgrees(w)
  /\ AcceptedIsReceipted
  /\ DeliveredIsAccepted

\* What others do meanwhile leaves the attempt a call holds as it is.
LEMMA OthersPosts ==
  ASSUME HistoryInv, [Next]_vars, Remembers, NEW w \in Worker, pc[w] \in Holding
  PROVE  /\ claim[w] \in posted' => claim[w] \in posted \/ pc[w] = "claimed"
         /\ claim[w] \in posted' /\ claim[w] \notin posted => pc'[w] = "posting"
         /\ claim[w] \in accepted' /\ claim[w] \notin accepted => AcceptsNow(w)
<1>1. IInv
  BY DEF HistoryInv, TrailInv
<1>2. ASSUME NEW v \in Worker, pc[v] \in Holding, claim[v] = claim[w] PROVE v = w
  BY <1>1, <1>2 DEF IInv, ClaimedOnce
<1>3. ASSUME claim[w] \in posted', claim[w] \notin posted
      PROVE  PostsNow(w) /\ pc[w] = "claimed"
  <2>1. PICK v \in Worker : PostsNow(v) /\ claim[w] = claim[v]
    BY <1>3 DEF Remembers
  <2>2. pc[v] = "claimed"
    BY <1>1, <2>1, PostsAndAnswers DEF Post
  <2> QED BY <1>2, <2>1, <2>2 DEF Holding
<1>4. ASSUME claim[w] \in accepted', claim[w] \notin accepted PROVE AcceptsNow(w)
  <2>1. PICK v \in Worker : AcceptsNow(v) /\ claim[w] = claim[v]
    BY <1>4 DEF Remembers
  <2> QED BY <1>2, <2>1 DEF AcceptsNow, Holding
<1> QED BY <1>3, <1>4 DEF PostsNow

LEMMA CallAgreesStep ==
  ASSUME HistoryInv, [Next]_vars, Remembers, NEW w \in Worker
  PROVE  CallAgrees(w)'
<1>1. IInv /\ TypeOK /\ CallsTyped /\ TrailInv /\ PresentSound /\ CallAgrees(w)
  BY DEF HistoryInv, TrailInv, IInv, TypeOK, CallsTyped
<1>2. accepted \subseteq posted /\ posted \subseteq posted' /\ accepted \subseteq accepted'
  BY <1>1, PostedMoves DEF HistoryInv
<1>3. CASE pc'[w] \notin Holding
  BY <1>3 DEF CallAgrees, Holding, Recording
<1>4. CASE pc[w] \in Recording /\ pc'[w] \in Recording
           /\ claim'[w] = claim[w] /\ result'[w] = result[w]
  <2>1. claim[w] \in accepted' <=> claim[w] \in accepted
    BY <1>2, <1>4, OthersPosts DEF AcceptsNow, Holding, Recording
  <2> QED BY <1>1, <1>4, <2>1 DEF CallAgrees, Recording
<1>5. PICK g : g = claim[w]
  OBVIOUS
\* It keeps an attempt it has not recorded.
<1>6. CASE /\ pc[w] \in {"claimed", "posting"} /\ pc'[w] \in {"claimed", "posting"}
           /\ claim'[w] = g /\ (pc[w] = "posting" => pc'[w] = "posting")
  <2>1. OnlyLapsed(g)'
    BY <1>1, <1>5, <1>6, OnlyLapsedKept DEF CallAgrees, OnlyLapsed
  <2>2. CASE pc[w] = "claimed" /\ pc'[w] = "claimed"
    <3>1. g \notin posted'
      BY <1>1, <1>5, <2>2, OthersPosts DEF CallAgrees, Holding
    <3>2. Reached(g) /\ Accounted(g)
      BY <1>1, <1>5, <2>2, HeldReached DEF CallAgrees, Holding
    <3>3. Accounted(g)'
      BY <1>1, <3>2, AccountedKept
    <3> QED BY <1>6, <2>1, <2>2, <3>1, <3>3 DEF CallAgrees, Recording, OnlyLapsed, Accounted
  <2>3. CASE pc'[w] = "posting"
    <3>1. g \in posted'
      BY <1>1, <1>2, <1>5, <1>6, <2>3, PostedMoves DEF CallAgrees, PostsNow
    <3>2. g \notin accepted'
      BY <1>1, <1>2, <1>5, <1>6, <2>3, OthersPosts DEF CallAgrees, AcceptsNow, Holding
    <3> QED BY <1>6, <2>1, <2>3, <3>1, <3>2 DEF CallAgrees, Recording, OnlyLapsed
  <2> QED BY <1>6, <2>2, <2>3
\* It has just claimed it.
<1>7. CASE ClaimCommit(w) /\ pc'[w] \in Holding
  <2>1. /\ picked[w].candidate \in Delivery
        /\ RowClaimed(w, picked[w].candidate)
        /\ claim'[w] = [delivery_id |-> picked[w].candidate,
                        replay_count |-> deliveries[picked[w].candidate].replay_count,
                        attempts |-> deliveries[picked[w].candidate].attempts + 1]
    BY <1>1, <1>7, HoldingMoves DEF ClaimCommit, Holding, Recording
  <2>2. PICK h : h = claim'[w]
    OBVIOUS
  <2>3. ~Reached(h) /\ Accounted(h)' /\ OnlyLapsed(h)'
    BY <1>1, <2>1, <2>2, ClaimIsNew
  <2>4. pc'[w] = "claimed"
    BY <1>1, <1>7 DEF ClaimCommit, Finish, At, CallsTyped, Holding, Recording
  <2>5. h \notin posted'
    BY <1>1, <2>3, PostedMoves, HeldReached DEF HistoryInv, Holding
  <2> QED BY <2>2, <2>3, <2>4, <2>5 DEF CallAgrees, Recording, OnlyLapsed, Accounted
\* It has just got what it is to record.
<1>8. CASE EndpointChanged(w)
  <2>1. /\ pc[w] = "claimed" /\ pc'[w] = "answered" /\ claim'[w] = claim[w]
        /\ result'[w].outcome = "endpoint_configuration_changed"
        /\ result'[w].status = "dead_letter"
    BY <1>1, <1>8 DEF EndpointChanged, At, CallsTyped
  <2>2. claim[w] \notin accepted'
    BY <1>1, <1>2, <2>1, OthersPosts DEF CallAgrees, AcceptsNow, Holding
  <2> QED BY <2>1, <2>2 DEF CallAgrees, Recording
<1>9. CASE HttpAnswer(w)
  <2>1. PICK response \in Response, skew \in Skew :
          result' = [result EXCEPT ![w] = ResultOf(w, response, now + skew)]
    BY <1>9 DEF HttpAnswer
  <2>2. /\ pc[w] = "posting" /\ pc'[w] = "answered" /\ claim'[w] = claim[w]
        /\ result'[w] = ResultOf(w, response, now + skew)
    BY <1>1, <1>9, <2>1 DEF HttpAnswer, At, CallsTyped
  <2>3. result'[w].status = "delivered" => result'[w].outcome = "delivered"
    BY <2>2 DEF ResultOf
  <2>4. claim[w] \in accepted' <=> result'[w].outcome = "delivered"
    BY <1>1, <2>2, OthersPosts, PostedMoves DEF CallAgrees, AcceptsNow, Holding
  <2> QED BY <2>2, <2>3, <2>4 DEF CallAgrees, Recording
<1>10. CASE CallKept(w)
  BY <1>3, <1>4, <1>5, <1>6, <1>10 DEF CallKept, Holding
<1>11. CASE Post(w)
  BY <1>1, <1>5, <1>6, <1>11 DEF Post, At, CallsTyped
<1>12. CASE RecordBegin(w) \/ RecordInsert(w) \/ RecordLink(w)
  BY <1>1, <1>4, <1>12 DEF RecordBegin, RecordInsert, RecordLink, At, CallsTyped, Recording
<1>13. CASE pc'[w] = "idle" \/ (\E c \in Config : ClaimBegin(w, c)) \/ ClaimLock(w)
  BY <1>1, <1>3, <1>13 DEF ClaimBegin, ClaimLock, At, CallsTyped, Holding, Recording
<1> QED BY <1>1, <1>3, <1>7, <1>8, <1>9, <1>10, <1>11, <1>12, <1>13, CallMoves DEF Attempt
LEMMA PostsStep ==
  ASSUME HistoryInv, [Next]_vars, Remembers
  PROVE  accepted' \subseteq posted' /\ \A g \in posted' : Reached(g)' /\ Accounted(g)'
<1>1. IInv /\ PresentSound
  BY DEF HistoryInv, TrailInv
<1>2. ASSUME NEW g \in posted' PROVE Reached(g) /\ Accounted(g)
  <2>1. CASE g \in posted
    BY <2>1 DEF HistoryInv
  <2>2. CASE g \notin posted
    <3>1. PICK w \in Worker : pc[w] = "claimed" /\ g = claim[w]
      BY <1>1, <1>2, <2>2, PostedMoves
    <3>2. CallAgrees(w) /\ pc[w] \in Holding
      BY <3>1 DEF HistoryInv, Holding
    <3> QED BY <1>1, <3>1, <3>2, HeldReached DEF CallAgrees
  <2> QED BY <2>1, <2>2
<1>3. ASSUME NEW g \in posted' PROVE Reached(g)' /\ Accounted(g)'
  BY <1>1, <1>2, <1>3, ReachedKept, AccountedKept
<1>4. ASSUME NEW g \in accepted' PROVE g \in posted'
  <2>1. CASE g \in accepted
    BY <1>1, <2>1, PostedMoves DEF HistoryInv
  <2>2. CASE g \notin accepted
    BY <1>1, <1>4, <2>2, PostedMoves DEF HistoryInv, CallAgrees
  <2> QED BY <2>1, <2>2
<1> QED BY <1>3, <1>4

LEMMA AcceptedStep ==
  ASSUME HistoryInv, [Next]_vars, Remembers
  PROVE  AcceptedIsReceipted'
<1>1. SUFFICES ASSUME NEW g \in accepted', NEW x \in receipts', Tells(x, g)
               PROVE  x.outcome \in {"delivered", "lease_expired"}
  BY DEF AcceptedIsReceipted, Tells
<1>2. IInv /\ \A w \in Worker : CallAgrees(w)
  BY DEF HistoryInv, TrailInv
<1>3. CASE g \in accepted /\ x \in receipts
  BY <1>1, <1>3 DEF HistoryInv, AcceptedIsReceipted
<1>4. CASE g \in accepted /\ x \notin receipts
  <2>1. g \in Generation
    BY <1>4 DEF HistoryInv, Reached
  <2> QED BY <1>1, <1>2, <1>4, <2>1, NewReceipt DEF CallAgrees
<1>5. CASE g \notin accepted
  <2>1. PICK w \in Worker : pc[w] = "posting" /\ g = claim[w]
    BY <1>1, <1>2, <1>5, PostedMoves
  <2>2. OnlyLapsed(claim[w])
    BY <1>2, <2>1 DEF CallAgrees
  <2> QED BY <1>1, <1>2, <2>1, <2>2, OnlyLapsedKept
<1> QED BY <1>3, <1>4, <1>5

LEMMA DeliveredStep ==
  ASSUME HistoryInv, [Next]_vars, Remembers
  PROVE  DeliveredIsAccepted'
<1>1. SUFFICES ASSUME NEW d \in Delivery, deliveries'[d].status = "delivered"
               PROVE  CurrentAttempt(d)' \in accepted'
  BY DEF DeliveredIsAccepted
<1>2. IInv /\ TypeOK /\ deliveries[d] \in Row /\ accepted \subseteq accepted'
  BY PostedMoves DEF HistoryInv, TrailInv, IInv, TypeOK
<1>3. CASE deliveries'[d] = deliveries[d]
  BY <1>1, <1>2, <1>3 DEF HistoryInv, DeliveredIsAccepted, CurrentAttempt
<1>4. ASSUME NEW w \in Worker, RowSettled(w, d) PROVE CurrentAttempt(d)' \in accepted'
  <2>1. /\ pc[w] \in Recording /\ claim[w] \in Generation
        /\ d = claim[w].delivery_id
        /\ claim[w].replay_count = deliveries[d].replay_count
        /\ claim[w].attempts = deliveries[d].attempts
    BY <1>2, <1>4 DEF RowSettled, RecordCommit, Fenced, Recording, TypeOK
  <2>2. /\ deliveries'[d].status = result[w].status
        /\ deliveries'[d].replay_count = deliveries[d].replay_count
        /\ deliveries'[d].attempts = deliveries[d].attempts
    BY <1>2, <1>4 DEF RowSettled, SettledRow, Row
  <2>3. claim[w] \in accepted
    BY <1>1, <2>1, <2>2 DEF HistoryInv, CallAgrees
  <2>4. CurrentAttempt(d)' = claim[w]
    BY <2>1, <2>2 DEF CurrentAttempt, Generation
  <2> QED BY <1>2, <2>3, <2>4
<1>5. ASSUME NEW w \in Worker, RowClaimed(w, d) \/ RowRetired(w, d) PROVE FALSE
  BY <1>1, <1>2, <1>5, ClaimedColumns DEF RowRetired, RetiredRow, Row
<1>6. ASSUME NEW o \in Operator, RowReplayed(o, d) PROVE FALSE
  BY <1>1, <1>2, <1>6 DEF RowReplayed, ReplayedRow, Row
<1>7. ASSUME RowQueued(d) PROVE FALSE
  BY <1>1, <1>7 DEF RowQueued, QueuedRow, AbsentRow
<1> QED BY <1>2, <1>3, <1>4, <1>5, <1>6, <1>7, RowMoves

LEMMA InitHistory == Init /\ NothingPosted => HistoryInv
<1> SUFFICES ASSUME Init, NothingPosted PROVE HistoryInv
  OBVIOUS
<1>1. TrailInv
  BY InitTrail
<1>2. \A w \in Worker : CallAgrees(w)
  BY DEF Init, NoCalls, CallAgrees, Recording
<1>3. DeliveredIsAccepted
  BY DEF Init, AbsentRow, DeliveredIsAccepted
<1> QED BY <1>1, <1>2, <1>3 DEF NothingPosted, HistoryInv, AcceptedIsReceipted

LEMMA NextHistory == HistoryInv /\ [HistoryNext]_historyVars => HistoryInv'
<1> SUFFICES ASSUME HistoryInv, [HistoryNext]_historyVars PROVE HistoryInv'
  OBVIOUS
<1>1. [Next]_vars /\ Remembers
  BY HistoryMoves
<1>2. TrailInv'
  BY <1>1, NextTrail DEF HistoryInv
<1>3. \A w \in Worker : CallAgrees(w)'
  BY <1>1, CallAgreesStep
<1> QED BY <1>1, <1>2, <1>3, PostsStep, AcceptedStep, DeliveredStep DEF HistoryInv

-----------------------------------------------------------------------------
(* The theorems about POSTs. *)

THEOREM HistoryInvariance == HistorySpec => []HistoryInv
BY InitHistory, NextHistory, PTL DEF HistorySpec

\* Every POST is of an attempt that was never posted before.
THEOREM PostedOnce == HistorySpec => NoAttemptPostedTwice
<1> DEFINE Fresh == \A w \in Worker : PostsNow(w) => claim[w] \notin posted
<1>1. ASSUME HistoryInv, [HistoryNext]_historyVars PROVE Fresh
  <2>1. IInv /\ [Next]_vars
    BY <1>1, HistoryMoves DEF HistoryInv, TrailInv
  <2> QED BY <1>1, <2>1, PostsAndAnswers DEF Post, HistoryInv, CallAgrees
<1>2. HistorySpec => [][Fresh]_historyVars
  BY <1>1, HistoryInvariance, PTL DEF HistorySpec
<1> QED BY <1>2 DEF NoAttemptPostedTwice

\* A POST that was sent has a receipt or a leased row, whoever died since.
THEOREM PostsHaveReceipts == HistorySpec => []PostsAreAccounted
<1>1. HistoryInv => PostsAreAccounted
  BY DEF HistoryInv, PostsAreAccounted
<1> QED BY HistoryInvariance, <1>1, PTL

\* The attempts of a cycle that were posted have different numbers, and those are
\* within the limit of the row.
THEOREM PostsAreLimited == HistorySpec => []PostsStayWithinLimit
<1>1. ASSUME HistoryInv PROVE PostsStayWithinLimit
  <2>1. ASSUME NEW g \in posted
        PROVE  g.replay_count <= deliveries[g.delivery_id].replay_count
    <3>1. Reached(g) /\ deliveries[g.delivery_id] \in Row
      BY <1>1 DEF HistoryInv, TrailInv, IInv, TypeOK, Reached
    <3> QED BY <3>1 DEF Reached, Row, Generation
  <2>2. ASSUME NEW d \in Delivery, NEW n \in 0..deliveries[d].replay_count
        PROVE  Cardinality(PostsOf(d, n)) <= MaxAttemptsOf(deliveries[d])
    <3>1. PICK max \in Nat : max = MaxAttemptsOf(deliveries[d])
      BY <1>1, ConfigAssumption DEF HistoryInv, TrailInv, IInv, TypeOK, Row, MaxAttemptsOf
    <3> DEFINE number == [g \in PostsOf(d, n) |-> g.attempts]
    <3>2. ASSUME NEW g \in PostsOf(d, n)
          PROVE  /\ g.attempts \in 1..max
                 /\ g = [delivery_id |-> d, replay_count |-> n, attempts |-> g.attempts]
      BY <1>1, <3>1, <3>2 DEF HistoryInv, Reached, PostsOf, Generation
    <3>3. number \in Injection(PostsOf(d, n), 1..max)
      BY <3>2 DEF Injection, IsInjective
    <3>4. IsFiniteSet(1..max) /\ Cardinality(1..max) = max
      BY <3>1, FS_Interval
    <3>5. Cardinality(PostsOf(d, n)) <= Cardinality(1..max)
      BY <3>3, <3>4, FS_Injection
    <3> QED BY <3>1, <3>4, <3>5
  <2> QED BY <2>1, <2>2 DEF PostsStayWithinLimit
<1> QED BY HistoryInvariance, <1>1, PTL

\* Rows and receipts say "delivered" of accepted attempts only.
THEOREM SuccessIsTrue == HistorySpec => []SuccessWasAnswered
<1>1. ASSUME HistoryInv PROVE SuccessWasAnswered
  <2>1. ASSUME NEW x \in receipts, x.outcome = "delivered" PROVE AttemptOf(x) \in accepted
    <3>1. x.delivery_id \in Delivery /\ TerminalReceiptIsFinal /\ DeliveredIsAccepted
      BY <1>1 DEF HistoryInv, TrailInv, IInv, TypeOK, Receipt
    <3>2. /\ deliveries[x.delivery_id].status = "delivered"
          /\ deliveries[x.delivery_id].replay_count = x.replay_count
          /\ deliveries[x.delivery_id].attempts = x.attempt
      BY <2>1, <3>1 DEF TerminalReceiptIsFinal
    <3>3. AttemptOf(x) = CurrentAttempt(x.delivery_id)
      BY <3>2 DEF AttemptOf, CurrentAttempt
    <3> QED BY <3>1, <3>2, <3>3 DEF DeliveredIsAccepted
  <2> QED BY <1>1, <2>1 DEF SuccessWasAnswered, HistoryInv, DeliveredIsAccepted
<1> QED BY HistoryInvariance, <1>1, PTL

\* An event whose success reached the Plugin is sent again only if the lease of
\* the accepted attempt ran out, and then its receipt says that. The row is past
\* that attempt, so it has a receipt; one of success would have been final.
THEOREM RepeatsAreExplained == HistorySpec => []RepeatsOnlyAfterExpiry
<1>1. ASSUME HistoryInv PROVE RepeatsOnlyAfterExpiry
  <2>1. SUFFICES ASSUME NEW g \in accepted, NEW h \in posted, Later(h, g)
                 PROVE  ReceiptOf(g, "lease_expired") \in receipts
    BY DEF RepeatsOnlyAfterExpiry
  <2> DEFINE row == deliveries[g.delivery_id]
  <2>2. /\ Reached(g) /\ Accounted(g) /\ Reached(h)
        /\ receipts \subseteq Receipt /\ TerminalReceiptIsFinal
    BY <1>1 DEF HistoryInv, TrailInv, IInv, TypeOK
  <2>3. row.replay_count # g.replay_count \/ row.attempts # g.attempts
    <3>1. row \in Row
      BY <1>1, <2>2 DEF HistoryInv, TrailInv, IInv, TypeOK, Reached
    <3> QED BY <2>1, <2>2, <3>1 DEF Reached, Later, Row, Generation
  <2>4. g # CurrentAttempt(g.delivery_id)
    BY <2>3 DEF CurrentAttempt
  <2>5. PICK x \in receipts : Tells(x, g)
    BY <2>2, <2>4 DEF Accounted, HasReceipt, Tells
  <2>6. x.outcome # "delivered"
    BY <2>2, <2>3, <2>5 DEF TerminalReceiptIsFinal, Tells
  <2>7. x.outcome = "lease_expired"
    BY <1>1, <2>1, <2>5, <2>6 DEF HistoryInv, AcceptedIsReceipted
  <2>8. x = ReceiptOf(g, "lease_expired")
    BY <2>2, <2>5, <2>7 DEF Receipt, ReceiptOf, Tells
  <2> QED BY <2>5, <2>8
<1> QED BY HistoryInvariance, <1>1, PTL
=============================================================================
