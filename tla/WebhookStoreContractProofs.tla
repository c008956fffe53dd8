---------------------- MODULE WebhookStoreContractProofs ----------------------
(***************************************************************************)
(* The trail of receipts behind every row of WebhookStore is unbroken, and *)
(* WebhookStore implements DeliveryContract: every step moves each         *)
(* delivery by at most one move of the contract. For any number of         *)
(* deliveries, calls, cycles, attempts and configurations.                 *)
(***************************************************************************)
EXTENDS WebhookStoreContract, WebhookStoreProofs

-----------------------------------------------------------------------------
(* How a step may change the receipts of a delivery. *)

\* A record whose insert met a receipt still finds one: none is ever removed.
PresentSound == \A w \in Worker : pc[w] = "receipt_present" => Receipted(w)

LEMMA PresentStep ==
  ASSUME IInv, [Next]_vars, PresentSound
  PROVE  PresentSound'
<1>1. SUFFICES ASSUME NEW w \in Worker, pc'[w] = "receipt_present" PROVE Receipted(w)'
  BY DEF PresentSound
<1>2. TypeOK /\ CallsTyped
  BY DEF IInv, TypeOK, CallsTyped
<1>3. receipts \subseteq receipts'
  BY WhoMoves DEF ClaimCommit, RecordCommit
<1>4. CASE CallKept(w)
  BY <1>1, <1>3, <1>4 DEF CallKept, PresentSound, Receipted, HasReceipt
<1>5. CASE RecordInsert(w)
  <2>1. Receipted(w)
    BY <1>1, <1>2, <1>5 DEF RecordInsert, At, CallsTyped
  <2> QED BY <1>3, <1>5, <2>1 DEF RecordInsert, Receipted, HasReceipt
<1>6. ASSUME NEW c \in Config, ClaimBegin(w, c) PROVE FALSE
  BY <1>1, <1>2, <1>6 DEF ClaimBegin, At, CallsTyped
<1>7. ASSUME ClaimLock(w) \/ ClaimCommit(w) \/ Attempt(w) \/ RecordBegin(w) \/ RecordLink(w)
      PROVE  FALSE
  BY <1>1, <1>2, <1>7 DEF ClaimLock, ClaimCommit, Finish, Attempt, EndpointChanged, Post, HttpAnswer,
     RecordBegin, RecordLink, At, CallsTyped
<1> QED BY <1>1, <1>2, <1>4, <1>5, <1>6, <1>7, CallMoves

\* The receipts of d stay, or its current attempt is receipted, if it was not.
Keeps(d) == \A r, a \in Nat : HasReceipt(d, r, a)' <=> HasReceipt(d, r, a)

Gains(d) ==
  \A r, a \in Nat :
    HasReceipt(d, r, a)' <=>
      \/ HasReceipt(d, r, a)
      \/ r = deliveries[d].replay_count /\ a = deliveries[d].attempts

\* A claim receipts the rows of its batch.
LEMMA ClaimGains ==
  ASSUME IInv, NEW w \in Worker, ClaimCommit(w), NEW d \in Delivery
  PROVE  IF d \in picked[w].expired THEN Gains(d) ELSE Keeps(d)
<1>1. receipts' = receipts \cup LeaseExpiredReceipts(w)
  BY DEF ClaimCommit
<1>2. ASSUME NEW x \in receipts', x \notin receipts
      PROVE  x.delivery_id \in picked[w].expired /\ x = LeaseExpiredReceipt(x.delivery_id)
  BY <1>1, <1>2 DEF LeaseExpiredReceipts, LeaseExpiredReceipt
<1>3. CASE d \notin picked[w].expired
  BY <1>1, <1>2, <1>3 DEF Keeps, HasReceipt
<1>4. CASE d \in picked[w].expired
  <2>0. PICK r \in Nat, a \in Nat : r = deliveries[d].replay_count /\ a = deliveries[d].attempts
    BY DEF IInv, TypeOK, Row
  <2>1. HasReceipt(d, r, a)'
    <3>1. CASE HasReceipt(d, r, a)
      BY <1>1, <3>1 DEF HasReceipt
    <3>2. CASE ~HasReceipt(d, r, a)
      <4>1. LeaseExpiredReceipt(d) \in receipts'
        BY <1>1, <1>4, <2>0, <3>2 DEF LeaseExpiredReceipts
      <4> QED BY <2>0, <4>1 DEF LeaseExpiredReceipt, HasReceipt
    <3> QED BY <3>1, <3>2
  <2>2. ASSUME NEW q \in Nat, NEW b \in Nat, HasReceipt(d, q, b)', ~HasReceipt(d, q, b)
        PROVE  q = r /\ b = a
    <3>1. PICK x \in receipts' : x.delivery_id = d /\ x.replay_count = q /\ x.attempt = b
      BY <2>2 DEF HasReceipt
    <3>2. x = LeaseExpiredReceipt(d)
      BY <1>2, <2>2, <3>1 DEF HasReceipt
    <3> QED BY <2>0, <3>1, <3>2 DEF LeaseExpiredReceipt
  <2>3. ASSUME NEW q \in Nat, NEW b \in Nat, HasReceipt(d, q, b) PROVE HasReceipt(d, q, b)'
    BY <1>1, <2>3 DEF HasReceipt
  <2> QED BY <1>4, <2>0, <2>1, <2>2, <2>3 DEF Gains
<1> QED BY <1>3, <1>4

\* A record receipts its attempt, unless that has a receipt already.
LEMMA RecordGains ==
  ASSUME IInv, PresentSound, NEW w \in Worker, RecordCommit(w), NEW d \in Delivery
  PROVE  IF d = claim[w].delivery_id THEN Gains(d) ELSE Keeps(d)
<1>1. receipts' = IF pc[w] = "receipt_linked" THEN receipts \cup {OwnReceipt(w)} ELSE receipts
  BY DEF RecordCommit
<1>2. CASE d # claim[w].delivery_id
  BY <1>1, <1>2 DEF Keeps, HasReceipt, OwnReceipt
<1>3. CASE d = claim[w].delivery_id
  <2>0. PICK r \in Nat, a \in Nat : r = deliveries[d].replay_count /\ a = deliveries[d].attempts
    BY DEF IInv, TypeOK, Row
  <2>1. claim[w].replay_count = r /\ claim[w].attempts = a
    BY <1>3, <2>0 DEF RecordCommit, Fenced
  <2>2. HasReceipt(d, r, a)'
    <3>1. CASE pc[w] = "receipt_linked"
      <4>1. OwnReceipt(w) \in receipts'
        BY <1>1, <3>1
      <4> QED BY <1>3, <2>1, <4>1 DEF OwnReceipt, HasReceipt
    <3>2. CASE pc[w] = "receipt_present"
      BY <1>1, <1>3, <2>1, <3>2 DEF PresentSound, Receipted, HasReceipt
    <3> QED BY <3>1, <3>2 DEF RecordCommit
  <2>3. ASSUME NEW q \in Nat, NEW b \in Nat, HasReceipt(d, q, b)', ~HasReceipt(d, q, b)
        PROVE  q = r /\ b = a
    BY <1>1, <2>1, <2>3 DEF HasReceipt, OwnReceipt
  <2>4. ASSUME NEW q \in Nat, NEW b \in Nat, HasReceipt(d, q, b) PROVE HasReceipt(d, q, b)'
    BY <1>1, <2>4 DEF HasReceipt
  <2> QED BY <1>3, <2>0, <2>2, <2>3, <2>4 DEF Gains
<1> QED BY <1>2, <1>3

\* Receipts come to leased rows only.
LEMMA ReceiptGains ==
  ASSUME IInv, PresentSound, [Next]_vars, NEW d \in Delivery
  PROVE  Keeps(d) \/ (Gains(d) /\ deliveries[d].status = "delivering")
<1>1. CASE UNCHANGED receipts
  BY <1>1 DEF Keeps, HasReceipt
<1>2. ASSUME NEW w \in Worker, ClaimCommit(w)
      PROVE  Keeps(d) \/ (Gains(d) /\ deliveries[d].status = "delivering")
  BY <1>2, ClaimGains DEF ClaimCommit, IInv, PicksSound, PickSound
<1>3. ASSUME NEW w \in Worker, RecordCommit(w)
      PROVE  Keeps(d) \/ (Gains(d) /\ deliveries[d].status = "delivering")
  BY <1>3, RecordGains DEF RecordCommit, Fenced
<1> QED BY <1>1, <1>2, <1>3, WhoMoves

\* A row is claimed again, retired and settled with its attempt receipted.
LEMMA LeavesReceipt ==
  ASSUME IInv, PresentSound, NEW d \in Delivery, NEW w \in Worker,
         \/ RowClaimed(w, d) /\ deliveries[d].status = "delivering"
         \/ RowRetired(w, d) \/ RowSettled(w, d)
  PROVE  Gains(d)
<1>1. CASE RowClaimed(w, d) /\ deliveries[d].status = "delivering"
  <2>1. ClaimCommit(w) /\ d \in picked[w].expired
    BY <1>1, DeliveryAssumption DEF RowClaimed, ClaimCommit, IInv, PicksSound, PickSound, Waiting
  <2> QED BY <2>1, ClaimGains
<1>2. CASE RowRetired(w, d)
  BY <1>2, ClaimGains DEF RowRetired
<1>3. CASE RowSettled(w, d)
  BY <1>3, RecordGains DEF RowSettled
<1> QED BY <1>1, <1>2, <1>3

-----------------------------------------------------------------------------
(* The trail. *)

\* A row that left the queue has an attempt behind it.
AttemptsBegun ==
  \A d \in Delivery :
    deliveries[d].status \in {"delivering", "retry_scheduled", "delivered", "dead_letter"} =>
      deliveries[d].attempts >= 1

LEMMA AttemptsStep ==
  ASSUME IInv, [Next]_vars, AttemptsBegun
  PROVE  AttemptsBegun'
<1>1. SUFFICES ASSUME NEW d \in Delivery,
                      deliveries'[d].status \in {"delivering", "retry_scheduled", "delivered", "dead_letter"}
               PROVE  deliveries'[d].attempts >= 1
  BY DEF AttemptsBegun
<1>2. TypeOK /\ deliveries[d] \in Row
  BY DEF IInv, TypeOK
<1>3. CASE deliveries'[d] = deliveries[d]
  BY <1>1, <1>3 DEF AttemptsBegun
<1>4. CASE RowQueued(d)
  BY <1>1, <1>4 DEF RowQueued, QueuedRow, AbsentRow
<1>5. ASSUME NEW w \in Worker, RowClaimed(w, d) PROVE deliveries'[d].attempts >= 1
  BY <1>2, <1>5, ClaimedColumns DEF Row
<1>6. ASSUME NEW w \in Worker, RowRetired(w, d) PROVE deliveries'[d].attempts >= 1
  <2>1. deliveries[d].status = "delivering"
    BY <1>6 DEF RowRetired, ClaimCommit, IInv, PicksSound, PickSound
  <2>2. deliveries'[d].attempts = deliveries[d].attempts
    BY <1>2, <1>6 DEF RowRetired, RetiredRow, Row
  <2> QED BY <2>1, <2>2 DEF AttemptsBegun
<1>7. ASSUME NEW w \in Worker, RowSettled(w, d) PROVE deliveries'[d].attempts >= 1
  <2>1. deliveries[d].status = "delivering"
    BY <1>7 DEF RowSettled, RecordCommit, Fenced
  <2>2. deliveries'[d].attempts = deliveries[d].attempts
    BY <1>2, <1>7 DEF RowSettled, SettledRow, Row
  <2> QED BY <2>1, <2>2 DEF AttemptsBegun
<1>8. ASSUME NEW o \in Operator, RowReplayed(o, d) PROVE FALSE
  BY <1>1, <1>2, <1>8 DEF RowReplayed, ReplayedRow, Row
<1> QED BY <1>2, <1>3, <1>4, <1>5, <1>6, <1>7, <1>8, RowMoves

\* ReceiptTrail of one delivery, but for what ReceiptsSound says.
Trail(d) ==
  LET row == deliveries[d] IN
  /\ \A r \in 0..(row.replay_count - 1) :
       \E k \in 1..MaxAttemptsOf(row) : Receipts(d, r) = 1..k
  /\ \/ Receipts(d, row.replay_count) = 1..row.attempts
     \/ row.status = "delivering" /\ Receipts(d, row.replay_count) = 1..(row.attempts - 1)

\* The receipted attempts of a cycle, after a step.
LEMMA ReceiptsMove ==
  ASSUME NEW d \in Delivery, NEW r \in Nat, NEW n \in Nat,
         n = MaxAttemptsOf(deliveries[d]), MaxAttemptsOf(deliveries[d])' = n
  PROVE  /\ Keeps(d) => Receipts(d, r)' = Receipts(d, r)
         /\ Gains(d) /\ r # deliveries[d].replay_count => Receipts(d, r)' = Receipts(d, r)
         /\ Gains(d) /\ r = deliveries[d].replay_count /\ deliveries[d].attempts \in 1..n =>
              Receipts(d, r)' = Receipts(d, r) \cup {deliveries[d].attempts}
<1>1. /\ Receipts(d, r) = {a \in 1..n : HasReceipt(d, r, a)}
      /\ Receipts(d, r)' = {a \in 1..n : HasReceipt(d, r, a)'}
  BY DEF Receipts
<1>2. ASSUME Keeps(d) PROVE Receipts(d, r)' = Receipts(d, r)
  <2>1. \A a \in 1..n : HasReceipt(d, r, a)' <=> HasReceipt(d, r, a)
    BY <1>2 DEF Keeps
  <2> QED BY <1>1, <2>1
<1>3. ASSUME Gains(d), r # deliveries[d].replay_count PROVE Receipts(d, r)' = Receipts(d, r)
  <2>1. \A a \in 1..n : HasReceipt(d, r, a)' <=> HasReceipt(d, r, a)
    BY <1>3 DEF Gains
  <2> QED BY <1>1, <2>1
<1>4. ASSUME Gains(d), r = deliveries[d].replay_count, deliveries[d].attempts \in 1..n
      PROVE  Receipts(d, r)' = Receipts(d, r) \cup {deliveries[d].attempts}
  <2>1. \A a \in 1..n : HasReceipt(d, r, a)' <=> HasReceipt(d, r, a) \/ a = deliveries[d].attempts
    BY <1>4 DEF Gains
  <2> QED BY <1>1, <1>4, <2>1
<1> QED BY <1>2, <1>3, <1>4

\* Receipts of cycles beyond the row's, or of no row, do not exist.
LEMMA NoReceiptAhead ==
  ASSUME IInv, NEW d \in Delivery, NEW r \in Nat,
         deliveries[d].status = "absent" \/ r > deliveries[d].replay_count
  PROVE  Receipts(d, r) = {}
<1>1. deliveries[d].replay_count \in Nat
  BY DEF IInv, TypeOK, Row
<1>2. \A a \in Nat : ~HasReceipt(d, r, a)
  BY <1>1 DEF IInv, ReceiptsSound, HasReceipt
<1> QED BY <1>2 DEF Receipts

\* How a step moves the counters of a row that exists, and what it may know.
LEMMA CycleMoves ==
  ASSUME IInv, PresentSound, [Next]_vars, NEW d \in Delivery, deliveries[d].status # "absent"
  PROVE  LET row == deliveries[d]
             new == deliveries'[d] IN
         \/ /\ new.replay_count = row.replay_count /\ new.attempts = row.attempts
            /\ new.status = row.status \/ (Gains(d) /\ row.status = "delivering")
         \/ /\ new.replay_count = row.replay_count /\ new.attempts = row.attempts + 1
            /\ new.status = "delivering" 
            /\ row.status \in Waiting \/ (row.status = "delivering" /\ Gains(d))
         \/ /\ new.replay_count = row.replay_count + 1 /\ new.attempts = 0
            /\ row.status = "dead_letter" /\ new.status = "queued"
<1>1. TypeOK /\ deliveries[d] \in Row
  BY DEF IInv, TypeOK
<1>2. ~RowQueued(d)
  BY DEF RowQueued
<1>3. ASSUME NEW w \in Worker, RowClaimed(w, d)
      PROVE  /\ deliveries'[d].replay_count = deliveries[d].replay_count
             /\ deliveries'[d].attempts = deliveries[d].attempts + 1
             /\ deliveries'[d].status = "delivering"
             /\ \/ deliveries[d].status \in Waiting
                \/ deliveries[d].status = "delivering" /\ Gains(d)
  BY <1>3, ClaimedColumns, LeavesReceipt DEF Waiting
<1>4. ASSUME NEW w \in Worker, RowRetired(w, d) \/ RowSettled(w, d)
      PROVE  /\ deliveries'[d].replay_count = deliveries[d].replay_count
             /\ deliveries'[d].attempts = deliveries[d].attempts
             /\ Gains(d) /\ deliveries[d].status = "delivering"
  <2>1. /\ deliveries'[d].replay_count = deliveries[d].replay_count
        /\ deliveries'[d].attempts = deliveries[d].attempts
    BY <1>1, <1>4 DEF RowRetired, RetiredRow, RowSettled, SettledRow, Row
  <2>2. deliveries[d].status = "delivering"
    BY <1>4 DEF RowRetired, ClaimCommit, IInv, PicksSound, PickSound, RowSettled, RecordCommit, Fenced
  <2> QED BY <1>4, <2>1, <2>2, LeavesReceipt
<1>5. ASSUME NEW o \in Operator, RowReplayed(o, d)
      PROVE  /\ deliveries'[d].replay_count = deliveries[d].replay_count + 1
             /\ deliveries'[d].attempts = 0
             /\ deliveries[d].status = "dead_letter" /\ deliveries'[d].status = "queued"
  <2>1. deliveries[d].status = "dead_letter" /\ d = operator[o].delivery
    BY <1>5 DEF RowReplayed, ReplayUpdate, Replayable
  <2>2. deliveries'[d] = ReplayedRow(o, deliveries[d])
    BY <1>5 DEF RowReplayed
  <2>3. NextReplayCount(o) = deliveries[d].replay_count + 1
    BY <2>1 DEF NextReplayCount
  <2>4. /\ deliveries'[d].replay_count = NextReplayCount(o) /\ deliveries'[d].attempts = 0
        /\ deliveries'[d].status = "queued"
    BY <1>1, <2>2 DEF ReplayedRow, Row
  <2> QED BY <2>1, <2>3, <2>4
<1> QED BY <1>1, <1>2, <1>3, <1>4, <1>5, RowMoves

LEMMA TrailStep ==
  ASSUME IInv, PresentSound, AttemptsBegun, [Next]_vars, NEW d \in Delivery, Trail(d)
  PROVE  Trail(d)'
<1> DEFINE row == deliveries[d]
           new == deliveries'[d]
<1>1. /\ TypeOK /\ ResultsSound /\ RowSound(row)
      /\ row \in Row /\ new \in Row
  BY RowTyped DEF IInv, TypeOK, RowsSound
\* The row before the step, by values.
<1>2. PICK n \in Nat \ {0}, r \in Nat, a \in Nat :
        n = MaxAttemptsOf(row) /\ r = row.replay_count /\ a = row.attempts /\ a <= n
  <2>1. MaxAttemptsOf(row) \in Nat \ {0} /\ row.attempts \in 0..MaxAttemptsOf(row)
    BY <1>1, ConfigAssumption DEF RowSound, MaxAttemptsOf, Row
  <2> QED BY <1>1, <2>1 DEF Row
<1>3. Keeps(d) \/ (Gains(d) /\ row.status = "delivering")
  BY ReceiptGains
<1>4. CASE row.status = "absent"
  <2>1. row = AbsentRow /\ Keeps(d)
    BY <1>1, <1>3, <1>4 DEF RowSound
  <2>2. ASSUME NEW w \in Worker, RowClaimed(w, d) \/ RowRetired(w, d) \/ RowSettled(w, d)
        PROVE  FALSE
    BY <1>4, <2>2, ClaimedColumns
       DEF RowRetired, RowSettled, ClaimCommit, RecordCommit, Fenced, IInv, PicksSound, PickSound
  <2>3. ASSUME NEW o \in Operator, RowReplayed(o, d) PROVE FALSE
    BY <1>4, <2>3 DEF RowReplayed, ReplayUpdate, Replayable
  <2>4. new = row \/ RowQueued(d)
    BY <1>1, <2>2, <2>3, RowMoves
  <2>5. new.attempts = 0 /\ new.replay_count = 0
    <3>1. CASE new = row
      BY <2>1, <3>1 DEF AbsentRow
    <3>2. CASE RowQueued(d)
      <4>1. PICK c \in Config, b \in Payload, at \in Int : deliveries'[d] = QueuedRow(c, b, at)
        BY <3>2 DEF RowQueued
      <4> QED BY <4>1 DEF QueuedRow, AbsentRow
    <3> QED BY <2>4, <3>1, <3>2
  <2>6. \A q, b \in Nat : ~HasReceipt(d, q, b)
    <3>1. ReceiptsSound
      BY DEF IInv
    <3> QED BY <1>4, <3>1 DEF ReceiptsSound, HasReceipt
  <2>7. \A b \in Nat : ~HasReceipt(d, 0, b)'
    BY <2>1, <2>6 DEF Keeps
  <2>8. MaxAttemptsOf(new) \in Nat
    BY <1>1, ConfigAssumption DEF MaxAttemptsOf, Row
  <2>9. Receipts(d, 0)' = {}
    BY <2>7, <2>8 DEF Receipts
  <2> QED BY <2>5, <2>9 DEF Trail
<1>5. ASSUME row.status # "absent" PROVE Trail(d)'
  <2>1. n = MaxAttemptsOf(deliveries[d])'
    <3>1. new.config = row.config
      BY <1>1, <1>5, RowsForward DEF Forward
    <3> QED BY <1>2, <3>1 DEF MaxAttemptsOf
  <2>2. ASSUME NEW q \in Nat
        PROVE  /\ Keeps(d) => Receipts(d, q)' = Receipts(d, q)
               /\ Gains(d) /\ q # r => Receipts(d, q)' = Receipts(d, q)
               /\ Gains(d) /\ q = r /\ a \in 1..n => Receipts(d, q)' = Receipts(d, q) \cup {a}
    <3>1. n \in Nat /\ n = MaxAttemptsOf(deliveries[d]) /\ MaxAttemptsOf(deliveries[d])' = n
      BY <1>2, <2>1
    <3>2. /\ Keeps(d) => Receipts(d, q)' = Receipts(d, q)
          /\ Gains(d) /\ q # deliveries[d].replay_count => Receipts(d, q)' = Receipts(d, q)
          /\ Gains(d) /\ q = deliveries[d].replay_count /\ deliveries[d].attempts \in 1..n =>
               Receipts(d, q)' = Receipts(d, q) \cup {deliveries[d].attempts}
      BY <3>1, ReceiptsMove
    <3> QED BY <1>2, <3>2
  \* Cycles left behind keep their receipts.
  <2>3. \A q \in 0..(r - 1) : \E k \in 1..n : Receipts(d, q)' = 1..k
    BY <1>2, <1>3, <2>2 DEF Trail
  \* The running cycle is complete, or its running attempt is not receipted yet.
  <2>4. \/ Receipts(d, r)' = 1..a
        \/ row.status = "delivering" /\ ~Gains(d) /\ Receipts(d, r)' = 1..(a - 1)
    <3>1. Receipts(d, r) = 1..a \/ (row.status = "delivering" /\ Receipts(d, r) = 1..(a - 1))
      BY <1>2 DEF Trail
    <3>2. CASE Gains(d) /\ row.status = "delivering"
      <4>1. a \in 1..n
        BY <1>2, <3>2 DEF AttemptsBegun
      <4>2. Receipts(d, r)' = Receipts(d, r) \cup {a}
        BY <1>2, <2>2, <3>2, <4>1
      <4>3. (1..a) \cup {a} = 1..a /\ (1..(a - 1)) \cup {a} = 1..a
        BY <4>1
      <4> QED BY <3>1, <4>2, <4>3
    <3>3. CASE Keeps(d) /\ ~(Gains(d) /\ row.status = "delivering")
      BY <1>2, <2>2, <3>1, <3>3
    <3> QED BY <1>3, <3>2, <3>3
  <2>5. ASSUME new.replay_count = r, new.attempts = a, new.status = row.status \/ Gains(d)
        PROVE  Trail(d)'
    BY <1>2, <2>1, <2>3, <2>4, <2>5 DEF Trail
  <2>6. ASSUME new.replay_count = r, new.attempts = a + 1, new.status = "delivering",
               row.status \in Waiting \/ (row.status = "delivering" /\ Gains(d))
        PROVE  Trail(d)'
    <3>1. Receipts(d, r)' = 1..(new.attempts - 1)
      BY <1>2, <2>4, <2>6 DEF Waiting
    <3> QED BY <1>2, <2>1, <2>3, <2>6, <3>1 DEF Trail
  <2>7. ASSUME new.replay_count = r + 1, new.attempts = 0, row.status = "dead_letter"
        PROVE  Trail(d)'
    <3>1. Receipts(d, r)' = 1..a /\ a \in 1..n
      BY <1>2, <2>4, <2>7 DEF AttemptsBegun
    <3>2. Receipts(d, r + 1)' = {}
      <4>1. r + 1 \in Nat /\ r + 1 > deliveries[d].replay_count
        BY <1>2
      <4>2. Receipts(d, r + 1) = {}
        BY <4>1, NoReceiptAhead
      <4> QED BY <1>3, <2>2, <2>7, <4>1, <4>2
    <3>3. \A q \in 0..r : \E k \in 1..n : Receipts(d, q)' = 1..k
      BY <1>2, <2>3, <3>1
    <3> QED BY <1>2, <2>1, <2>7, <3>2, <3>3 DEF Trail
  <2> QED BY <1>1, <1>2, <1>5, <2>5, <2>6, <2>7, CycleMoves
<1> QED BY <1>4, <1>5

-----------------------------------------------------------------------------
(* The theorem. *)

TrailInv == IInv /\ PresentSound /\ AttemptsBegun /\ (\A d \in Delivery : Trail(d))

LEMMA InitTrail == Init => TrailInv
<1> SUFFICES ASSUME Init PROVE TrailInv
  OBVIOUS
<1>1. PresentSound /\ AttemptsBegun
  BY DEF Init, NoCalls, PresentSound, AttemptsBegun, AbsentRow
<1>2. ASSUME NEW d \in Delivery PROVE Trail(d)
  <2>1. deliveries[d].attempts = 0 /\ deliveries[d].replay_count = 0 /\ receipts = {}
    BY DEF Init, AbsentRow
  <2>2. Receipts(d, 0) = {}
    BY <2>1 DEF Receipts, HasReceipt
  <2> QED BY <2>1, <2>2 DEF Trail
<1> QED BY <1>1, <1>2, InitInv DEF TrailInv

LEMMA NextTrail == TrailInv /\ [Next]_vars => TrailInv'
<1> SUFFICES ASSUME TrailInv, [Next]_vars PROVE TrailInv'
  OBVIOUS
<1>1. ASSUME NEW d \in Delivery PROVE Trail(d)'
  BY TrailStep DEF TrailInv
<1>2. \A d \in Delivery : Trail(d)'
  BY <1>1
<1> QED BY <1>2, NextInv, PresentStep, AttemptsStep DEF TrailInv

THEOREM TrailInvariance == Spec => []TrailInv
BY InitTrail, NextTrail, PTL DEF Spec

\* Every cycle's receipts are an unbroken run that reaches the row's attempts,
\* all but the running one, and no cycle is receipted before it begins.
THEOREM TrailUnbroken == Spec => []ReceiptTrail
<1>1. ASSUME TrailInv PROVE ReceiptTrail
  <2>1. \A d \in Delivery : Trail(d)
    BY <1>1 DEF TrailInv
  <2>2. \A x \in receipts : x.replay_count <= deliveries[x.delivery_id].replay_count
    BY <1>1 DEF TrailInv, IInv, ReceiptsSound
  <2> QED BY <2>1, <2>2 DEF ReceiptTrail, Trail
<1> QED BY TrailInvariance, <1>1, PTL

-----------------------------------------------------------------------------
(* The contract. *)

\* The receipted generations of d, by the receipts that exist.
LEMMA ReceiptedAre ==
  ASSUME receipts \subseteq Receipt, NEW d \in Delivery
  PROVE  ReceiptedOf(d) = {g \in Nat \X Nat : HasReceipt(d, g[1], g[2])}
<1>1. ASSUME NEW g \in ReceiptedOf(d) PROVE g \in Nat \X Nat /\ HasReceipt(d, g[1], g[2])
  BY <1>1 DEF ReceiptedOf, HasReceipt, Receipt
<1>2. ASSUME NEW r \in Nat, NEW a \in Nat, HasReceipt(d, r, a) PROVE <<r, a>> \in ReceiptedOf(d)
  BY <1>2 DEF ReceiptedOf, HasReceipt
<1> QED BY <1>1, <1>2

LEMMA ReceiptedMoves ==
  ASSUME IInv, IInv', NEW d \in Delivery
  PROVE  /\ Keeps(d) => ReceiptedOf(d)' = ReceiptedOf(d)
         /\ Gains(d) => ReceiptedOf(d)' = ReceiptedOf(d) \cup
              {<<deliveries[d].replay_count, deliveries[d].attempts>>}
<1>1. /\ ReceiptedOf(d) = {g \in Nat \X Nat : HasReceipt(d, g[1], g[2])}
      /\ ReceiptedOf(d)' = {g \in Nat \X Nat : HasReceipt(d, g[1], g[2])'}
  <2>1. receipts \subseteq Receipt /\ receipts' \subseteq Receipt
    BY DEF IInv, TypeOK
  <2>2. \A g \in Nat \X Nat : g[1] \in Nat /\ g[2] \in Nat
    OBVIOUS
  <2>3. ReceiptedOf(d) = {g \in Nat \X Nat : HasReceipt(d, g[1], g[2])}
    BY <2>1, ReceiptedAre
  <2>4. ASSUME NEW g \in ReceiptedOf(d)' PROVE g \in Nat \X Nat /\ HasReceipt(d, g[1], g[2])'
    BY <2>1, <2>4 DEF ReceiptedOf, HasReceipt, Receipt
  <2>5. ASSUME NEW r \in Nat, NEW a \in Nat, HasReceipt(d, r, a)' PROVE <<r, a>> \in ReceiptedOf(d)'
    BY <2>5 DEF ReceiptedOf, HasReceipt
  <2> QED BY <2>3, <2>4, <2>5
<1>2. PICK r \in Nat, a \in Nat : r = deliveries[d].replay_count /\ a = deliveries[d].attempts
  BY DEF IInv, TypeOK, Row
<1>3. ASSUME Keeps(d) PROVE ReceiptedOf(d)' = ReceiptedOf(d)
  <2>1. \A g \in Nat \X Nat : HasReceipt(d, g[1], g[2])' <=> HasReceipt(d, g[1], g[2])
    BY <1>3 DEF Keeps
  <2> QED BY <1>1, <2>1
<1>4. ASSUME Gains(d) PROVE ReceiptedOf(d)' = ReceiptedOf(d) \cup {<<r, a>>}
  <2>1. \A g \in Nat \X Nat :
          HasReceipt(d, g[1], g[2])' <=> HasReceipt(d, g[1], g[2]) \/ g = <<r, a>>
    BY <1>2, <1>4 DEF Gains
  <2> QED BY <1>1, <1>2, <2>1
<1> QED BY <1>2, <1>3, <1>4

-----------------------------------------------------------------------------
(* The moves of the contract, field by field. *)

\* The state of a delivery is told by the status of its row.
LEMMA States ==
  /\ StateOf("absent") = "absent"
  /\ \A status \in Waiting : StateOf(status) = "waiting"
  /\ StateOf("delivering") = "leased"
  /\ StateOf("delivered") = "delivered"
  /\ StateOf("dead_letter") = "dead"
BY DEF StateOf, Waiting

\* The state of a delivery, field by field.
StateRecord(st, r, a, n, R) == [state |-> st, cycle |-> r, attempt |-> a, limit |-> n, receipted |-> R]

LEMMA FieldUpdates ==
  ASSUME NEW s, NEW st, NEW r, NEW a, NEW n, NEW R, NEW x, s = StateRecord(st, r, a, n, R)
  PROVE  /\ [s EXCEPT !.state = x] = StateRecord(x, r, a, n, R)
         /\ [s EXCEPT !.cycle = x] = StateRecord(st, x, a, n, R)
         /\ [s EXCEPT !.attempt = x] = StateRecord(st, r, x, n, R)
         /\ [s EXCEPT !.limit = x] = StateRecord(st, r, a, x, R)
         /\ [s EXCEPT !.receipted = x] = StateRecord(st, r, a, n, x)
         /\ s.state = st /\ s.cycle = r /\ s.attempt = a /\ s.limit = n /\ s.receipted = R
BY DEF StateRecord

LEMMA AcceptMove ==
  ASSUME NEW s, NEW t, NEW c \in Config,
         s = Contract!Absent, t = StateRecord("waiting", 0, 0, MaxAttempts[c], {})
  PROVE  Contract!Move(s, t)
<1>1. s = StateRecord("absent", 0, 0, 0, {})
  BY DEF Contract!Absent, StateRecord
<1>2. PICK u : u = [s EXCEPT !.state = "waiting"]
  OBVIOUS
<1>3. u = StateRecord("waiting", 0, 0, 0, {})
  BY <1>1, <1>2, FieldUpdates
<1>4. [u EXCEPT !.limit = MaxAttempts[c]] = t
  BY <1>3, FieldUpdates
<1>5. [s EXCEPT !.state = "waiting", !.limit = MaxAttempts[c]] = t
  BY <1>2, <1>4
<1> QED BY <1>5 DEF Contract!Move, Contract!Accept

LEMMA ReceiptingMoves ==
  ASSUME NEW s, NEW t, NEW r \in Nat, NEW a \in Nat, NEW n \in Nat, NEW R, NEW st, NEW b,
         s = StateRecord("leased", r, a, n, R),
         t = StateRecord(st, r, b, n, R \cup {<<r, a>>}),
         \/ b = a /\ st \in {"leased", "delivered", "dead"}
         \/ b = a /\ st = "waiting" /\ a < n
         \/ b = a + 1 /\ st = "leased" /\ a < n
  PROVE  Contract!Move(s, t)
<1>1. PICK u, Q : u = Contract!Receipted(s) /\ Q = R \cup {<<r, a>>}
  OBVIOUS
<1>0. s.state = "leased" /\ s.attempt = a /\ s.limit = n /\ s.receipted = R /\ s.cycle = r
  BY FieldUpdates
<1>2. u = StateRecord("leased", r, a, n, Q)
  <2>1. u = [s EXCEPT !.receipted = Q]
    BY <1>0, <1>1 DEF Contract!Receipted, Contract!Generation
  <2> QED BY <2>1, FieldUpdates
<1>3. CASE b = a
  <2>1. [u EXCEPT !.state = st] = t
    <3>1. [u EXCEPT !.state = st] = StateRecord(st, r, a, n, Q)
      BY <1>2, FieldUpdates
    <3> QED BY <1>1, <1>3, <3>1
  <2>2. st = "leased" => t = u
    BY <1>1, <1>2, <1>3
  <2> QED BY <1>0, <1>1, <1>3, <2>1, <2>2
          DEF Contract!Move, Contract!Lapse, Contract!Reschedule, Contract!Deliver, Contract!Bury
<1>4. CASE b = a + 1 /\ st = "leased" /\ a < n
  <2>1. [u EXCEPT !.attempt = a + 1] = t /\ u.attempt = a
    BY <1>1, <1>2, <1>4, FieldUpdates
  <2> QED BY <1>0, <1>1, <1>4, <2>1 DEF Contract!Move, Contract!Recover
<1> QED BY <1>3, <1>4

LEMMA LeaseMove ==
  ASSUME NEW s, NEW t, NEW r \in Nat, NEW a \in Nat, NEW n \in Nat, NEW R, a < n,
         s = StateRecord("waiting", r, a, n, R),
         t = StateRecord("leased", r, a + 1, n, R)
  PROVE  Contract!Move(s, t)
<1>1. PICK u : u = [s EXCEPT !.state = "leased"]
  OBVIOUS
<1>2. u = StateRecord("leased", r, a, n, R) /\ s.state = "waiting" /\ s.attempt = a /\ s.limit = n
  BY <1>1, FieldUpdates
<1>3. [u EXCEPT !.attempt = a + 1] = t
  BY <1>2, FieldUpdates
<1>4. [s EXCEPT !.state = "leased", !.attempt = @ + 1] = t
  BY <1>1, <1>2, <1>3
<1> QED BY <1>2, <1>4 DEF Contract!Move, Contract!Lease

LEMMA ReplayMove ==
  ASSUME NEW s, NEW t, NEW r \in Nat, NEW a \in Nat, NEW n \in Nat, NEW R, r < MaxReplayCount,
         s = StateRecord("dead", r, a, n, R),
         t = StateRecord("waiting", r + 1, 0, n, R)
  PROVE  Contract!Move(s, t)
<1>1. PICK u : u = [s EXCEPT !.state = "waiting"]
  OBVIOUS
<1>2. u = StateRecord("waiting", r, a, n, R) /\ s.state = "dead" /\ s.cycle = r
  BY <1>1, FieldUpdates
<1>3. PICK q, v : q = r + 1 /\ v = [u EXCEPT !.cycle = q]
  OBVIOUS
<1>4. v = StateRecord("waiting", q, a, n, R)
  <2>1. [u EXCEPT !.cycle = q] = StateRecord("waiting", q, a, n, R)
    BY <1>2, FieldUpdates
  <2> QED BY <1>3, <2>1
<1>5. [v EXCEPT !.attempt = 0] = t
  <2>1. [v EXCEPT !.attempt = 0] = StateRecord("waiting", q, 0, n, R)
    BY <1>4, FieldUpdates
  <2> QED BY <1>3, <2>1
<1>6. [s EXCEPT !.state = "waiting", !.cycle = @ + 1, !.attempt = 0] = t
  BY <1>1, <1>2, <1>3, <1>5
<1> QED BY <1>2, <1>6 DEF Contract!Move, Contract!Replay

-----------------------------------------------------------------------------
(* Rows and receipts together, as a state of the contract. *)

LEMMA PromiseAt ==
  ASSUME NEW d \in Delivery
  PROVE  /\ Promise[d] =
              StateRecord(StateOf(deliveries[d].status), deliveries[d].replay_count,
                          deliveries[d].attempts,
                          IF deliveries[d].status = "absent" THEN 0 ELSE MaxAttemptsOf(deliveries[d]),
                          ReceiptedOf(d))
         /\ Promise'[d] =
              StateRecord(StateOf(deliveries'[d].status), deliveries'[d].replay_count,
                          deliveries'[d].attempts,
                          IF deliveries'[d].status = "absent" THEN 0 ELSE MaxAttemptsOf(deliveries'[d]),
                          ReceiptedOf(d)')
BY DEF Promise, MaxAttemptsOf, StateRecord

\* A step with a row that does not exist yet.
LEMMA AbsentMoves ==
  ASSUME IInv, IInv', PresentSound, [Next]_vars, NEW d \in Delivery, deliveries[d].status = "absent"
  PROVE  Promise'[d] = Promise[d] \/ Contract!Move(Promise[d], Promise'[d])
<1>1. deliveries[d] = AbsentRow
  BY DEF IInv, RowsSound, RowSound
<1>2. ReceiptedOf(d) = {} /\ ReceiptedOf(d)' = {}
  <2>1. ReceiptedOf(d) = {}
    BY DEF IInv, ReceiptsSound, ReceiptedOf
  <2> QED BY <2>1, ReceiptGains, ReceiptedMoves
<1>3. Promise[d] = Contract!Absent
  <2>1. deliveries[d].attempts = 0 /\ deliveries[d].replay_count = 0
    BY <1>1 DEF AbsentRow
  <2>2. Promise[d] = StateRecord("absent", 0, 0, 0, {})
    BY <1>2, <2>1, PromiseAt, States
  <2> QED BY <2>2 DEF Contract!Absent, StateRecord
<1>4. CASE deliveries'[d] = deliveries[d]
  BY <1>2, <1>4, PromiseAt
<1>5. CASE RowQueued(d)
  <2>1. PICK c \in Config, b \in Payload, at \in Int : deliveries'[d] = QueuedRow(c, b, at)
    BY <1>5 DEF RowQueued
  <2>2. /\ deliveries'[d].status = "queued" /\ deliveries'[d].config = c
        /\ deliveries'[d].attempts = 0 /\ deliveries'[d].replay_count = 0
    BY <2>1 DEF QueuedRow, AbsentRow
  <2>3. StateOf(deliveries'[d].status) = "waiting" /\ MaxAttemptsOf(deliveries'[d]) = MaxAttempts[c]
    BY <2>2, States DEF Waiting, MaxAttemptsOf
  <2>4. Promise'[d] = StateRecord("waiting", 0, 0, MaxAttempts[c], {})
    BY <1>2, <2>2, <2>3, PromiseAt
  <2> QED BY <1>3, <2>4, AcceptMove
<1>6. ASSUME NEW w \in Worker, RowClaimed(w, d) \/ RowRetired(w, d) \/ RowSettled(w, d) PROVE FALSE
  BY <1>6, ClaimedColumns
     DEF RowRetired, RowSettled, ClaimCommit, RecordCommit, Fenced, IInv, PicksSound, PickSound
<1>7. ASSUME NEW o \in Operator, RowReplayed(o, d) PROVE FALSE
  BY <1>7 DEF RowReplayed, ReplayUpdate, Replayable
<1> QED BY <1>4, <1>5, <1>6, <1>7, RowMoves DEF IInv

\* A step with a row that exists.
LEMMA ExistingMoves ==
  ASSUME IInv, IInv', PresentSound, [Next]_vars, NEW d \in Delivery, deliveries[d].status # "absent"
  PROVE  Promise'[d] = Promise[d] \/ Contract!Move(Promise[d], Promise'[d])
<1> DEFINE row == deliveries[d]
           new == deliveries'[d]
\* The counters and the receipts, by values.
<1>1. PICK n, r, a, R, Q :
        /\ n = MaxAttemptsOf(row) /\ r = row.replay_count /\ a = row.attempts
        /\ R = ReceiptedOf(d) /\ Q = ReceiptedOf(d)'
        /\ n \in Nat /\ r \in Nat /\ a \in Nat
  <2>1. MaxAttemptsOf(row) \in Nat /\ row.replay_count \in Nat /\ row.attempts \in Nat
    BY ConfigAssumption DEF IInv, TypeOK, Row, MaxAttemptsOf
  <2> QED BY <2>1
<1>2. /\ row.status \in DeliveryStatus /\ new.status \in DeliveryStatus
      /\ MaxAttemptsOf(new) = n
  <2>1. new.status # "absent" /\ new.config = row.config
    BY RowsForward DEF IInv, Forward
  <2> QED BY <1>1, <2>1, RowTyped DEF IInv, TypeOK, Row, MaxAttemptsOf
<1>3. /\ new.attempts <= n /\ new.replay_count <= MaxReplayCount
      /\ new.status \in Waiting => new.attempts < n
  BY <1>2 DEF IInv, RowsSound, RowSound, MaxAttemptsOf
<1>4. /\ Keeps(d) => Q = R
      /\ Gains(d) => Q = R \cup {<<r, a>>}
      /\ Keeps(d) \/ (Gains(d) /\ row.status = "delivering")
  BY <1>1, ReceiptGains, ReceiptedMoves
<1>5. /\ Promise[d] = StateRecord(StateOf(row.status), r, a, n, R)
      /\ Promise'[d] = StateRecord(StateOf(new.status), new.replay_count, new.attempts, n, Q)
  BY <1>1, <1>2, PromiseAt DEF DeliveryStatus
<1>6. CASE /\ new.replay_count = r /\ new.attempts = a
           /\ new.status = row.status \/ (Gains(d) /\ row.status = "delivering")
  <2>1. CASE Keeps(d) /\ new.status = row.status
    BY <1>4, <1>5, <1>6, <2>1
  <2>2. CASE Gains(d) /\ row.status = "delivering"
    <3>1. PICK st : st = StateOf(new.status)
      OBVIOUS
    <3>2. \/ st \in {"leased", "delivered", "dead"}
          \/ st = "waiting" /\ a < n
      BY <1>2, <1>3, <1>6, <3>1, States DEF DeliveryStatus, Waiting
    <3>3. /\ Promise[d] = StateRecord("leased", r, a, n, R)
          /\ Promise'[d] = StateRecord(st, r, a, n, R \cup {<<r, a>>})
      BY <1>4, <1>5, <1>6, <2>2, <3>1, States
    <3> QED BY <1>1, <3>2, <3>3, ReceiptingMoves
  <2> QED BY <1>4, <1>6, <2>1, <2>2
<1>7. CASE /\ new.replay_count = r /\ new.attempts = a + 1 /\ new.status = "delivering"
           /\ row.status \in Waiting \/ (row.status = "delivering" /\ Gains(d))
  <2>1. a < n /\ StateOf(new.status) = "leased"
    BY <1>1, <1>3, <1>7, States
  <2>2. CASE row.status \in Waiting
    <3>1. StateOf(row.status) = "waiting" /\ Q = R
      BY <1>4, <2>2, States DEF Waiting
    <3>2. /\ Promise[d] = StateRecord("waiting", r, a, n, R)
          /\ Promise'[d] = StateRecord("leased", r, a + 1, n, R)
      BY <1>5, <1>7, <2>1, <3>1
    <3> QED BY <1>1, <2>1, <3>2, LeaseMove
  <2>3. CASE row.status = "delivering" /\ Gains(d)
    <3>1. /\ Promise[d] = StateRecord("leased", r, a, n, R)
          /\ Promise'[d] = StateRecord("leased", r, a + 1, n, R \cup {<<r, a>>})
      BY <1>4, <1>5, <1>7, <2>1, <2>3, States
    <3> QED BY <1>1, <2>1, <3>1, ReceiptingMoves
  <2> QED BY <1>7, <2>2, <2>3
<1>8. CASE /\ new.replay_count = r + 1 /\ new.attempts = 0 /\ new.status = "queued"
           /\ row.status = "dead_letter"
  <2>1. r < MaxReplayCount
    BY <1>1, <1>3, <1>8, BoundsAssumption
  <2>2. /\ Promise[d] = StateRecord("dead", r, a, n, R)
        /\ Promise'[d] = StateRecord("waiting", r + 1, 0, n, R)
    BY <1>4, <1>5, <1>8, States DEF Waiting
  <2> QED BY <1>1, <2>1, <2>2, ReplayMove
<1> QED BY <1>1, <1>6, <1>7, <1>8, CycleMoves

-----------------------------------------------------------------------------
(* The theorems. *)

LEMMA InitPromise == Init => Contract!Init
<1> SUFFICES ASSUME Init PROVE Contract!Init
  OBVIOUS
<1>1. ASSUME NEW d \in Delivery PROVE Promise[d] = Contract!Absent
  <2>1. /\ deliveries[d].status = "absent" /\ deliveries[d].attempts = 0
        /\ deliveries[d].replay_count = 0 /\ ReceiptedOf(d) = {}
    BY DEF Init, AbsentRow, ReceiptedOf
  <2>2. Promise[d] = StateRecord("absent", 0, 0, 0, {})
    BY <2>1, PromiseAt, States
  <2> QED BY <2>2 DEF Contract!Absent, StateRecord
<1>2. Promise = [d \in Delivery |-> Promise[d]]
  BY DEF Promise
<1> QED BY <1>1, <1>2 DEF Contract!Init

\* Every step, a claim that touches many rows at once included, moves each
\* delivery by at most one move of the contract.
THEOREM MovesLegal == Spec => BatchMovesByContract
<1>1. ASSUME TrailInv, TrailInv', [Next]_vars PROVE Contract!Next
  <2>1. ASSUME NEW d \in Delivery
        PROVE  Promise'[d] = Promise[d] \/ Contract!Move(Promise[d], Promise'[d])
    BY <1>1, AbsentMoves, ExistingMoves DEF TrailInv
  <2> QED BY <2>1 DEF Contract!Next
<1>2. Spec => [][Contract!Next]_Promise
  BY <1>1, TrailInvariance, PTL DEF Spec
<1> QED BY <1>2 DEF BatchMovesByContract

\* The transactions of the Plugin keep the promises of DeliveryContract,
\* whatever calls they interleave with and wherever these are abandoned.
THEOREM ContractKept == Spec => ImplementsContract
<1>1. Spec => [][Contract!Next]_Promise
  BY MovesLegal DEF BatchMovesByContract
<1>2. Spec => Contract!Spec
  BY <1>1, InitPromise, PTL DEF Spec, Contract!Spec
<1> QED BY <1>2 DEF ImplementsContract
=============================================================================
