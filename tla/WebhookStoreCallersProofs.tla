---------------------- MODULE WebhookStoreCallersProofs ----------------------
(***************************************************************************)
(* What the callers of WebhookStore are told, which rows a claim leaves    *)
(* alone and who waits for whom, for any number of deliveries, calls and   *)
(* configurations: invariants of their own beside IInv.                    *)
(***************************************************************************)
EXTENDS WebhookStoreProofs

-----------------------------------------------------------------------------
(* Producers. *)

\* Columns that no statement updates.
LEMMA ContentKept ==
  ASSUME IInv, [Next]_vars, NEW d \in Delivery, deliveries[d].status # "absent"
  PROVE  /\ deliveries'[d].status # "absent"
         /\ deliveries'[d].config = deliveries[d].config
         /\ deliveries'[d].payload = deliveries[d].payload
<1>1. TypeOK /\ ResultsSound /\ deliveries[d] \in Row
  BY DEF IInv, TypeOK
<1>2. deliveries'[d].status # "absent" /\ deliveries'[d].config = deliveries[d].config
  BY <1>1, RowsForward DEF Forward
<1>3. ASSUME NEW w \in Worker, RowClaimed(w, d) \/ RowRetired(w, d) \/ RowSettled(w, d)
      PROVE  deliveries'[d].payload = deliveries[d].payload
  BY <1>1, <1>3 DEF RowClaimed, ClaimedRow, RowRetired, RetiredRow, RowSettled, SettledRow, Row
<1>4. ASSUME NEW o \in Operator, RowReplayed(o, d)
      PROVE  deliveries'[d].payload = deliveries[d].payload
  BY <1>1, <1>4 DEF RowReplayed, ReplayedRow, Row
<1>5. ~RowQueued(d)
  BY DEF RowQueued
<1> QED BY <1>1, <1>2, <1>3, <1>4, <1>5, RowMoves

\* What a producer was told is true of its row, which exists from its insert on.
Told(call) ==
  LET row  == deliveries[call.delivery]
      same == SameContent(row, call.config, call.payload) IN
  /\ call.step # "idle" => call.delivery \in Delivery /\ row.status # "absent"
  /\ call.step \in {"created", "existing"} => same
  /\ call.step = "conflict" => ~same

CreatedOnce ==
  \A p, q \in Producer :
    /\ producer[p].step = "created" /\ producer[q].step = "created"
    /\ producer[p].delivery = producer[q].delivery
    => p = q

ProducersTold == CreatedOnce /\ \A p \in Producer : Told(producer[p])

\* What was told stays true.
LEMMA ToldKept ==
  ASSUME IInv, [Next]_vars, NEW p \in Producer, Told(producer[p]), producer'[p] = producer[p]
  PROVE  Told(producer[p])'
<1>1. CASE producer[p].step = "idle"
  BY <1>1 DEF Told
<1>2. CASE producer[p].step # "idle"
  <2> DEFINE d == producer[p].delivery
  <2>1. d \in Delivery /\ deliveries[d].status # "absent"
    BY <1>2 DEF Told
  <2>2. /\ deliveries'[d].status # "absent"
        /\ deliveries'[d].config = deliveries[d].config
        /\ deliveries'[d].payload = deliveries[d].payload
    BY <2>1, ContentKept
  <2> QED BY <2>1, <2>2 DEF Told, SameContent
<1> QED BY <1>1, <1>2

\* An enqueue moves one producer, and tells it what is true of its row.
LEMMA EnqueueTold ==
  ASSUME IInv, [Next]_vars, NEW p \in Producer, Enqueue(p), Told(producer[p])
  PROVE  /\ \A q \in Producer \ {p} : producer'[q] = producer[q]
         /\ Told(producer[p])'
         /\ producer'[p].step = "created" =>
              deliveries[producer'[p].delivery].status = "absent"
<1>1. TypeOK /\ DOMAIN producer = Producer /\ DOMAIN deliveries = Delivery
  BY DEF IInv, TypeOK
<1>2. ASSUME NEW d \in Delivery, NEW c \in Config, NEW b \in Payload, EnqueueInsert(p, d, c, b)
      PROVE  /\ \A q \in Producer \ {p} : producer'[q] = producer[q]
             /\ Told(producer[p])'
             /\ producer'[p].step = "created" =>
                  deliveries[producer'[p].delivery].status = "absent"
  <2>1. CASE deliveries[d].status = "absent"
    <3>1. producer' = [producer EXCEPT ![p] =
            [step |-> "created", delivery |-> d, config |-> c, payload |-> b]]
      BY <1>2, <2>1 DEF EnqueueInsert
    <3>2. PICK at : deliveries' = [deliveries EXCEPT ![d] = QueuedRow(c, b, at)]
      BY <1>2, <2>1 DEF EnqueueInsert
    <3>3. producer'[p] = [step |-> "created", delivery |-> d, config |-> c, payload |-> b]
      BY <1>1, <3>1
    <3>4. deliveries'[d] = QueuedRow(c, b, at)
      BY <1>1, <3>2
    <3>5. SameContent(deliveries'[d], c, b) /\ deliveries'[d].status # "absent"
      BY <3>4 DEF QueuedRow, AbsentRow, SameContent
    <3> QED BY <1>1, <2>1, <3>1, <3>3, <3>5 DEF Told, SameContent
  <2>2. CASE deliveries[d].status # "absent"
    <3>1. /\ producer' = [producer EXCEPT ![p] =
               [step |-> "conflicted", delivery |-> d, config |-> c, payload |-> b]]
          /\ UNCHANGED deliveries
      BY <1>2, <2>2 DEF EnqueueInsert
    <3>2. producer'[p] = [step |-> "conflicted", delivery |-> d, config |-> c, payload |-> b]
      BY <1>1, <3>1
    <3> QED BY <1>1, <2>2, <3>1, <3>2 DEF Told
  <2> QED BY <2>1, <2>2
<1>3. CASE EnqueueLock(p)
  <2>1. /\ producer' = [producer EXCEPT ![p] = [producer[p] EXCEPT !.step = "locked"]]
        /\ producer[p].step = "conflicted" /\ UNCHANGED deliveries
    BY <1>3 DEF EnqueueLock, tables
  <2>2. producer'[p] = [producer[p] EXCEPT !.step = "locked"]
    BY <1>1, <2>1
  <2>3. producer'[p].step = "locked" /\ producer'[p].delivery = producer[p].delivery
    BY <1>1, <2>2 DEF TypeOK
  <2> QED BY <1>1, <2>1, <2>3 DEF Told
<1>4. CASE EnqueueReply(p)
  <2> DEFINE same == SameContent(deliveries[producer[p].delivery], producer[p].config, producer[p].payload)
             step == IF same THEN "existing" ELSE "conflict"
  <2>1. /\ producer' = [producer EXCEPT ![p] = [producer[p] EXCEPT !.step = step]]
        /\ producer[p].step = "locked" /\ UNCHANGED deliveries
    BY <1>4 DEF EnqueueReply, tables
  <2>2. producer'[p] = [producer[p] EXCEPT !.step = step]
    BY <1>1, <2>1
  <2>3. /\ producer'[p].step = step
        /\ producer'[p].delivery = producer[p].delivery
        /\ producer'[p].config = producer[p].config
        /\ producer'[p].payload = producer[p].payload
    BY <1>1, <2>2 DEF TypeOK
  <2>4. \A q \in Producer \ {p} : producer'[q] = producer[q]
    BY <1>1, <2>1
  <2>5. Told(producer[p])'
    BY <2>1, <2>3 DEF Told, SameContent
  <2> QED BY <2>3, <2>4, <2>5
<1>5. CASE EnqueueLost(p)
  <2>1. producer' = [producer EXCEPT ![p] = NoEnqueue]
    BY <1>5 DEF EnqueueLost
  <2>2. producer'[p] = NoEnqueue
    BY <1>1, <2>1
  <2> QED BY <1>1, <2>1, <2>2 DEF Told, NoEnqueue
<1> QED BY <1>2, <1>3, <1>4, <1>5 DEF Enqueue

LEMMA ProducersStep ==
  ASSUME IInv, [Next]_vars, ProducersTold
  PROVE  ProducersTold'
<1>1. \A p \in Producer : Told(producer[p])
  BY DEF ProducersTold
<1>2. ASSUME NEW p \in Producer, Enqueue(p)
      PROVE  /\ \A q \in Producer \ {p} : producer'[q] = producer[q]
             /\ Told(producer[p])'
             /\ producer'[p].step = "created" =>
                  deliveries[producer'[p].delivery].status = "absent"
  BY <1>1, <1>2, EnqueueTold
<1>3. \A p \in Producer : Told(producer[p])'
  BY <1>1, <1>2, ToldKept, WhoMoves
<1>4. ASSUME NEW p \in Producer, NEW q \in Producer, p # q,
             producer'[p].step = "created", producer'[q].step = "created",
             producer'[p].delivery = producer'[q].delivery
      PROVE  FALSE
  <2>1. ASSUME NEW r \in Producer, Enqueue(r), NEW s \in Producer, r # s,
               producer'[r].step = "created", producer'[s].step = "created",
               producer'[r].delivery = producer'[s].delivery
        PROVE  FALSE
    <3>1. producer'[s] = producer[s] /\ deliveries[producer'[r].delivery].status = "absent"
      BY <1>2, <2>1
    <3> QED BY <1>1, <2>1, <3>1 DEF Told
  <2>2. producer'[p] = producer[p] /\ producer'[q] = producer[q]
    BY <1>2, <1>4, <2>1, WhoMoves
  <2> QED BY <1>4, <2>2 DEF ProducersTold, CreatedOnce
<1> QED BY <1>3, <1>4 DEF ProducersTold, CreatedOnce

-----------------------------------------------------------------------------
(* Operators. *)

\* A replay adds one to the cycles of its row and is answered that number.
LEMMA ReplayAnswered ==
  ASSUME IInv, [Next]_vars, NEW o \in Operator, Replay(o)
  PROVE  /\ \A u \in Operator \ {o} : operator'[u] = operator[u]
         /\ operator'[o].step = "replayed" =>
              /\ operator'[o].delivery \in Delivery
              /\ operator'[o].replay_count = deliveries'[operator'[o].delivery].replay_count
              /\ operator'[o].replay_count = deliveries[operator'[o].delivery].replay_count + 1
<1>1. TypeOK /\ DOMAIN operator = Operator /\ DOMAIN deliveries = Delivery
  BY DEF IInv, TypeOK
<1>2. CASE ReplayUpdate(o)
  <2> DEFINE d == operator[o].delivery
             r == [step |-> "replayed", delivery |-> d, replay_count |-> NextReplayCount(o)]
  <2>1. operator' = [operator EXCEPT ![o] = r] /\ d \in Delivery
    BY <1>2 DEF ReplayUpdate, IInv, ReplaysSound
  <2>2. deliveries' = [deliveries EXCEPT ![d] = ReplayedRow(o, deliveries[d])]
    BY <1>2 DEF ReplayUpdate
  <2>3. deliveries'[d] = ReplayedRow(o, deliveries[d]) /\ deliveries[d] \in Row
    BY <1>1, <2>1, <2>2 DEF TypeOK
  <2>4. deliveries'[d].replay_count = NextReplayCount(o)
    BY <2>3 DEF ReplayedRow, Row
  <2> QED BY <1>1, <2>1, <2>4 DEF NextReplayCount
<1>3. ASSUME NEW d \in Delivery, ReplayLoad(o, d)
      PROVE  /\ \A u \in Operator \ {o} : operator'[u] = operator[u]
             /\ operator'[o].step # "replayed"
  BY <1>1, <1>3 DEF ReplayLoad
<1>4. CASE ReplayRefused(o)
  BY <1>1, <1>4 DEF ReplayRefused, NoReplay
<1> QED BY <1>2, <1>3, <1>4 DEF Replay

\* The numbers that were answered for a row are cycles it has reached, and a
\* new one is beyond them all.
LEMMA ReplayedOnceStep ==
  ASSUME IInv, [Next]_vars, ReplayOpensOneCycle
  PROVE  ReplayOpensOneCycle'
<1> DEFINE Reached(o) ==
      operator[o].step = "replayed" =>
        /\ operator[o].delivery \in Delivery
        /\ operator[o].replay_count <= deliveries[operator[o].delivery].replay_count
<1>1. TypeOK /\ ResultsSound /\ ReplaysSound
  BY DEF IInv
<1>2. ASSUME NEW d \in Delivery
      PROVE  /\ deliveries[d].replay_count \in Nat /\ deliveries'[d].replay_count \in Nat
             /\ deliveries'[d].replay_count >= deliveries[d].replay_count
  <2>1. deliveries[d] \in Row /\ deliveries'[d] \in Row
    BY <1>1, RowTyped DEF TypeOK
  <2>2. CASE deliveries[d].status = "absent"
    BY <2>1, <2>2 DEF IInv, RowsSound, RowSound, AbsentRow, Row
  <2>3. CASE deliveries[d].status # "absent"
    BY <1>1, <2>1, <2>3, RowsForward DEF Forward, Row
  <2> QED BY <2>1, <2>2, <2>3 DEF Row
<1>3. \A o \in Operator : operator[o].replay_count \in Nat
  BY <1>1 DEF TypeOK
<1>4. \A o \in Operator : Reached(o)
  BY <1>1 DEF ReplayOpensOneCycle, ReplaysSound
<1>5. ASSUME NEW o \in Operator, operator'[o] = operator[o] PROVE Reached(o)'
  BY <1>2, <1>3, <1>4, <1>5
<1>6. ASSUME NEW o \in Operator, Replay(o), operator'[o].step = "replayed"
      PROVE  /\ operator'[o].delivery \in Delivery
             /\ operator'[o].replay_count = deliveries'[operator'[o].delivery].replay_count
             /\ operator'[o].replay_count = deliveries[operator'[o].delivery].replay_count + 1
  BY <1>6, ReplayAnswered
<1>7. ASSUME NEW o \in Operator PROVE Reached(o)'
  BY <1>2, <1>5, <1>6, ReplayAnswered, WhoMoves
<1>8. ASSUME NEW o \in Operator, NEW u \in Operator, o # u, Replay(o),
             operator'[o].step = "replayed", operator'[u].step = "replayed",
             operator'[u].delivery = operator'[o].delivery
      PROVE  operator'[u].replay_count # operator'[o].replay_count
  <2>1. operator'[u] = operator[u]
    BY <1>8, ReplayAnswered
  <2> QED BY <1>2, <1>3, <1>4, <1>6, <1>8, <2>1
<1>9. ASSUME NEW o \in Operator, NEW u \in Operator, o # u,
             operator'[o].step = "replayed", operator'[u].step = "replayed",
             operator'[u].delivery = operator'[o].delivery
      PROVE  operator'[u].replay_count # operator'[o].replay_count
  <2>1. CASE operator'[o] = operator[o] /\ operator'[u] = operator[u]
    BY <1>9, <2>1 DEF ReplayOpensOneCycle
  <2>2. (operator'[o] = operator[o] /\ operator'[u] = operator[u]) \/ Replay(o) \/ Replay(u)
    BY ReplayAnswered, WhoMoves
  <2> QED BY <1>8, <1>9, <2>1, <2>2
<1> QED BY <1>7, <1>9 DEF ReplayOpensOneCycle

-----------------------------------------------------------------------------
(* Locks and queues of the claims. *)

\* A row that a claim has locked is locked by nobody else.
LocksApart ==
  \A w \in Worker, d \in Delivery :
    WorkerLocks(w, d) => ~KeyShare(d) /\ \A p \in Producer : ~ProducerLocks(p, d)

\* A claim has locked rows of its own queue.
PicksInQueue ==
  \A w \in Worker, d \in Delivery : WorkerLocks(w, d) => InQueue(w, d)

\* Rows are written by the two commits of a dispatch, or while no dispatch moves.
LEMMA WhoWrites ==
  ASSUME [Next]_vars
  PROVE  \/ UNCHANGED deliveries
         \/ UNCHANGED calls
         \/ \E w \in Worker : ClaimCommit(w) \/ RecordCommit(w)
<1> USE DEF tables
<1>1. CASE UNCHANGED vars \/ Tick
  BY <1>1 DEF vars, Tick
<1>2. ASSUME NEW p \in Producer, Enqueue(p) PROVE UNCHANGED calls
  BY <1>2, EnqueueFrame
<1>3. ASSUME NEW o \in Operator, Replay(o) PROVE UNCHANGED calls
  BY <1>3, ReplayFrame
<1>4. ASSUME NEW w \in Worker, Claim(w) PROVE UNCHANGED deliveries \/ ClaimCommit(w)
  BY <1>4 DEF Claim, ClaimBegin, ClaimLock
<1>5. ASSUME NEW w \in Worker, Attempt(w) \/ Abandon(w) PROVE UNCHANGED deliveries
  BY <1>5 DEF Attempt, EndpointChanged, Post, HttpAnswer, Abandon
<1>6. ASSUME NEW w \in Worker, Record(w) PROVE UNCHANGED deliveries \/ RecordCommit(w)
  BY <1>6 DEF Record, RecordBegin, RecordInsert, RecordRefused, RecordLink, RecordFenced
<1> QED BY <1>1, <1>2, <1>3, <1>4, <1>5, <1>6 DEF Next

\* A claim that held its locks has written, or left the tables as they were.
LEMMA ClaimEnds ==
  ASSUME CallsTyped, [Next]_vars, NEW w \in Worker,
         pc[w] = "claim_locked", pc'[w] # "claim_locked"
  PROVE  ClaimCommit(w) \/ UNCHANGED tables
<1>1. CASE UNCHANGED vars \/ Tick
  BY <1>1 DEF vars, Tick, tables, calls
<1>2. ASSUME NEW p \in Producer, Enqueue(p) PROVE FALSE
  BY <1>2, EnqueueFrame DEF calls
<1>3. ASSUME NEW o \in Operator, Replay(o) PROVE FALSE
  BY <1>3, ReplayFrame DEF calls
<1>4. ASSUME NEW v \in Worker, Claim(v) PROVE ClaimCommit(w) \/ UNCHANGED tables
  <2>1. ASSUME ClaimCommit(v) PROVE v = w
    BY <2>1 DEF ClaimCommit, At, Finish, CallsTyped
  <2> QED BY <1>4, <2>1 DEF Claim, ClaimBegin, ClaimLock
<1>5. ASSUME NEW v \in Worker, Attempt(v) \/ Abandon(v) PROVE UNCHANGED tables
  BY <1>5 DEF Attempt, EndpointChanged, Post, HttpAnswer, Abandon
<1>6. ASSUME NEW v \in Worker, Record(v) PROVE FALSE
  <2>1. v # w
    BY <1>6 DEF Record, RecordBegin, RecordInsert, RecordRefused, RecordLink, RecordCommit, RecordFenced
  <2> QED BY <1>6, <2>1 DEF Record, RecordBegin, RecordInsert, RecordRefused, RecordLink,
            RecordCommit, RecordFenced, At, Finish, CallsTyped
<1> QED BY <1>1, <1>2, <1>3, <1>4, <1>5, <1>6 DEF Next

\* Every lock of a claim was free, and its row in the queue, when it was taken.
LEMMA ClaimLocksFree ==
  ASSUME IInv, NEW w \in Worker, ClaimLock(w), NEW d \in Delivery, WorkerLocks(w, d)'
  PROVE  Lockable(d) /\ InQueue(w, d)
<1>1. picked \in [Worker -> Pick]
  BY DEF IInv, TypeOK
<1>2. PICK batch \in SUBSET Expired(w), e \in Delivery \cup {NoDelivery} :
        IsCandidate(w, batch, e) /\ picked' = [picked EXCEPT ![w] = [expired |-> batch, candidate |-> e]]
  BY DEF ClaimLock
<1>3. d \in batch \cup {e}
  BY <1>1, <1>2 DEF WorkerLocks, Rows
<1>4. CASE d \in batch
  BY <1>4 DEF Expired
<1>5. CASE d = e
  <2>1. d \in Due(w, batch)
    BY <1>2, <1>5, DeliveryAssumption DEF IsCandidate
  <2> QED BY <2>1 DEF Due
<1> QED BY <1>3, <1>4, <1>5

\* A lock of a claim is an old one or was just taken.
LEMMA WorkerLockMoves ==
  ASSUME IInv, [Next]_vars, NEW w \in Worker, NEW d \in Delivery, WorkerLocks(w, d)'
  PROVE  \/ WorkerLocks(w, d) /\ CallKept(w) /\ deliveries'[d] = deliveries[d]
         \/ ClaimLock(w) /\ deliveries'[d] = deliveries[d]
<1>1. pc'[w] = "claim_locked"
  BY DEF WorkerLocks
<1>2. CASE pc[w] = "claim_locked" /\ CallKept(w)
  <2>1. WorkerLocks(w, d)
    BY <1>2 DEF WorkerLocks, Rows, CallKept
  <2> QED BY <1>1, <1>2, <2>1, LockedRowKept
<1>3. CASE ClaimLock(w)
  BY <1>3, Picked
<1> QED BY <1>1, <1>2, <1>3, PickMoves

LEMMA PicksInQueueStep ==
  ASSUME IInv, [Next]_vars, PicksInQueue
  PROVE  PicksInQueue'
<1>1. SUFFICES ASSUME NEW w \in Worker, NEW d \in Delivery, WorkerLocks(w, d)'
               PROVE  InQueue(w, d)'
  BY DEF PicksInQueue
<1>2. CASE WorkerLocks(w, d) /\ CallKept(w) /\ deliveries'[d] = deliveries[d]
  BY <1>2 DEF PicksInQueue, InQueue, CallKept
<1>3. CASE ClaimLock(w) /\ deliveries'[d] = deliveries[d]
  <2>1. InQueue(w, d)
    BY <1>1, <1>3, ClaimLocksFree
  <2> QED BY <1>3, <2>1 DEF InQueue, ClaimLock
<1> QED BY <1>1, <1>2, <1>3, WorkerLockMoves

\* Whoever else takes a lock on d finds it free of claims.
LEMMA OtherLockMoves ==
  ASSUME IInv, [Next]_vars, NEW d \in Delivery
  PROVE  /\ KeyShare(d)' => KeyShare(d) \/ (~ForUpdate(d) /\ \A w \in Worker : ~ClaimLock(w))
         /\ \A p \in Producer : ProducerLocks(p, d)' =>
              ProducerLocks(p, d) \/ (~ForUpdate(d) /\ \A w \in Worker : ~ClaimLock(w))
<1>1. TypeOK /\ CallsTyped /\ DOMAIN producer = Producer
  BY DEF IInv, TypeOK, CallsTyped
<1>2. ASSUME NEW v \in Worker, pc'[v] = "receipt_linked", claim'[v].delivery_id = d
      PROVE  KeyShare(d) \/ (~ForUpdate(d) /\ \A w \in Worker : ~ClaimLock(w))
  <2>1. CASE CallKept(v)
    BY <1>2, <2>1 DEF KeyShare, CallKept
  <2>2. CASE RecordLink(v)
    <3>1. ~ForUpdate(d)
      BY <1>2, <2>2 DEF RecordLink
    <3>2. ASSUME NEW w \in Worker, ClaimLock(w) PROVE FALSE
      BY <1>1, <2>2, <3>2 DEF RecordLink, ClaimLock, At, CallsTyped
    <3> QED BY <3>1, <3>2
  <2>3. ASSUME NEW c \in Config, ClaimBegin(v, c) PROVE FALSE
    BY <1>1, <1>2, <2>3 DEF ClaimBegin, At, CallsTyped
  <2>4. ASSUME ClaimLock(v) \/ ClaimCommit(v) \/ Attempt(v) \/ RecordBegin(v) \/ RecordInsert(v)
        PROVE  FALSE
    BY <1>1, <1>2, <2>4 DEF ClaimLock, ClaimCommit, Finish, Attempt, EndpointChanged, Post, HttpAnswer,
       RecordBegin, RecordInsert, At, CallsTyped
  <2> QED BY <1>1, <1>2, <2>1, <2>2, <2>3, <2>4, CallMoves
<1>3. ASSUME NEW p \in Producer, ProducerLocks(p, d)', ~ProducerLocks(p, d)
      PROVE  ~ForUpdate(d) /\ \A w \in Worker : ~ClaimLock(w)
  <2>1. producer'[p].step = "locked" /\ producer'[p].delivery = d /\ producer'[p] # producer[p]
    BY <1>3 DEF ProducerLocks
  <2>2. ASSUME NEW q \in Producer, Enqueue(q) PROVE EnqueueLock(p)
    <3>1. CASE \E e \in Delivery, c \in Config, b \in Payload : EnqueueInsert(q, e, c, b)
      BY <1>1, <2>1, <3>1 DEF EnqueueInsert
    <3>2. CASE EnqueueReply(q)
      BY <1>1, <2>1, <3>2 DEF EnqueueReply, TypeOK
    <3>3. CASE EnqueueLost(q)
      BY <1>1, <2>1, <3>3 DEF EnqueueLost, NoEnqueue
    <3>4. CASE EnqueueLock(q)
      BY <1>1, <2>1, <3>4 DEF EnqueueLock
    <3> QED BY <2>2, <3>1, <3>2, <3>3, <3>4 DEF Enqueue
  <2>3. EnqueueLock(p)
    BY <2>1, <2>2, WhoMoves
  <2>4. producer'[p].delivery = producer[p].delivery
    BY <1>1, <2>3 DEF EnqueueLock, TypeOK
  <2>5. \A w \in Worker : ~ClaimLock(w)
    BY <2>3, <1>1 DEF EnqueueLock, calls, ClaimLock, At, CallsTyped
  <2> QED BY <2>1, <2>3, <2>4, <2>5 DEF EnqueueLock, Lockable
<1> QED BY <1>2, <1>3 DEF KeyShare

LEMMA LocksApartStep ==
  ASSUME IInv, [Next]_vars, LocksApart
  PROVE  LocksApart'
<1>1. SUFFICES ASSUME NEW w \in Worker, NEW d \in Delivery, WorkerLocks(w, d)'
               PROVE  ~KeyShare(d)' /\ \A p \in Producer : ~ProducerLocks(p, d)'
  BY DEF LocksApart
<1>2. CASE WorkerLocks(w, d)
  BY <1>2, OtherLockMoves DEF LocksApart, ForUpdate
<1>3. CASE ~WorkerLocks(w, d) /\ ClaimLock(w)
  <2>1. Lockable(d)
    BY <1>1, <1>3, ClaimLocksFree
  <2>2. ~KeyShare(d) /\ \A p \in Producer : ~ProducerLocks(p, d)
    BY <2>1 DEF Lockable, ForUpdate
  <2> QED BY <1>3, <2>2, OtherLockMoves
<1> QED BY <1>1, <1>2, <1>3, WorkerLockMoves

-----------------------------------------------------------------------------
(* The theorems. *)

\* The four invariants above hold together with IInv.
CallersInv == IInv /\ ProducersTold /\ ReplayOpensOneCycle /\ PicksInQueue /\ LocksApart

LEMMA CallersInvariance == Spec => []CallersInv
<1>1. Init => CallersInv
  BY InitInv DEF CallersInv, Init, NoCalls, ProducersTold, CreatedOnce, Told, NoEnqueue,
     ReplayOpensOneCycle, NoReplay, PicksInQueue, LocksApart, WorkerLocks
<1>2. CallersInv /\ [Next]_vars => CallersInv'
  BY NextInv, ProducersStep, ReplayedOnceStep, PicksInQueueStep, LocksApartStep DEF CallersInv
<1> QED BY <1>1, <1>2, PTL DEF Spec

\* Producers that enqueue one event are told one story, whatever they race with.
THEOREM ProducersAgree == Spec => []EnqueueAgreement
<1>1. CallersInv => EnqueueAgreement
  BY DEF CallersInv, ProducersTold, CreatedOnce, Told, SameContent, EnqueueAgreement
<1> QED BY CallersInvariance, <1>1, PTL

\* No two replays are answered the same cycle.
THEOREM ReplaysOpenCycles == Spec => []ReplayOpensOneCycle
BY CallersInvariance, PTL DEF CallersInv

\* A wait of a claim for a record is a deadlock of those two and nobody else:
\* the claim's lock on the row is alone and keeps the record from its own.
THEOREM WaitsArePairs == Spec => []DeadlocksArePairs
<1>1. ASSUME CallersInv PROVE DeadlocksArePairs
  <2>1. SUFFICES ASSUME NEW v \in Worker, NEW w \in Worker, ClaimAwaits(w, v)
                 PROVE  /\ pc[v] = "receipt_inserted"
                        /\ {u \in Worker : WorkerLocks(u, claim[v].delivery_id)} = {w}
                        /\ ~\E p \in Producer : ProducerLocks(p, claim[v].delivery_id)
    BY DEF DeadlocksArePairs
  <2> DEFINE d == claim[v].delivery_id
  <2>2. WorkerLocks(w, d) /\ pc[v] \in {"receipt_inserted", "receipt_linked"}
    BY <2>1 DEF ClaimAwaits, WorkerLocks, Rows
  <2>3. d \in Delivery
    BY <1>1, <2>2 DEF CallersInv, IInv, ClaimsSound, ClaimSound, Holding, Recording
  <2>4. ~KeyShare(d) /\ \A p \in Producer : ~ProducerLocks(p, d)
    BY <1>1, <2>2, <2>3 DEF CallersInv, LocksApart
  <2>5. pc[v] = "receipt_inserted"
    BY <2>2, <2>4 DEF KeyShare
  <2>6. {u \in Worker : WorkerLocks(u, d)} = {w}
    BY <1>1, <2>2, <2>3 DEF CallersInv, IInv, LocksExclusive
  <2> QED BY <2>4, <2>5, <2>6
<1> QED BY CallersInvariance, <1>1, PTL

\* A claim changes rows, and adds receipts of rows, of its own queue only.
THEOREM QueuesStayApart == Spec => QueuesApart
<1> DEFINE Apart ==
             \A w \in Worker, d \in Delivery :
               /\ pc[w] = "claim_locked" /\ pc'[w] # "claim_locked"
               /\ deliveries'[d] # deliveries[d] \/ \E x \in receipts' \ receipts : x.delivery_id = d
               => QueueName[deliveries[d].config] = QueueName[config[w]]
<1>1. ASSUME CallersInv, [Next]_vars PROVE Apart
  <2>1. SUFFICES ASSUME NEW w \in Worker, NEW d \in Delivery, pc[w] = "claim_locked",
                        pc'[w] # "claim_locked",
                        \/ deliveries'[d] # deliveries[d]
                        \/ \E x \in receipts' \ receipts : x.delivery_id = d
                 PROVE  InQueue(w, d)
    BY DEF InQueue
  <2>2. TypeOK /\ CallsTyped
    BY <1>1 DEF CallersInv, IInv, TypeOK, CallsTyped
  <2>3. ClaimCommit(w) \/ UNCHANGED tables
    BY <1>1, <2>1, <2>2, ClaimEnds
  <2>4. ClaimCommit(w)
    BY <2>1, <2>3 DEF tables
  <2>5. ASSUME deliveries'[d] # deliveries[d] PROVE d \in Rows(w)
    BY <2>1, <2>2, <2>4, <2>5 DEF ClaimCommit, Rows, TypeOK
  <2>6. ASSUME \E x \in receipts' \ receipts : x.delivery_id = d PROVE d \in Rows(w)
    <3>1. PICK e \in picked[w].expired : LeaseExpiredReceipt(e).delivery_id = d
      BY <2>4, <2>6 DEF ClaimCommit, LeaseExpiredReceipts
    <3>2. d \in picked[w].expired
      BY <3>1 DEF LeaseExpiredReceipt
    <3> QED BY <3>2 DEF Rows
  <2>7. d \in Rows(w)
    BY <2>1, <2>5, <2>6
  <2> QED BY <1>1, <2>1, <2>7 DEF CallersInv, PicksInQueue, WorkerLocks
<1>2. Spec => [][Apart]_vars
  BY <1>1, CallersInvariance, PTL DEF Spec
<1> QED BY <1>2 DEF QueuesApart
=============================================================================
