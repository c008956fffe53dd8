--------------------------- MODULE InspectionProofs ---------------------------
(***************************************************************************)
(* What an inspection may show, for any number of deliveries, calls and    *)
(* inspections: the second statement finds every receipt the row read by   *)
(* the first implies, because receipts follow the rows and never go.       *)
(***************************************************************************)
EXTENDS Inspection, WebhookStoreContractProofs

-----------------------------------------------------------------------------
(* The newest receipt of a delivery. *)

\* Receipts number attempts the limit of their delivery allows.
ReceiptsNumbered ==
  \A x \in receipts : x.attempt \in 1..MaxAttemptsOf(deliveries[x.delivery_id])

LEMMA NumberedStep ==
  ASSUME IInv, AttemptsBegun, ReceiptsNumbered, [Next]_vars
  PROVE  ReceiptsNumbered'
<1>1. SUFFICES ASSUME NEW x \in receipts'
               PROVE  x.attempt \in 1..MaxAttemptsOf(deliveries'[x.delivery_id])
  BY DEF ReceiptsNumbered, MaxAttemptsOf
<1> DEFINE d == x.delivery_id
<1>2. TypeOK /\ ResultsSound /\ d \in Delivery
  BY <1>1, ReceiptsTyped DEF IInv, TypeOK, Receipt
<1>3. /\ x.attempt \in 1..MaxAttemptsOf(deliveries[d])
      /\ deliveries[d].status # "absent"
  <2>1. CASE x \in receipts
    BY <2>1 DEF IInv, ReceiptsNumbered, ReceiptsSound
  <2>2. ASSUME NEW w \in Worker, ClaimCommit(w), d \in picked[w].expired, x = LeaseExpiredReceipt(d)
        PROVE  x.attempt \in 1..MaxAttemptsOf(deliveries[d]) /\ deliveries[d].status # "absent"
    <3>1. deliveries[d].status = "delivering" /\ x.attempt = deliveries[d].attempts
      BY <2>2 DEF ClaimCommit, IInv, PicksSound, PickSound, LeaseExpiredReceipt
    <3>2. deliveries[d] \in Row /\ deliveries[d].attempts <= MaxAttemptsOf(deliveries[d])
      BY <1>2 DEF IInv, TypeOK, RowsSound, RowSound
    <3>3. deliveries[d].attempts \in Nat /\ MaxAttemptsOf(deliveries[d]) \in Nat
      BY <3>2, ConfigAssumption DEF Row, MaxAttemptsOf
    <3> QED BY <1>2, <3>1, <3>2, <3>3 DEF AttemptsBegun
  <2>3. ASSUME NEW w \in Worker, RecordCommit(w), x = OwnReceipt(w)
        PROVE  x.attempt \in 1..MaxAttemptsOf(deliveries[d]) /\ deliveries[d].status # "absent"
    <3>1. ClaimSound(w)
      BY <2>3 DEF RecordCommit, IInv, ClaimsSound, Holding, Recording
    <3> QED BY <2>3, <3>1 DEF OwnReceipt, ClaimSound
  <2>4. \/ x \in receipts
        \/ \E w \in Worker : ClaimCommit(w) /\ d \in picked[w].expired /\ x = LeaseExpiredReceipt(d)
        \/ \E w \in Worker : RecordCommit(w) /\ x = OwnReceipt(w)
    BY <1>1, ReceiptMoves DEF LeaseExpiredReceipt
  <2> QED BY <2>1, <2>2, <2>3, <2>4
<1>4. deliveries'[d].config = deliveries[d].config
  BY <1>2, <1>3, RowsForward DEF Forward
<1> QED BY <1>3, <1>4 DEF MaxAttemptsOf

\* Receipts of one cycle are a run, and those of later cycles do not exist.
LEMMA NewestIn ==
  ASSUME IInv, ReceiptsNumbered, NEW d \in Delivery, NEW r \in Nat, NEW k \in Nat \ {0},
         Receipts(d, r) = 1..k, \A x \in ReceiptsOf(d) : x.replay_count <= r
  PROVE  \E y \in ReceiptsOf(d) :
           /\ y.replay_count = r /\ y.attempt = k
           /\ \A z \in ReceiptsOf(d) : NoOlder(y, z)
<1>1. HasReceipt(d, r, k)
  <2>1. k \in Receipts(d, r)
    OBVIOUS
  <2> QED BY <2>1 DEF Receipts
<1>2. PICK y \in ReceiptsOf(d) : y.replay_count = r /\ y.attempt = k
  BY <1>1 DEF HasReceipt, ReceiptsOf
<1>3. ASSUME NEW z \in ReceiptsOf(d) PROVE NoOlder(y, z)
  <2>1. z.replay_count \in Nat /\ z.attempt \in Nat /\ z.replay_count <= r
    BY DEF IInv, TypeOK, ReceiptsOf, Receipt
  <2>2. CASE z.replay_count = r
    <3>1. z.attempt \in Receipts(d, r)
      BY <2>2 DEF ReceiptsNumbered, ReceiptsOf, Receipts, HasReceipt
    <3> QED BY <1>2, <2>1, <2>2, <3>1 DEF NoOlder
  <2>3. CASE z.replay_count # r
    BY <1>2, <2>1, <2>3 DEF NoOlder
  <2> QED BY <2>2, <2>3
<1> QED BY <1>2, <1>3

LEMMA NewestExists ==
  ASSUME TrailInv, ReceiptsNumbered, NEW d \in Delivery, ReceiptsOf(d) # {}
  PROVE  \E y \in ReceiptsOf(d) : \A z \in ReceiptsOf(d) : NoOlder(y, z)
<1>1. IInv /\ AttemptsBegun /\ Trail(d)
  BY DEF TrailInv
<1>2. PICK n \in Nat, r \in Nat, a \in Nat :
        n = MaxAttemptsOf(deliveries[d]) /\ r = deliveries[d].replay_count /\ a = deliveries[d].attempts
  BY <1>1, ConfigAssumption DEF IInv, TypeOK, Row, MaxAttemptsOf
<1>3. \A x \in ReceiptsOf(d) :
        x.replay_count \in Nat /\ x.replay_count <= r /\ x.attempt \in 1..n
  BY <1>1, <1>2 DEF IInv, TypeOK, ReceiptsSound, ReceiptsNumbered, ReceiptsOf, Receipt
<1>4. PICK k \in Int : Receipts(d, r) = 1..k
  BY <1>2, <1>1 DEF Trail
<1>5. CASE k >= 1
  <2>1. k \in Nat \ {0}
    BY <1>5
  <2> QED BY <1>1, <1>3, <1>4, <2>1, NewestIn
<1>6. CASE k < 1
  <2>1. \A x \in ReceiptsOf(d) : x.replay_count # r
    <3>1. ASSUME NEW x \in ReceiptsOf(d), x.replay_count = r PROVE FALSE
      <4>1. x.attempt \in Receipts(d, r)
        BY <1>2, <1>3, <3>1 DEF ReceiptsOf, Receipts, HasReceipt
      <4> QED BY <1>4, <1>6, <4>1
    <3> QED BY <3>1
  <2>2. r - 1 \in Nat
    BY <1>3, <2>1
  <2>3. PICK q \in Nat : q = r - 1
    BY <2>2
  <2>4. PICK j \in 1..n : Receipts(d, q) = 1..j
    BY <1>1, <1>2, <2>3 DEF Trail
  <2>5. \A x \in ReceiptsOf(d) : x.replay_count <= q
    BY <1>3, <2>1, <2>3
  <2>6. j \in Nat \ {0}
    BY <1>2
  <2> QED BY <1>1, <2>4, <2>5, <2>6, NewestIn
<1> QED BY <1>5, <1>6

\* What last_receipt returns is a receipt, and none is newer.
LEMMA LastReceiptIs ==
  ASSUME TrailInv, ReceiptsNumbered, NEW d \in Delivery, ReceiptsOf(d) # {}
  PROVE  \E y \in ReceiptsOf(d) :
           /\ LastReceipt(d) = [replay_count |-> y.replay_count, attempt |-> y.attempt,
                                outcome |-> y.outcome]
           /\ \A z \in ReceiptsOf(d) : NoOlder(y, z)
<1> DEFINE x == CHOOSE y \in ReceiptsOf(d) : \A z \in ReceiptsOf(d) : NoOlder(y, z)
<1>1. x \in ReceiptsOf(d) /\ \A z \in ReceiptsOf(d) : NoOlder(x, z)
  BY NewestExists
<1>2. LastReceipt(d) = [replay_count |-> x.replay_count, attempt |-> x.attempt, outcome |-> x.outcome]
  BY DEF LastReceipt
<1> HIDE DEF x
<1> QED BY <1>1, <1>2
-----------------------------------------------------------------------------
(* An inspection. *)

InspectorTyped ==
  inspector \in [Inspector ->
    [step : {"idle", "row_read", "answered"}, delivery : Delivery \cup {NoDelivery},
     status : DeliveryStatus \cup {"absent"}, attempts : Nat, replay_count : Nat,
     last_receipt : [replay_count : Nat, attempt : Nat, outcome : Outcome \cup {"none"}]]]

\* The attempts a row so read has left behind.
Left(status, attempts) == IF status = "delivering" THEN attempts - 1 ELSE attempts

\* There is a receipt for what the row read left behind, if it left anything.
Explained(d, status, attempts, r) ==
  \/ Left(status, attempts) = 0 /\ r = 0
  \/ Left(status, attempts) = 0 /\ r >= 1 /\ HasReceipt(d, r - 1, 1)
  \/ Left(status, attempts) >= 1 /\ HasReceipt(d, r, Left(status, attempts))

\* Between its statements an inspection has a row that its receipts explain,
\* and that is still the row if it was delivered.
Reading(i) ==
  LET read == inspector[i]
      row  == deliveries[read.delivery] IN
  /\ read.delivery \in Delivery
  /\ Explained(read.delivery, read.status, read.attempts, read.replay_count)
  /\ read.status = "delivered" =>
       /\ row.status = "delivered"
       /\ row.attempts = read.attempts /\ row.replay_count = read.replay_count

\* A row at rest is explained by its trail.
LEMMA RowExplained ==
  ASSUME TrailInv, NEW d \in Delivery, deliveries[d].status # "absent"
  PROVE  Explained(d, deliveries[d].status, deliveries[d].attempts, deliveries[d].replay_count)
<1>1. IInv /\ AttemptsBegun /\ Trail(d)
  BY DEF TrailInv
<1>2. PICK n, r, a, s, l :
        /\ n = MaxAttemptsOf(deliveries[d]) /\ r = deliveries[d].replay_count
        /\ a = deliveries[d].attempts /\ s = deliveries[d].status /\ l = Left(s, a)
        /\ n \in Nat /\ r \in Nat /\ a \in Nat
  <2>1. /\ MaxAttemptsOf(deliveries[d]) \in Nat
        /\ deliveries[d].replay_count \in Nat /\ deliveries[d].attempts \in Nat
    BY <1>1, ConfigAssumption DEF IInv, TypeOK, Row, MaxAttemptsOf
  <2> QED BY <2>1
<1>3. l \in Nat /\ (s = "delivering" => l = a - 1 /\ a >= 1) /\ (s # "delivering" => l = a)
  BY <1>1, <1>2 DEF Left, AttemptsBegun
<1>4. CASE l >= 1
  <2>1. l \in Receipts(d, r)
    BY <1>1, <1>2, <1>3, <1>4 DEF Trail
  <2>2. HasReceipt(d, r, l)
    BY <2>1 DEF Receipts
  <2> QED BY <1>2, <1>4, <2>2 DEF Explained
<1>5. CASE l = 0 /\ r >= 1
  <2>1. PICK q \in Nat : q = r - 1
    BY <1>2, <1>5
  <2>2. PICK k \in 1..n : Receipts(d, q) = 1..k
    BY <1>1, <1>2, <2>1 DEF Trail
  <2>3. 1 \in Receipts(d, q)
    BY <1>2, <2>2
  <2>4. HasReceipt(d, q, 1)
    BY <2>3 DEF Receipts
  <2> QED BY <1>2, <1>5, <2>1, <2>4 DEF Explained
<1> QED BY <1>2, <1>3, <1>4, <1>5 DEF Explained

\* Receipts stay, and so does what they explain.
LEMMA ExplainedKept ==
  ASSUME [Next]_vars, NEW d, NEW s, NEW a, NEW r, Explained(d, s, a, r)
  PROVE  Explained(d, s, a, r)'
<1>1. receipts \subseteq receipts'
  BY WhoMoves DEF ClaimCommit, RecordCommit
<1>2. ASSUME NEW q, NEW b, HasReceipt(d, q, b) PROVE HasReceipt(d, q, b)'
  BY <1>1, <1>2 DEF HasReceipt
<1> QED BY <1>2 DEF Explained

\* A delivered row is not updated.
LEMMA DeliveredKept ==
  ASSUME IInv, [Next]_vars, NEW d \in Delivery, deliveries[d].status = "delivered"
  PROVE  deliveries'[d] = deliveries[d]
<1>1. ASSUME NEW w \in Worker, RowClaimed(w, d) \/ RowRetired(w, d) \/ RowSettled(w, d) PROVE FALSE
  BY <1>1, ClaimedColumns
     DEF RowRetired, ClaimCommit, IInv, PicksSound, PickSound, RowSettled, RecordCommit, Fenced
<1>2. ~RowQueued(d) /\ \A o \in Operator : ~RowReplayed(o, d)
  BY DEF RowQueued, RowReplayed, ReplayUpdate, Replayable
<1> QED BY <1>1, <1>2, RowMoves DEF IInv

\* The calls of others leave an inspection sound.
LEMMA ReadingKept ==
  ASSUME IInv, [Next]_vars, NEW i \in Inspector, inspector'[i] = inspector[i], Reading(i)
  PROVE  Reading(i)'
<1>1. PICK d, s, a, r :
        /\ d = inspector[i].delivery /\ s = inspector[i].status
        /\ a = inspector[i].attempts /\ r = inspector[i].replay_count
  OBVIOUS
<1>2. d \in Delivery /\ Explained(d, s, a, r)
  BY <1>1 DEF Reading
<1>3. Explained(d, s, a, r)'
  BY <1>2, ExplainedKept
<1>4. deliveries[d].status = "delivered" => deliveries'[d] = deliveries[d]
  BY <1>2, DeliveredKept
<1> QED BY <1>1, <1>2, <1>3, <1>4 DEF Reading

\* What the second statement finds.
LEMMA Found ==
  ASSUME TrailInv, ReceiptsNumbered, InspectorTyped, NEW i \in Inspector, Reading(i)
  PROVE  LET read  == inspector[i]
             shown == LastReceipt(read.delivery)
             left  == Left(read.status, read.attempts) IN
         /\ shown \in [replay_count : Nat, attempt : Nat, outcome : Outcome \cup {"none"}]
         /\ \/ shown.replay_count > read.replay_count
            \/ shown.replay_count = read.replay_count /\ shown.attempt >= left
            \/ left = 0 /\ shown.replay_count = read.replay_count - 1 /\ shown.attempt >= 1
         /\ read.status = "delivered" =>
              shown.replay_count = read.replay_count /\ shown.attempt = read.attempts
<1>1. PICK d, s, a, r, l, shown :
        /\ d = inspector[i].delivery /\ s = inspector[i].status
        /\ a = inspector[i].attempts /\ r = inspector[i].replay_count
        /\ l = Left(s, a) /\ shown = LastReceipt(d)
  OBVIOUS
<1>2. d \in Delivery /\ a \in Nat /\ r \in Nat /\ l \in Int /\ Explained(d, s, a, r)
  BY <1>1 DEF InspectorTyped, Reading, Left
<1>3. IInv /\ AttemptsBegun /\ Trail(d)
  BY <1>2 DEF TrailInv
<1>4. CASE ReceiptsOf(d) = {}
  <2>1. shown = NoReceipt
    BY <1>1, <1>4 DEF LastReceipt
  <2>2. l = 0 /\ r = 0
    BY <1>1, <1>2, <1>4 DEF Explained, HasReceipt, ReceiptsOf
  <2>3. s # "delivered"
    <3>1. ASSUME s = "delivered" PROVE FALSE
      <4>1. deliveries[d].status = "delivered" /\ deliveries[d].attempts = a
        BY <1>1, <3>1 DEF Reading
      <4> QED BY <1>1, <1>2, <1>3, <2>2, <3>1, <4>1 DEF AttemptsBegun, Left
    <3> QED BY <3>1
  <2> QED BY <1>1, <2>1, <2>2, <2>3 DEF NoReceipt
<1>5. CASE ReceiptsOf(d) # {}
  <2>1. PICK y \in ReceiptsOf(d) :
          /\ shown = [replay_count |-> y.replay_count, attempt |-> y.attempt, outcome |-> y.outcome]
          /\ \A z \in ReceiptsOf(d) : NoOlder(y, z)
    BY <1>1, <1>2, <1>5, LastReceiptIs
  <2>2. /\ y.replay_count \in Nat /\ y.attempt \in Nat /\ y.outcome \in Outcome
        /\ y.attempt \in 1..MaxAttemptsOf(deliveries[d])
        /\ y.replay_count <= deliveries[d].replay_count
    BY <1>3 DEF IInv, TypeOK, ReceiptsSound, ReceiptsNumbered, ReceiptsOf, Receipt
  <2>3. shown.replay_count = y.replay_count /\ shown.attempt = y.attempt
    BY <2>1
  <2>4. shown \in [replay_count : Nat, attempt : Nat, outcome : Outcome \cup {"none"}]
    BY <2>1, <2>2
  <2>5. ASSUME NEW q \in Nat, NEW b \in Nat, HasReceipt(d, q, b)
        PROVE  y.replay_count > q \/ (y.replay_count = q /\ y.attempt >= b)
    BY <2>1, <2>5 DEF HasReceipt, ReceiptsOf, NoOlder
  <2>6. \/ y.replay_count > r
        \/ y.replay_count = r /\ y.attempt >= l
        \/ l = 0 /\ y.replay_count = r - 1 /\ y.attempt >= 1
    <3>1. CASE l = 0 /\ r = 0
      BY <2>2, <3>1
    <3>2. CASE l = 0 /\ r >= 1 /\ HasReceipt(d, r - 1, 1)
      <4>1. r - 1 \in Nat
        BY <1>2, <3>2
      <4>2. y.replay_count > r - 1 \/ (y.replay_count = r - 1 /\ y.attempt >= 1)
        BY <2>5, <3>2, <4>1
      <4> QED BY <1>2, <2>2, <3>2, <4>2
    <3>3. CASE l >= 1 /\ HasReceipt(d, r, l)
      <4>1. l \in Nat
        BY <1>2, <3>3
      <4> QED BY <1>2, <2>5, <3>3, <4>1
    <3> QED BY <1>1, <1>2, <3>1, <3>2, <3>3 DEF Explained
  <2>7. s = "delivered" => y.replay_count = r /\ y.attempt = a
    <3>1. SUFFICES ASSUME s = "delivered" PROVE y.replay_count = r /\ y.attempt = a
      OBVIOUS
    <3>2. /\ deliveries[d].status = "delivered" /\ deliveries[d].attempts = a
          /\ deliveries[d].replay_count = r /\ l = a /\ a >= 1
      BY <1>1, <1>2, <1>3, <3>1 DEF Reading, AttemptsBegun, Left
    <3>3. y.replay_count = r /\ y.attempt >= a
      BY <1>2, <2>2, <2>6, <3>2
    <3>4. y.attempt \in Receipts(d, r)
      BY <2>2, <3>3 DEF Receipts, HasReceipt, ReceiptsOf
    <3>5. Receipts(d, r) = 1..a
      BY <1>3, <3>2 DEF Trail
    <3> QED BY <1>2, <2>2, <3>3, <3>4, <3>5
  <2> QED BY <1>1, <2>3, <2>4, <2>6, <2>7
<1> QED BY <1>4, <1>5

-----------------------------------------------------------------------------
(* The theorems. *)

\* What an inspection holds, and what it has answered.
Inspected(i) ==
  LET read == inspector[i]
      left == Left(read.status, read.attempts)
      shown == read.last_receipt IN
  /\ read.step = "row_read" => Reading(i)
  /\ read.step = "answered" =>
       /\ \/ shown.replay_count > read.replay_count
          \/ shown.replay_count = read.replay_count /\ shown.attempt >= left
          \/ left = 0 /\ shown.replay_count = read.replay_count - 1 /\ shown.attempt >= 1
       /\ read.status = "delivered" =>
            shown.replay_count = read.replay_count /\ shown.attempt = read.attempts

InspectionInv ==
  /\ TrailInv
  /\ ReceiptsNumbered
  /\ InspectorTyped
  /\ \A i \in Inspector : Inspected(i)

LEMMA InitInspection == Init /\ NoInspections => InspectionInv
<1> SUFFICES ASSUME Init, NoInspections PROVE InspectionInv
  OBVIOUS
<1>1. ReceiptsNumbered
  BY DEF Init, ReceiptsNumbered
<1>2. InspectorTyped /\ \A i \in Inspector : Inspected(i)
  BY DEF NoInspections, NoInspection, NoReceipt, InspectorTyped, Inspected
<1> QED BY <1>1, <1>2, InitTrail DEF InspectionInv

\* An inspection that a step leaves alone stays sound.
LEMMA InspectedKept ==
  ASSUME IInv, [Next]_vars, NEW i \in Inspector, inspector'[i] = inspector[i], Inspected(i)
  PROVE  Inspected(i)'
<1>1. CASE inspector[i].step = "row_read"
  BY <1>1, ReadingKept DEF Inspected
<1>2. CASE inspector[i].step # "row_read"
  BY <1>2 DEF Inspected, Left
<1> QED BY <1>1, <1>2

LEMMA RowReadStep ==
  ASSUME InspectionInv, UNCHANGED vars, NEW i \in Inspector, NEW d \in Delivery, InspectRow(i, d)
  PROVE  InspectorTyped' /\ Inspected(i)'
<1>1. TrailInv /\ InspectorTyped /\ TypeOK /\ deliveries[d] \in Row
  BY DEF InspectionInv, TrailInv, IInv, TypeOK
<1>2. PICK s \in DeliveryStatus \cup {"absent"}, a \in Nat, r \in Nat :
        s = deliveries[d].status /\ a = deliveries[d].attempts /\ r = deliveries[d].replay_count
  BY <1>1 DEF Row
<1>3. PICK read :
        read = [step |-> "row_read", delivery |-> d, status |-> s, attempts |-> a,
                replay_count |-> r, last_receipt |-> NoReceipt]
  OBVIOUS
<1>4. inspector' = [inspector EXCEPT ![i] = read]
  BY <1>2, <1>3 DEF InspectRow
<1>5. InspectorTyped'
  BY <1>1, <1>2, <1>3, <1>4 DEF InspectorTyped, NoReceipt
<1>6. Explained(d, s, a, r)
  BY <1>1, <1>2, RowExplained DEF InspectRow
<1>7. Explained(d, s, a, r)'
  BY <1>6, ExplainedKept
<1>8. inspector'[i] = read
  BY <1>1, <1>4 DEF InspectorTyped
<1>9. deliveries' = deliveries
  BY DEF vars, tables
<1>10. Reading(i)'
  BY <1>2, <1>3, <1>7, <1>8, <1>9 DEF Reading
<1> QED BY <1>3, <1>5, <1>8, <1>10 DEF Inspected

LEMMA AnswerStep ==
  ASSUME InspectionInv, UNCHANGED vars, NEW i \in Inspector, InspectReceipt(i)
  PROVE  InspectorTyped' /\ Inspected(i)'
<1>1. TrailInv /\ ReceiptsNumbered /\ InspectorTyped /\ Reading(i)
  BY DEF InspectionInv, Inspected, InspectReceipt
<1>2. PICK read, shown : read = inspector[i] /\ shown = LastReceipt(inspector[i].delivery)
  OBVIOUS
<1>3. PICK answer : answer = [[read EXCEPT !.step = "answered"] EXCEPT !.last_receipt = shown]
  OBVIOUS
<1>4. inspector' = [inspector EXCEPT ![i] = answer]
  BY <1>1, <1>2, <1>3 DEF InspectReceipt, InspectorTyped
<1>5. /\ shown \in [replay_count : Nat, attempt : Nat, outcome : Outcome \cup {"none"}]
      /\ LET left == Left(read.status, read.attempts) IN
         \/ shown.replay_count > read.replay_count
         \/ shown.replay_count = read.replay_count /\ shown.attempt >= left
         \/ left = 0 /\ shown.replay_count = read.replay_count - 1 /\ shown.attempt >= 1
      /\ read.status = "delivered" =>
           shown.replay_count = read.replay_count /\ shown.attempt = read.attempts
  BY <1>1, <1>2, Found
<1>6. /\ answer.step = "answered" /\ answer.last_receipt = shown
      /\ answer.status = read.status /\ answer.attempts = read.attempts
      /\ answer.replay_count = read.replay_count
  BY <1>1, <1>2, <1>3 DEF InspectorTyped
<1>7. inspector'[i] = answer
  BY <1>1, <1>4 DEF InspectorTyped
<1>8. InspectorTyped'
  <2> DEFINE Call == [step : {"idle", "row_read", "answered"}, delivery : Delivery \cup {NoDelivery},
                      status : DeliveryStatus \cup {"absent"}, attempts : Nat, replay_count : Nat,
                      last_receipt : [replay_count : Nat, attempt : Nat,
                                      outcome : Outcome \cup {"none"}]]
  <2>1. read \in Call
    BY <1>1, <1>2 DEF InspectorTyped
  <2>2. [read EXCEPT !.step = "answered"] \in Call
    BY <2>1
  <2>3. PICK half \in Call : half = [read EXCEPT !.step = "answered"]
    BY <2>2
  <2>4. [half EXCEPT !.last_receipt = shown] \in Call
    BY <1>5
  <2>5. answer \in Call
    BY <1>3, <2>3, <2>4
  <2> HIDE DEF Call
  <2>6. inspector \in [Inspector -> Call] => inspector' \in [Inspector -> Call]
    BY <1>4, <2>5
  <2> QED BY <1>1, <2>6 DEF InspectorTyped, Call
<1>9. Inspected(i)'
  BY <1>5, <1>6, <1>7 DEF Inspected, Left
<1> QED BY <1>8, <1>9

LEMMA NextInspection == InspectionInv /\ [InspectionNext]_<<vars, inspector>> => InspectionInv'
<1> SUFFICES ASSUME InspectionInv, [InspectionNext]_<<vars, inspector>> PROVE InspectionInv'
  OBVIOUS
<1>1. TrailInv /\ ReceiptsNumbered /\ InspectorTyped /\ IInv /\ AttemptsBegun
  BY DEF InspectionInv, TrailInv
<1>2. [Next]_vars
  BY DEF InspectionNext
<1>3. TrailInv' /\ ReceiptsNumbered'
  BY <1>1, <1>2, NextTrail, NumberedStep
<1>4. ASSUME NEW j \in Inspector, inspector'[j] = inspector[j] PROVE Inspected(j)'
  BY <1>1, <1>2, <1>4, InspectedKept DEF InspectionInv
<1>5. CASE UNCHANGED inspector
  BY <1>1, <1>3, <1>4, <1>5 DEF InspectionInv, InspectorTyped
<1>6. ASSUME NEW i \in Inspector, Inspect(i), UNCHANGED vars PROVE InspectionInv'
  <2>1. InspectorTyped' /\ Inspected(i)'
    BY <1>6, RowReadStep, AnswerStep DEF Inspect
  <2>2. ASSUME NEW j \in Inspector, j # i PROVE inspector'[j] = inspector[j]
    BY <1>1, <1>6, <2>2 DEF Inspect, InspectRow, InspectReceipt, InspectorTyped
  <2>3. \A j \in Inspector : Inspected(j)'
    BY <1>4, <2>1, <2>2
  <2> QED BY <1>3, <2>1, <2>3 DEF InspectionInv
<1> QED BY <1>5, <1>6 DEF InspectionNext

THEOREM InspectionInvariance == InspectionSpec => []InspectionInv
BY InitInspection, NextInspection, PTL DEF InspectionSpec

\* The receipt an inspection shows is never older than what its row implies,
\* whatever is committed between the two statements of load.
THEOREM NeverLags == InspectionSpec => []InspectionNeverLags
<1>1. InspectionInv => InspectionNeverLags
  BY DEF InspectionInv, Inspected, InspectionNeverLags, Left
<1> QED BY InspectionInvariance, <1>1, PTL

\* Beside "delivered" stands the receipt of the attempt that delivered.
THEOREM DeliveredMatches == InspectionSpec => []InspectedDeliveryMatches
<1>1. InspectionInv => InspectedDeliveryMatches
  BY DEF InspectionInv, Inspected, InspectedDeliveryMatches
<1> QED BY InspectionInvariance, <1>1, PTL
=============================================================================
