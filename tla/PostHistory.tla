----------------------------- MODULE PostHistory -----------------------------
(***************************************************************************)
(* WebhookStore with a memory of its POSTs: what the receiver is sent, and *)
(* what it answered, against what rows and receipts say. An attempt is the *)
(* DeliveryRecord claim_due returned: a delivery, its cycle and its number *)
(* of attempts.                                                            *)
(***************************************************************************)
EXTENDS WebhookStore

VARIABLES
  posted,   \* attempts whose POST was sent
  accepted  \* attempts the Plugin has a success status for

historyVars == <<vars, posted, accepted>>

PostsNow(w)   == pc[w] # "posting" /\ pc'[w] = "posting"
AcceptsNow(w) == pc[w] = "posting" /\ pc'[w] = "answered" /\ result'[w].outcome = "delivered"

HistoryNext ==
  /\ Next
  /\ posted' = posted \cup {claim[w] : w \in {v \in Worker : PostsNow(v)}}
  /\ accepted' = accepted \cup {claim[w] : w \in {v \in Worker : AcceptsNow(v)}}

NothingPosted == posted = {} /\ accepted = {}

HistorySpec == Init /\ NothingPosted /\ [][HistoryNext]_historyVars

-----------------------------------------------------------------------------
(* Properties. *)

CurrentAttempt(d) ==
  [delivery_id |-> d, replay_count |-> deliveries[d].replay_count, attempts |-> deliveries[d].attempts]

AttemptOf(x) ==
  [delivery_id |-> x.delivery_id, replay_count |-> x.replay_count, attempts |-> x.attempt]

ReceiptOf(g, outcome) ==
  [delivery_id |-> g.delivery_id, replay_count |-> g.replay_count, attempt |-> g.attempts,
   outcome |-> outcome]

\* The attempt has a receipt, or its row is leased for it.
Accounted(g) ==
  \/ HasReceipt(g.delivery_id, g.replay_count, g.attempts)
  \/ g = CurrentAttempt(g.delivery_id) /\ deliveries[g.delivery_id].status = "delivering"

\* What the receiver was sent of cycle n of delivery d.
PostsOf(d, n) == {g \in posted : g.delivery_id = d /\ g.replay_count = n}

\* h is a later attempt of the delivery of g, in the same cycle or a later one.
Later(h, g) ==
  /\ h.delivery_id = g.delivery_id
  /\ \/ h.replay_count > g.replay_count
     \/ h.replay_count = g.replay_count /\ h.attempts > g.attempts

\* No attempt is sent twice: a retry, a recovery of a lapsed lease and a replay
\* each send an attempt of their own, whatever operators and workers race.
NoAttemptPostedTwice ==
  [][\A w \in Worker : PostsNow(w) => claim[w] \notin posted]_historyVars

\* No POST is forgotten, not even that of a call that died: an attempt that was
\* sent has a receipt or is the one its row still carries a lease for.
PostsAreAccounted == \A g \in posted : Accounted(g)

\* max_attempts is a limit on what the receiver gets: a cycle of a delivery is
\* never sent more often than the configuration that enqueued it allows, however
\* many calls died over it, and none is sent of a cycle nobody has opened.
PostsStayWithinLimit ==
  /\ \A g \in posted : g.replay_count <= deliveries[g.delivery_id].replay_count
  /\ \A d \in Delivery : \A n \in 0..deliveries[d].replay_count :
       Cardinality(PostsOf(d, n)) <= MaxAttemptsOf(deliveries[d])

\* "delivered" is said of an attempt that was accepted and of no other: the last
\* attempt of a delivered row is, not merely an earlier one whose record came
\* late, and so is the attempt of every receipt of a success.
SuccessWasAnswered ==
  /\ \A d \in Delivery : deliveries[d].status = "delivered" => CurrentAttempt(d) \in accepted
  /\ \A x \in receipts : x.outcome = "delivered" => AttemptOf(x) \in accepted

\* "Delivery is at-least-once": a receiver whose success reached the Plugin gets
\* the event again only since the lease of that attempt ran out before the
\* success was recorded, and its receipt tells so.
RepeatsOnlyAfterExpiry ==
  \A g \in accepted, h \in posted : Later(h, g) => ReceiptOf(g, "lease_expired") \in receipts
=============================================================================
