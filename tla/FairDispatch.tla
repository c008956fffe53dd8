----------------------------- MODULE FairDispatch -----------------------------
(***************************************************************************)
(* WebhookStore when workers keep calling dispatch: what is due is served. *)
(* The Plugin has no timer and no background task, so nothing happens      *)
(* unless callers dispatch; "idle" may be answered while a delivery is due *)
(* (its row is locked, or its lease is over and it is not in the batch).   *)
(***************************************************************************)
EXTENDS WebhookStore

\* A claim that holds a row is not aborted every time.
ClaimsRow(w) == picked[w].candidate # NoDelivery /\ ClaimCommit(w)

\* The HTTP client answers or its caller gives up: a POST has a deadline.
PostEnds(w) == pc[w] = "posting" /\ (HttpAnswer(w) \/ Abandon(w))

\* PostgreSQL aborts one transaction of a deadlock.
DeadlockBroken(w, v) == ClaimAwaits(w, v) /\ (Abandon(w) \/ Abandon(v))

\* Dispatch is called again and again on every configuration, and PostgreSQL
\* answers; a record that waits for a row lock gets it when the lock is released,
\* before a later claim. The clock need not move, crashes may come at any step.
Fairness ==
  \A w \in Worker :
    /\ \A c \in Config : SF_vars(ClaimBegin(w, c))
    /\ SF_vars(ClaimLock(w)) /\ SF_vars(ClaimsRow(w))
    /\ WF_vars(ClaimCommit(w)) /\ WF_vars(Post(w) \/ EndpointChanged(w))
    /\ WF_vars(PostEnds(w)) /\ SF_vars(Record(w))
    /\ \A v \in Worker : WF_vars(DeadlockBroken(w, v))

DueNow(d) == deliveries[d].status \in {"queued", "retry_scheduled"} /\ deliveries[d].available_at <= now

Lapsed(d) == deliveries[d].status = "delivering" /\ deliveries[d].lease_expires_at <= now

\* A due delivery is claimed, however its row is locked, skipped and reordered
\* meanwhile and whatever "idle" the callers were told.
DueIsServed == \A d \in Delivery : DueNow(d) ~> ~DueNow(d)

\* An attempt whose call has died is recovered or retired, also when it lies
\* outside the maintenance batch of one claim after the other.
LapsedIsServed == \A d \in Delivery : Lapsed(d) ~> ~Lapsed(d)
=============================================================================
