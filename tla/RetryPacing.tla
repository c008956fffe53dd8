----------------------------- MODULE RetryPacing -----------------------------
(***************************************************************************)
(* WebhookStore with a memory of when answers came: are retries as far     *)
(* apart as the configuration asks for? available_at is computed from the  *)
(* application clock of the Instance that had the answer and compared with *)
(* the database clock, at any later time, by whoever claims.               *)
(***************************************************************************)
EXTENDS WebhookStore

VARIABLES
  answeredAt,  \* database time of the answer each dispatch call got
  notBefore    \* when the next attempt of a delivery is wanted, by that time

pacingVars == <<vars, answeredAt, notBefore>>

\* The dispatch call whose record this step commits for d.
Records(w, d) ==
  pc[w] \in {"receipt_linked", "receipt_present"} /\ pc'[w] = "idle" /\ claim[w].delivery_id = d

PacingNext ==
  /\ Next
  /\ answeredAt' = [w \in Worker |->
       IF pc[w] = "posting" /\ pc'[w] = "answered" THEN now ELSE answeredAt[w]]
  /\ notBefore' = [d \in Delivery |->
       IF deliveries'[d].status = "retry_scheduled" /\ deliveries'[d] # deliveries[d]
       THEN LET w == CHOOSE w \in Worker : Records(w, d)
            IN  answeredAt[w] + RetryDelay[config[w]][claim[w].attempts]
       ELSE notBefore[d]]

NothingAnswered ==
  answeredAt = [w \in Worker |-> 0] /\ notBefore = [d \in Delivery |-> 0]

PacingSpec == Init /\ NothingAnswered /\ [][PacingNext]_pacingVars

\* A retry is claimed no earlier than its delay after the failed answer, but
\* for what the clock of the Instance that scheduled it was behind: neither
\* records that arrive late, nor fenced ones, nor other Instances shorten it.
RetriesArePaced ==
  [][\A d \in Delivery :
       deliveries[d].status = "retry_scheduled" /\ deliveries'[d].status = "delivering" =>
         \E w \in Worker, skew \in Skew :
           /\ pc[w] = "claim_locked" /\ pc'[w] = "claimed" /\ picked[w].candidate = d
           /\ ts[w] >= notBefore[d] + skew]_pacingVars

\* Nothing is put out of reach. Counted from now, and however late a record or a
\* claim commits, a row that waits comes due within the delay of its last attempt
\* and the skew of some Instance, and a lease ends within some Instance's lease.
WaitsAreBounded ==
  \A d \in Delivery : LET row == deliveries[d] IN
    /\ row.status = "queued" =>
         row.available_at <= now \/ \E skew \in Skew : row.available_at <= now + skew
    /\ row.status = "retry_scheduled" =>
         \E c \in Config, skew \in Skew :
           row.available_at <= now + RetryDelay[c][row.attempts] + skew
    /\ row.status = "delivering" =>
         \E c \in Config : row.lease_expires_at <= now + LeaseSeconds[c]
=============================================================================
