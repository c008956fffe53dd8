--------------------------- MODULE MCWebhookStore ---------------------------
(***************************************************************************)
(* Small instances of WebhookStore for TLC. A configuration is named in    *)
(* the .cfg files; what it holds is given here.                            *)
(***************************************************************************)
EXTENDS WebhookStoreContract, WebhookStoreInvariant, TLC

CONSTANTS Attempts,      \* max_attempts of every configuration
          LeaseLength,   \* lease_seconds of every configuration
          RetryBase,     \* retry_base_seconds of every configuration
          RetryMax       \* retry_max_seconds of every configuration

Backoff == INSTANCE RetryBackoff WITH IntWidth <- 16

\* One endpoint, one queue.
OneUrl   == [c \in Config |-> "https://a"]
OneQueue == [c \in Config |-> "webhooks"]

\* An Instance of another queue beside those of the first.
OtherQueue == [c \in Config |-> IF c = "other" THEN "others" ELSE "webhooks"]

\* As many endpoints as configurations, in the same queue.
OwnUrl == [c \in Config |-> c]

Status(code)  == [kind |-> "status", status |-> code]
Domain(error) == [kind |-> "domain", error |-> error]
Runtime       == [kind |-> "runtime"]

SuccessOnly        == {Status(200)}
SuccessOrRetry     == {Status(299), Status(503)}
SuccessOrRefused   == {Status(204), Status(600)}
EveryAnswer        == {Status(200), Domain("Timeout"), Status(404), Runtime, Status(600)}

\* An application clock behind or ahead of the database's.
SkewBothWays == {-1, 1}

MCMaxAttempts  == [c \in Config |-> Attempts]
\* A configuration change that lowers max_attempts.
OldNewMaxAttempts == [c \in Config |-> IF c = "old" THEN Attempts ELSE 1]
MCLeaseSeconds == [c \in Config |-> LeaseLength]
MCRetryDelay   == [c \in Config |->
  [n \in 1..Attempts |-> Backoff!RetryDelaySeconds(n, RetryBase, RetryMax)]]

\* Every delivery was enqueued at time 0, under any of the configurations,
\* before the calls of interest.
QueuedInit ==
  /\ now = 0
  /\ deliveries \in [Delivery -> {QueuedRow(c, AnyPayload, 0) : c \in Config}]
  /\ receipts = {}
  /\ NoCalls

QueuedSpec == QueuedInit /\ [][Next]_vars

Symmetry == Permutations(Delivery) \cup Permutations(Worker) \cup Permutations(Operator)
              \cup Permutations(Producer)
=============================================================================
