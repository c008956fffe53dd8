--------------------------- MODULE ResponsePolicy ---------------------------
(***************************************************************************)
(* What the answer to one POST means for its delivery: finish_dispatch and *)
(* the failure tables of protocol.rs. Failure codes are left out, only     *)
(* what the queue does with them is kept.                                  *)
(***************************************************************************)
EXTENDS Integers

\* Domain errors of lenso.http-client@1. Unknown is any error this build of
\* the contract does not name.
SendError == {"Timeout", "TransportFailure", "ResponseTooLarge", "DestinationNotAllowed",
              "InvalidRequest", "RequestTooLarge", "Unknown"}

\* A response with a status, a domain error, or a failure of the invocation.
HttpResponse ==
  [kind : {"status"}, status : Int] \cup [kind : {"domain"}, error : SendError]
    \cup [kind : {"runtime"}]

Success(status) == status \in 200..299

\* http_status_failure
RetryableStatus(status) == status = 408 \/ status = 429 \/ status \in 500..599

\* http_domain_failure
RetryableError(error) == error \in {"Timeout", "TransportFailure"}

\* webhook_attempt_status_valid
StorableStatus(status) == status \in 100..599

Verdict == {"accepted", "retryable", "permanent", "runtime"}

VerdictOf(response) ==
  CASE response.kind = "runtime" -> "runtime"
    [] response.kind = "domain"  ->
         IF RetryableError(response.error) THEN "retryable" ELSE "permanent"
    [] response.kind = "status"  ->
         IF Success(response.status) THEN "accepted"
         ELSE IF RetryableStatus(response.status) THEN "retryable" ELSE "permanent"

\* The receipt of this answer passes the CHECKs of webhook_delivery_attempts.
Storable(response) == response.kind = "status" => StorableStatus(response.status)
=============================================================================
