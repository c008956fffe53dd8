\* Two dispatch calls on two queued deliveries; leases expire under the calls, a
\* batch holds one expired row while two may be expired.
SPECIFICATION QueuedSpec
CONSTANTS
  Delivery = {d1, d2}
  NoDelivery = none
  Null = null
  Worker = {w1, w2}
  Producer = {}
  Operator = {}
  Config = {"c1"}
  Payload = {"b1"}
  EndpointUrl <- OneUrl
  QueueName <- OneQueue
  MaxAttempts <- MCMaxAttempts
  LeaseSeconds <- MCLeaseSeconds
  RetryDelay <- MCRetryDelay
  BatchLimit = 1
  MaxReplayCount = 0
  Response <- SuccessOrRetry
  Skew = {0}
  MaxTime = 3
  Attempts = 2
  LeaseLength = 1
  RetryBase = 1
  RetryMax = 2
SYMMETRY Symmetry
INVARIANTS
  TypeOK
  WaitingRowsClaimable
  TerminalReceiptIsFinal
  NoOverlapWithinLease
PROPERTIES
  LeaseProtectsHolder
