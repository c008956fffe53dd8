\* A record that began before its lease ended meets the maintenance batch of a
\* claim of another delivery.
SPECIFICATION QueuedSpec
CONSTANTS
  Delivery = {d1, d2}
  NoDelivery = none
  Null = null
  Worker = {w1, w2}
  Producer = {}
  Operator = {}
  Config = {"c1"}
  Payload = {"b1"}
  EndpointUrl <- OneUrl
  QueueName <- OneQueue
  MaxAttempts <- MCMaxAttempts
  LeaseSeconds <- MCLeaseSeconds
  RetryDelay <- MCRetryDelay
  BatchLimit = 1
  MaxReplayCount = 0
  Response <- SuccessOnly
  Skew = {0}
  MaxTime = 1
  Attempts = 2
  LeaseLength = 1
  RetryBase = 1
  RetryMax = 2
SYMMETRY Symmetry
INVARIANTS
  DeliveredRowsHaveDeliveredReceipts
