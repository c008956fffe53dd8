\* Three dispatch calls and a duplicate enqueue meet on the row locks and the
\* receipt key of one delivery.
SPECIFICATION QueuedSpec
CONSTANTS
  Delivery = {d1, d2}
  NoDelivery = none
  Null = null
  Worker = {w1, w2, w3}
  Producer = {p1}
  Operator = {}
  Config = {"c1"}
  Payload = {"b1"}
  EndpointUrl <- OneUrl
  QueueName <- OneQueue
  MaxAttempts <- MCMaxAttempts
  LeaseSeconds <- MCLeaseSeconds
  RetryDelay <- MCRetryDelay
  BatchLimit = 2
  MaxReplayCount = 0
  Response <- SuccessOnly
  Skew = {0}
  MaxTime = 1
  Attempts = 2
  LeaseLength = 1
  RetryBase = 1
  RetryMax = 2
SYMMETRY Symmetry
INVARIANTS
  DeadlocksArePairs
