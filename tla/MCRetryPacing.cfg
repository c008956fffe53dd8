\* One delivery retried twice, with delays of 1 and 2, by two dispatch calls whose
\* clocks are behind, right or ahead and whose answers may come after their lease.
SPECIFICATION QueuedPacingSpec
CONSTANTS
  Delivery = {d1}
  NoDelivery = none
  Null = null
  Worker = {w1, w2}
  Producer = {}
  Operator = {}
  Config = {"c1"}
  Payload = {"b1"}
  EndpointUrl <- OneUrl
  QueueName <- OneQueue
  MaxAttempts <- MCMaxAttempts
  LeaseSeconds <- MCLeaseSeconds
  RetryDelay <- MCRetryDelay
  BatchLimit = 1
  MaxReplayCount = 0
  Response <- RetryOnly
  Skew <- SkewBothWays
  MaxTime = 4
  Attempts = 3
  LeaseLength = 2
  RetryBase = 1
  RetryMax = 2
SYMMETRY Symmetry
INVARIANTS
  WaitsAreBounded
PROPERTIES
  RetriesArePaced
