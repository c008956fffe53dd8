\* Two deliveries, batches of one: their leases may be over together. No symmetry.
SPECIFICATION FairQueuedSpec
CONSTANTS
  Delivery = {d1, d2}
  NoDelivery = none
  Null = null
  Worker = {w1, w2}
  Producer = {}
  Operator = {}
  Config = {"c1"}
  Payload = {"b1"}
  EndpointUrl <- OneUrl
  QueueName <- OneQueue
  MaxAttempts <- MCMaxAttempts
  LeaseSeconds <- MCLeaseSeconds
  RetryDelay <- MCRetryDelay
  BatchLimit = 1
  MaxReplayCount = 0
  Response <- RetryOnly
  Skew = {0}
  MaxTime = 1
  Attempts = 2
  LeaseLength = 1
  RetryBase = 1
  RetryMax = 1
PROPERTIES
  DueIsServed
  LapsedIsServed
