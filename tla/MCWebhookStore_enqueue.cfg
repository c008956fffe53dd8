\* Racing producers, two configurations and two contents for one event.
SPECIFICATION Spec
CONSTANTS
  Delivery = {d1}
  NoDelivery = none
  Null = null
  Worker = {w1}
  Producer = {p1, p2, p3}
  Operator = {}
  Config = {"old", "new"}
  Payload = {"b1", "b2"}
  EndpointUrl <- OwnUrl
  QueueName <- OneQueue
  MaxAttempts <- OldNewMaxAttempts
  LeaseSeconds <- MCLeaseSeconds
  RetryDelay <- MCRetryDelay
  BatchLimit = 1
  MaxReplayCount = 0
  Response <- SuccessOrRefused
  Skew <- SkewBothWays
  MaxTime = 1
  Attempts = 2
  LeaseLength = 1
  RetryBase = 1
  RetryMax = 2
SYMMETRY Symmetry
INVARIANTS
  EnqueueAgreement
