\* One claim receipts and retires several deliveries while it claims another: each
\* moves as DeliveryContract allows, and none of another queue moves.
SPECIFICATION QueuedSpec
CONSTANTS
  Delivery = {d1, d2, d3}
  NoDelivery = none
  Null = null
  Worker = {w1, w2}
  Producer = {}
  Operator = {}
  Config = {"old", "new", "other"}
  Payload = {"b1"}
  EndpointUrl <- OneUrl
  QueueName <- OtherQueue
  MaxAttempts <- OldNewMaxAttempts
  LeaseSeconds <- MCLeaseSeconds
  RetryDelay <- MCRetryDelay
  BatchLimit = 2
  MaxReplayCount = 0
  Response <- SuccessOnly
  Skew = {0}
  MaxTime = 1
  Attempts = 2
  LeaseLength = 1
  RetryBase = 1
  RetryMax = 2
SYMMETRY Symmetry
PROPERTIES
  BatchMovesByContract
  QueuesApart
