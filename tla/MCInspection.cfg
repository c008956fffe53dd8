\* One delivery, exhausted and replayed under two dispatch calls, is inspected at
\* any two moments. Of two operators one meets the limit of replays.
SPECIFICATION QueuedInspectionSpec
CONSTANTS
  Delivery = {d1}
  NoDelivery = none
  Null = null
  Worker = {w1, w2}
  Producer = {}
  Operator = {o1, o2}
  Inspector = {i1}
  Config = {"c1"}
  Payload = {"b1"}
  EndpointUrl <- OneUrl
  QueueName <- OneQueue
  MaxAttempts <- MCMaxAttempts
  LeaseSeconds <- MCLeaseSeconds
  RetryDelay <- MCRetryDelay
  BatchLimit = 1
  MaxReplayCount = 1
  Response <- EveryAnswer
  Skew = {0}
  MaxTime = 2
  Attempts = 2
  LeaseLength = 1
  RetryBase = 1
  RetryMax = 2
SYMMETRY Symmetry
INVARIANTS
  InspectionNeverLags
  InspectedDeliveryMatches
  RowConstraints
