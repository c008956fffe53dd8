\* One delivery, from its enqueue, is exhausted, dead-lettered and replayed by racing
\* operators while dispatch calls of earlier cycles are still in flight, with a memory
\* of what was POSTed and accepted.
SPECIFICATION OneEnqueueSpec
CONSTANTS
  Delivery = {d1}
  NoDelivery = none
  Null = null
  Worker = {w1, w2}
  Producer = {p1}
  Operator = {o1, o2}
  Config = {"c1"}
  Payload = {"b1"}
  EndpointUrl <- OneUrl
  QueueName <- OneQueue
  MaxAttempts <- MCMaxAttempts
  LeaseSeconds <- MCLeaseSeconds
  RetryDelay <- MCRetryDelay
  BatchLimit = 1
  MaxReplayCount = 2
  Response <- EveryAnswer
  Skew = {0}
  MaxTime = 2
  Attempts = 2
  LeaseLength = 1
  RetryBase = 1
  RetryMax = 2
SYMMETRY Symmetry
INVARIANTS
  RowConstraints
  ReceiptTrail
  ReplayOpensOneCycle
  PostsAreAccounted
  PostsStayWithinLimit
  SuccessWasAnswered
  RepeatsOnlyAfterExpiry
PROPERTIES
  HistoryOnlyGrows
  NoAttemptPostedTwice
  ImplementsContract
