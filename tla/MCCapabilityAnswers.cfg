\* Answers that pass up to three forwarders and processes of two descriptors.
SPECIFICATION Spec
CONSTANTS
  Peer = {"new", "old"}
  Code = {"forbidden", "not_found", "foreign"}
  Knows <- NewAndOld
  Payload = {payload}
  None = none
  Field = {retry_after}
  Status = {"idle", "deferred", "foreign"}
  Statuses <- NewAndOldStatuses
  Member = {"receipt", "due", "note"}
  Members <- NewAndOldMembers
  MaxHops = 3
INVARIANTS
  TypeOK
  FailureSurvives
  ResponseArrivesOrFails
  VariantWhileKnown
