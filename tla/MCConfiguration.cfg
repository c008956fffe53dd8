\* A typical configuration with one thing changed. References of up to five bytes
\* reach every pair of neighbouring segments; four bytes is the longest accepted one.
\* 16-bit integers: the product saturates and the shift is clamped within the first
\* 16 of 100 attempts. Delays stay within 2^14, as 86400 stays within 2^62.
SPECIFICATION Spec
CONSTANTS
  IntWidth = 16
  Resolved <- Candidates
  MaxReferenceBytes = 4
  MaxPayloadBytes = 3
  MaxLeaseSeconds = 3
  MaxRetrySeconds = 16384
  AttemptLimit = 100
  ReferenceBytes = 5
  Delays = {0, 1, 2, 3, 5, 300, 8191, 16383, 16384, 16385}
INVARIANTS
  AcceptedDelaysDouble
  SecretReferencesArePaths
CHECK_DEADLOCK FALSE
