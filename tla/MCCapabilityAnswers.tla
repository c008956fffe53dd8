------------------------- MODULE MCCapabilityAnswers -------------------------
(* Small instances of CapabilityAnswers for TLC. *)
EXTENDS CapabilityAnswers

\* The newer descriptor has one code, one status and one member the older has
\* not; a foreign one has more of each.
NewAndOld == [p \in Peer |-> IF p = "new" THEN {"forbidden", "not_found"} ELSE {"forbidden"}]
NewAndOldStatuses == [p \in Peer |-> IF p = "new" THEN {"idle", "deferred"} ELSE {"idle"}]
NewAndOldMembers == [p \in Peer |-> IF p = "new" THEN {"receipt", "due"} ELSE {"receipt"}]
=============================================================================
