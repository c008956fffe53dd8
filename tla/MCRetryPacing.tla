---------------------------- MODULE MCRetryPacing ----------------------------
(* Small instances of RetryPacing for TLC. *)
EXTENDS RetryPacing, MCWebhookStore

QueuedPacingSpec == QueuedInit /\ NothingAnswered /\ [][PacingNext]_pacingVars

RetryOnly == {Status(503)}
=============================================================================
