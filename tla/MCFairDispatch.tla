---------------------------- MODULE MCFairDispatch ----------------------------
(* Small instances of FairDispatch for TLC. *)
EXTENDS FairDispatch, MCWebhookStore

RetryOnly == {Status(503)}

FairQueuedSpec == QueuedSpec /\ Fairness
=============================================================================
