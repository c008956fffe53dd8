---------------------------- MODULE MCInspection ----------------------------
(***************************************************************************)
(* A small instance of Inspection, on a delivery that is already queued.   *)
(***************************************************************************)
EXTENDS MCWebhookStore, Inspection

QueuedInspectionSpec ==
  QueuedInit /\ NoInspections /\ [][InspectionNext]_<<vars, inspector>>
=============================================================================
