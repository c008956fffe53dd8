---------------------------- MODULE MCPostHistory ----------------------------
(***************************************************************************)
(* A small instance of PostHistory for TLC. The event is enqueued once;    *)
(* duplicates are what MCWebhookStore_enqueue and _locks are about.        *)
(***************************************************************************)
EXTENDS PostHistory, MCWebhookStore

EnqueuedOnce == \A p \in Producer : producer'[p].step # "conflicted"

OneEnqueueSpec == Init /\ NothingPosted /\ [][HistoryNext /\ EnqueuedOnce]_historyVars
=============================================================================
