------------------------ MODULE PluginInstanceContract ------------------------
(***************************************************************************)
(* PluginInstance read as the gate of InstanceContract: a pool is a period *)
(* and the clone a call took at its start is its ticket.                   *)
(***************************************************************************)
EXTENDS PluginInstance

Gate ==
  CASE lifecycle = "active"  -> "open"
    [] lifecycle = "closing" -> "draining"
    [] OTHER                 -> "shut"

Connected == {c \in Call : pc[c] \in ConnectionSteps}

Contract == INSTANCE InstanceContract WITH
  Size   <- PoolSize,
  gate   <- Gate,
  period <- activations,
  ticket <- pool,
  inside <- Connected

\* However activations, deactivations, migrations and calls interleave, each
\* step is one of the gate or leaves it alone: a call uses the database only in
\* the activation it began in, between its publication and the moment its
\* deactivation takes it away, and deactivate returns when all have left.
ImplementsInstanceContract == Contract!Spec
=============================================================================
