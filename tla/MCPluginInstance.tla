-------------------------- MODULE MCPluginInstance --------------------------
(* A small instance of PluginInstance for TLC. *)
EXTENDS PluginInstanceContract

\* The authored release, one before it and one after it.
MCReleases == {1, 2, 3}

FairSpec == Spec /\ Fairness
=============================================================================
