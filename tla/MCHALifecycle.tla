--------------------------- MODULE MCHALifecycle ---------------------------
(* Values of the constants of HALifecycle for model checking. *)
EXTENDS HALifecycle

AllCommands == MemberCommands \cup ClusterCommands
OneLegacy   == {1}
=============================================================================
