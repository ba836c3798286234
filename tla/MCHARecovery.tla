---------------------------- MODULE MCHARecovery ----------------------------
(* Values of the constants of HARecovery for model checking. *)
EXTENDS HARecovery

BothCommands == {"restore", "recover"}
OnlyRestore  == {"restore"}
AllHosts     == {"intact", "damaged", "empty"}
IntactHost   == {"intact"}
=============================================================================
