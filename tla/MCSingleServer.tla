-------------------------- MODULE MCSingleServer ---------------------------
(* Two settings, as before and after an upgrade, on one server. *)
EXTENDS SingleServer

MCSettings    == {"old", "new"}
OldSettings   == {"old"}
EveryCommand  == AllCommands
EveryFault    == {"fail", "die", "interrupt", "exit", "wedge"}
=============================================================================
