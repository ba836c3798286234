----------------------------- MODULE MCLaunchd -----------------------------
(* Two releases render the same arguments in plists that differ elsewhere;   *)
(* a third definition runs another executable.                               *)
EXTENDS Launchd

CONSTANTS c1, c2, oldPlist, newPlist, otherPath

TwoClients    == {c1, c2}
MCDefinitions == {oldPlist, newPlist, otherPath}
OneWanted     == {newPlist}
MCArgs        == {"same", "other"}
MCArgsOf      == [d \in MCDefinitions |-> IF d = otherPath THEN "other" ELSE "same"]

(* A per-user installation beside an unattended one; the documented order,   *)
(* which has no per-user installation; plists that are also removed by hand; *)
(* and the repetition of one command.                                        *)
MCPractices ==
  {{"Install", "Uninstall", "InstallUnattended"},
   {"Uninstall", "InstallUnattended", "StatusUnattended", "UninstallUnattended"},
   {"InstallUnattended", "UninstallUnattended", "RemoveByHand"},
   {"UninstallUnattended"}, {"Install"}}
=============================================================================
