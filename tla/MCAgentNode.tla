---------------------------- MODULE MCAgentNode ----------------------------
(* Two settings, two addresses of the Mac on one subnet and one on another.  *)
EXTENDS AgentNode

CONSTANTS a1, a2

TwoSettings == {"s1", "s2"}
MCHosts     == {"h1", "h2", "x"}
MCOffSubnet == {"x"}
MCAddresses == {a1, a2}

AllCommands == {"join", "start", "stop", "remove", "removeKeep"}
AllFaults   == {"fail", "die", "exit", "unreach", "move"}
=============================================================================
