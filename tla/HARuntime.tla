----------------------------- MODULE HARuntime -----------------------------
(***************************************************************************)
(* What lies outside the repository: the three server VM envelopes of      *)
(* apple/container, the K3s/embedded-etcd servers inside them, the member  *)
(* volumes and the network.  Modelled from how internal/cluster inspects   *)
(* and drives them.                                                        *)
(*                                                                         *)
(*   vm[m]    "missing"  no envelope          "stopped"  envelope, no VM   *)
(*            "starting" running, not Ready yet                            *)
(*            "ready"    running, Node and API Ready                       *)
(*            "hung"     running, and never Ready again without a restart  *)
(*   voters   the members recorded in the etcd data on the volumes         *)
(***************************************************************************)
EXTENDS HADesiredState

VARIABLES vm, voters, volumes, network

runtimeVars == <<vm, voters, volumes, network>>

VMStates      == {"missing", "stopped", "starting", "ready", "hung"}
RunningStates == {"starting", "ready", "hung"}

RuntimeTypeOK == /\ vm \in [Members -> VMStates]
                 /\ voters \in SUBSET Members
                 /\ volumes \in SUBSET Members
                 /\ network \in BOOLEAN

-----------------------------------------------------------------------------
(* What the code can observe. *)

Running(m) == vm[m] \in RunningStates

(* Mutant: a running VM whose Node is not Ready counts as stopped. *)
Observed_ReadyOnly ==
  [m \in Members |-> CASE vm[m] = "ready"   -> "running"
                       [] vm[m] = "missing" -> "missing"
                       [] OTHER             -> "stopped"]

(* The state an envelope inspection reports. *)
Observed == [m \in Members |-> IF Running(m) THEN "running" ELSE vm[m]]

Unready == {m \in Members : vm[m] # "ready"}

AllReady       == Unready = {}                     (* allHAMembersReady   *)
OthersReady(t) == Unready \subseteq {t}            (* otherHAMembersReady *)

-----------------------------------------------------------------------------
(* K3s and etcd. *)

Alive == {m \in Members : vm[m] \in {"starting", "ready"}}

(* The voters that are up are a majority of all voters. *)
Quorate == 2 * Cardinality(voters \cap Alive) > Cardinality(voters)

(* A started server becomes Ready when etcd serves it.  The first voter is  *)
(* member 1, started with --cluster-init; the others join through it.       *)
BecomesReady(m) ==
  /\ vm[m] = "starting"
  /\ IF voters = {} THEN m = 1 ELSE Quorate
  /\ vm' = [vm EXCEPT ![m] = "ready"]
  /\ voters' = voters \cup {m}
  /\ UNCHANGED <<volumes, network>>

(* Without a quorum the API of a member stops answering. *)
LosesQuorum(m) ==
  /\ vm[m] = "ready"
  /\ ~Quorate
  /\ vm' = [vm EXCEPT ![m] = "starting"]
  /\ UNCHANGED <<voters, volumes, network>>

(* Faults: the VM exits, or the server inside it wedges. *)
Exits(m) ==
  /\ Running(m)
  /\ vm' = [vm EXCEPT ![m] = "stopped"]
  /\ UNCHANGED <<voters, volumes, network>>

Wedges(m) ==
  /\ vm[m] \in {"starting", "ready"}
  /\ vm' = [vm EXCEPT ![m] = "hung"]
  /\ UNCHANGED <<voters, volumes, network>>

(* A reboot of the Mac stops every VM. *)
AllExit ==
  /\ \E m \in Members : Running(m)
  /\ vm' = [m \in Members |-> IF Running(m) THEN "stopped" ELSE vm[m]]
  /\ UNCHANGED <<voters, volumes, network>>

-----------------------------------------------------------------------------
(* What the container commands do to one envelope. *)

Stopped(m)  == [vm EXCEPT ![m] = IF Running(m) THEN "stopped" ELSE @]
Deleted(m)  == [vm EXCEPT ![m] = "missing"]
Launched(m) == [vm EXCEPT ![m] = "starting"]
=============================================================================
