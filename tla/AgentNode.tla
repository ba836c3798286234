----------------------------- MODULE AgentNode -----------------------------
(***************************************************************************)
(* A worker Mac: its agent VM, the saved join configuration, the Node that *)
(* the server keeps of it, and the operator's join, start, stop and remove *)
(* beside the supervisor, which starts the agent when it does not run.     *)
(* Nothing orders the two, and Join saves only once the agent connected.   *)
(*                                                                         *)
(* Three addresses matter.  The Mac's own (adv) may move within its subnet *)
(* and is looked up at each start.  The VM gets a new primary one at each  *)
(* launch; the guest keeps the Node's InternalIP by asking the server for  *)
(* it, or by the one the configuration recorded (prev).                    *)
(***************************************************************************)
EXTENDS Integers, FiniteSets

CONSTANTS Settings,          (* what sameAgentRuntimeConfig compares but adv *)
          Hosts, OffSubnet,  (* addresses of the Mac; those on other subnets *)
          Addresses, None,   (* primary addresses of VMs                     *)
          Commands, FaultKinds,
          MaxCommands, MaxJoins, MaxFaults                         (* bounds *)

ASSUME SettingsAssumption == Settings # {}
ASSUME CommandsAssumption == Commands \subseteq {"join", "start", "stop", "remove", "removeKeep"}
ASSUME FaultsAssumption   == FaultKinds \subseteq {"fail", "die", "exit", "unreach", "move"}
ASSUME NoneAssumption     == None \notin Addresses
ASSUME HostsAssumption    == OffSubnet \subseteq Hosts
ASSUME BoundsAssumption   == {MaxCommands, MaxJoins, MaxFaults} \subseteq Nat

VARIABLES
  vm,        (* the envelope and the configuration it was launched with;     *)
             (* broken (history): a command ended before it saved that       *)
  guest,     (* "off", "booting", "trying" to reach the server, "connected"  *)
             (* or "rejected"                                                *)
  primary, effective,   (* the VM's address, and the node address K3s uses   *)
  volume,    (* id: 0 if there is none, or the identity it holds; joined:    *)
             (* whether it holds credentials of the server                   *)
  saved,     (* the configuration file                                       *)
  node,      (* the Node object: InternalIP and the identity it belongs to   *)
  reach,     (* whether the server can be reached                            *)
  host,      (* the Mac's address                                            *)
  proc, commands, joins, faults

external == <<guest, primary, effective, node, reach, host>>
counters == <<commands, joins, faults>>
vars     == <<vm, volume, saved, proc, external, counters>>

Processes == {"operator", "supervisor"}
Configs   == [set : Settings, adv : Hosts, prev : Addresses \cup {None}]
AnyConfig == [set |-> CHOOSE s \in Settings : TRUE, adv |-> CHOOSE h \in Hosts : TRUE, prev |-> None]
Idle      == [cmd |-> "none", pc |-> "idle", cfg |-> AnyConfig, found |-> FALSE,
              changed |-> FALSE, address |-> None, ok |-> TRUE]

CommandSteps == {"volume", "joinLook", "stopFirst", "delete", "run", "wait", "status",
                 "agentStatus", "startLook", "startVolume", "stopLook", "stop",
                 "removeLook", "removeStop", "removeEnvelope", "removeVolume"}
FileSteps    == {"load", "truncate", "write", "removeFile"}

TypeOK ==
  /\ vm \in [state : {"missing", "stopped", "running"}, cfg : Configs, broken : BOOLEAN]
  /\ guest \in {"off", "booting", "trying", "connected", "rejected"}
  /\ guest # "off" <=> vm.state = "running"
  /\ primary # None <=> vm.state = "running"
  /\ guest \in {"trying", "connected", "rejected"} => effective \in Addresses
  /\ guest = "connected" => node.ip # None /\ volume.joined
  /\ volume \in [id : 0..MaxCommands + 2, joined : BOOLEAN]
  /\ saved \in [state : {"absent", "torn", "whole"}, cfg : Configs]
  /\ \A p \in Processes : /\ proc[p].pc \in CommandSteps \cup FileSteps \cup {"idle", "off"}
                          /\ proc[p].cfg \in Configs
  /\ commands \in 0..MaxCommands /\ joins \in 0..MaxJoins /\ faults \in 0..MaxFaults

(* Nothing yet on this Mac; a supervisor may be installed. *)
Init ==
  /\ vm = [state |-> "missing", cfg |-> AnyConfig, broken |-> FALSE]
  /\ guest = "off" /\ primary = None /\ effective = None
  /\ volume = [id |-> 0, joined |-> FALSE] /\ saved = [state |-> "absent", cfg |-> AnyConfig]
  /\ node = [ip |-> None, id |-> 0]
  /\ reach = TRUE /\ host \in Hosts
  /\ \E step \in {"idle", "off"} :
       proc = [operator |-> Idle, supervisor |-> [Idle EXCEPT !.pc = step]]
  /\ commands = 0 /\ joins = 0 /\ faults = 0

-----------------------------------------------------------------------------
At(p, step)     == proc[p].pc = step
Supervised      == ~At("supervisor", "off")
Becomes(p, r)   == proc' = [proc EXCEPT ![p] = r]
Goto(p, step)   == [proc[p] EXCEPT !.pc = step]
Finished(p, ok) == [proc[p] EXCEPT !.pc = "idle", !.ok = ok]

Launched == vm.state # "missing"

(* The operator issues a command; a pass of the supervisor begins. *)
Issue(c) ==
  /\ At("operator", "idle") /\ commands < MaxCommands
  /\ c = "join" => joins < MaxJoins
  /\ \E s \in Settings :
       Becomes("operator",
         [Idle EXCEPT !.cmd = c,
            !.cfg = IF c = "join" THEN [set |-> s, adv |-> host, prev |-> None] ELSE AnyConfig,
            !.pc  = CASE c = "join" -> "volume" [] c = "start" -> "load"
                      [] c = "stop" -> "stopLook" [] OTHER -> "removeLook"])
  /\ commands' = commands + 1 /\ joins' = IF c = "join" THEN joins + 1 ELSE joins
  /\ UNCHANGED <<vm, volume, saved, external, faults>>

Pass ==
  /\ At("supervisor", "idle")
  /\ Becomes("supervisor", [Idle EXCEPT !.cmd = "supervise", !.pc = "agentStatus"])
  /\ UNCHANGED <<vm, volume, saved, external, counters>>

(* The supervisor leaves an agent alone that runs. *)
Inspect(p) ==
  /\ At(p, "agentStatus")
  /\ Becomes(p, IF vm.state = "running" THEN Finished(p, TRUE) ELSE Goto(p, "load"))
  /\ UNCHANGED <<vm, volume, saved, external, counters>>

-----------------------------------------------------------------------------
(* Join *)

NextVolume == IF volume.id > node.id THEN volume.id + 1 ELSE node.id + 1

(* An agent volume is made if there is none; its identity is a new one.      *)
EnsureVolume(p) ==
  /\ proc[p].pc \in {"volume", "startVolume"}
  /\ volume' = IF volume.id = 0 THEN [id |-> NextVolume, joined |-> FALSE] ELSE volume
  /\ Becomes(p, Goto(p, IF At(p, "volume") THEN "joinLook"
                        ELSE IF proc[p].found THEN "delete" ELSE "run"))
  /\ UNCHANGED <<vm, saved, external, counters>>

(* Mutant: the Mac's address is not compared. *)
SameAgentRuntimeConfig_Address(c, d) == c.set = d.set

SameAgentRuntimeConfig(c, d) == c.set = d.set /\ c.adv = d.adv

(* An agent is launched again unless it runs with the same configuration.    *)
JoinLook(p) ==
  /\ At(p, "joinLook")
  /\ LET same == saved.state = "whole" /\ SameAgentRuntimeConfig(saved.cfg, proc[p].cfg)
     IN Becomes(p, Goto(p, CASE vm.state = "missing" -> "run"
                             [] vm.state = "stopped" -> "delete"
                             [] OTHER -> IF same THEN "wait" ELSE "stopFirst"))
  /\ UNCHANGED <<vm, volume, saved, external, counters>>

VMStops ==
  /\ vm' = [vm EXCEPT !.state = "stopped"] /\ guest' = "off" /\ primary' = None
  /\ effective' = None /\ UNCHANGED <<node, reach, host>>

StopFirst(p) ==
  /\ At(p, "stopFirst") /\ vm.state = "running"
  /\ VMStops
  /\ Becomes(p, Goto(p, IF proc[p].cmd = "join" THEN "delete" ELSE "startVolume"))
  /\ UNCHANGED <<volume, saved, counters>>

DeleteStopped(p) ==
  /\ At(p, "delete") /\ vm.state = "stopped"
  /\ vm' = [vm EXCEPT !.state = "missing"]
  /\ Becomes(p, Goto(p, "run"))
  /\ UNCHANGED <<volume, saved, external, counters>>

Run(p) ==
  /\ At(p, "run") /\ vm.state = "missing" /\ volume.id # 0
  /\ vm' = [state |-> "running", cfg |-> proc[p].cfg, broken |-> FALSE]
  /\ guest' = "booting" /\ primary' \in Addresses
  /\ Becomes(p, Goto(p, "wait"))
  /\ UNCHANGED <<volume, saved, effective, node, reach, host, counters>>

BreaksOff(p) ==
  vm' = [vm EXCEPT !.broken = @ \/ proc[p].pc \in {"wait", "status", "truncate", "write"}]

(* waitAgentConnected reads the log of this boot. *)
Wait(p) ==
  /\ At(p, "wait")
  /\ IF guest = "connected"
     THEN Becomes(p, Goto(p, "status")) /\ UNCHANGED vm
     ELSE Becomes(p, Finished(p, FALSE)) /\ BreaksOff(p)
  /\ UNCHANGED <<volume, saved, external, counters>>

(* Mutant: the address is recorded at each start. *)
Recorded_Always(cfg, address) == [cfg EXCEPT !.prev = address]

(* The address that is recorded for the next launches: the VM's. *)
Recorded(cfg, address) == IF cfg.prev = None THEN [cfg EXCEPT !.prev = address] ELSE cfg

(* AgentStatus: a VM that has gone, or has no address, would save none.      *)
Status(p) ==
  /\ At(p, "status") /\ Launched
  /\ Becomes(p, [Goto(p, "truncate") EXCEPT !.cfg = Recorded(@, primary)])
  /\ UNCHANGED <<vm, volume, saved, external, counters>>

Truncate(p) ==
  /\ At(p, "truncate")
  /\ saved' = [saved EXCEPT !.state = "torn"]
  /\ Becomes(p, Goto(p, "write"))
  /\ UNCHANGED <<vm, volume, external, counters>>

Write(p) ==
  /\ At(p, "write")
  /\ saved' = [state |-> "whole", cfg |-> proc[p].cfg]
  /\ Becomes(p, Finished(p, TRUE))
  /\ UNCHANGED <<vm, volume, external, counters>>

-----------------------------------------------------------------------------
(* StartAgent *)

(* The Mac's address now, if the recorded one is gone and its subnet is not. *)
UpdatedAddress(adv) == IF host \in OffSubnet \/ adv \in OffSubnet THEN adv ELSE host

Load(p) ==
  /\ At(p, "load")
  /\ LET adv == UpdatedAddress(saved.cfg.adv)
     IN Becomes(p, IF saved.state = "whole"
                   THEN [Goto(p, "startLook") EXCEPT !.cfg = [saved.cfg EXCEPT !.adv = adv],
                                                     !.changed = adv # saved.cfg.adv]
                   ELSE Finished(p, FALSE))
  /\ UNCHANGED <<vm, volume, saved, external, counters>>

(* Mutant: an envelope that is stopped counts as one that is there. *)
StartLook_Stopped(p) ==
  /\ At(p, "startLook")
  /\ Becomes(p, [Goto(p, CASE vm.state = "running" /\ proc[p].changed -> "stopFirst"
                           [] vm.state = "missing"                    -> "startVolume"
                           [] OTHER                                   -> "wait")
                 EXCEPT !.found = Launched])
  /\ UNCHANGED <<vm, volume, saved, external, counters>>

(* A VM that runs is taken as it is, unless the Mac's address moved.         *)
StartLook(p) ==
  /\ At(p, "startLook")
  /\ Becomes(p, [Goto(p, IF vm.state # "running" THEN "startVolume"
                         ELSE IF proc[p].changed THEN "stopFirst" ELSE "wait")
                 EXCEPT !.found = Launched])
  /\ UNCHANGED <<vm, volume, saved, external, counters>>

-----------------------------------------------------------------------------
(* StopAgent and DeleteAgent *)

StopLook(p) ==
  /\ At(p, "stopLook") /\ Launched
  /\ Becomes(p, IF vm.state = "stopped" THEN Finished(p, TRUE) ELSE Goto(p, "stop"))
  /\ UNCHANGED <<vm, volume, saved, external, counters>>

Stop(p) ==
  /\ proc[p].pc \in {"stop", "removeStop"} /\ vm.state = "running"
  /\ VMStops
  /\ Becomes(p, IF At(p, "stop") THEN Finished(p, TRUE) ELSE Goto(p, "removeEnvelope"))
  /\ UNCHANGED <<volume, saved, counters>>

EnvelopeGone(p) == IF proc[p].cmd = "removeKeep" THEN Finished(p, TRUE) ELSE Goto(p, "removeVolume")

RemoveLook(p) ==
  /\ At(p, "removeLook")
  /\ Becomes(p, CASE vm.state = "missing" -> EnvelopeGone(p)
                  [] vm.state = "stopped" -> Goto(p, "removeEnvelope")
                  [] OTHER                -> Goto(p, "removeStop"))
  /\ UNCHANGED <<vm, volume, saved, external, counters>>

RemoveEnvelope(p) ==
  /\ At(p, "removeEnvelope") /\ vm.state = "stopped"
  /\ vm' = [vm EXCEPT !.state = "missing"]
  /\ Becomes(p, EnvelopeGone(p))
  /\ UNCHANGED <<volume, saved, external, counters>>

RemoveVolume(p) ==
  /\ At(p, "removeVolume") /\ vm.state = "missing"
  /\ volume' = [id |-> 0, joined |-> FALSE]
  /\ Becomes(p, Goto(p, "removeFile"))
  /\ UNCHANGED <<vm, saved, external, counters>>

RemoveFile(p) ==
  /\ At(p, "removeFile")
  /\ saved' = [saved EXCEPT !.state = "absent"]
  /\ Becomes(p, Finished(p, TRUE))
  /\ UNCHANGED <<vm, volume, external, counters>>

-----------------------------------------------------------------------------
(* The guest, the server and the network. *)

(* The guest's script: what the server knows, what was recorded, its own.    *)
EffectiveNodeIP ==
  IF volume.joined /\ reach /\ node.ip # None THEN node.ip
  ELSE IF vm.cfg.prev # None THEN vm.cfg.prev ELSE primary

GuestBoots ==
  /\ guest = "booting"
  /\ guest' = "trying" /\ effective' = EffectiveNodeIP
  /\ UNCHANGED <<vm, volume, saved, proc, primary, node, reach, host, counters>>

(* Mutant: the node's password lies in the envelope. *)
Identity_Envelope == node.id + 1

(* The node's password lies in the volume. *)
Identity == volume.id

(* The agent registers its Node, or is rejected with another's password.     *)
GuestConnects ==
  /\ guest = "trying" /\ reach
  /\ IF node.ip = None \/ node.id = Identity
     THEN /\ guest' = "connected" /\ node' = [ip |-> effective, id |-> Identity]
          /\ volume' = [volume EXCEPT !.joined = TRUE]
     ELSE guest' = "rejected" /\ UNCHANGED <<node, volume>>
  /\ UNCHANGED <<vm, saved, proc, primary, effective, reach, host, counters>>

Reachable ==
  /\ ~reach /\ reach' = TRUE
  /\ UNCHANGED <<vm, volume, saved, proc, guest, primary, effective, node, host, counters>>

Fault(k) == /\ k \in FaultKinds /\ faults < MaxFaults
            /\ faults' = faults + 1 /\ UNCHANGED <<commands, joins>>

Unreachable ==
  /\ Fault("unreach") /\ reach /\ reach' = FALSE
  /\ UNCHANGED <<vm, volume, saved, proc, guest, primary, effective, node, host>>

HostMoves ==
  /\ Fault("move") /\ host' \in Hosts \ {host}
  /\ UNCHANGED <<vm, volume, saved, proc, guest, primary, effective, node, reach>>

VMExits ==
  /\ Fault("exit") /\ vm.state = "running" /\ VMStops
  /\ UNCHANGED <<volume, saved, proc>>

Dies(p) ==
  /\ Fault("die") /\ proc[p].pc \notin {"idle", "off"} /\ Becomes(p, Finished(p, FALSE))
  /\ BreaksOff(p) /\ UNCHANGED <<volume, saved, external>>

Possible(p) ==
  LET step == proc[p].pc IN
  /\ step \in {"stopFirst", "stop", "removeStop"} => vm.state = "running"
  /\ step \in {"delete", "removeEnvelope"} => vm.state = "stopped"
  /\ step = "run" => vm.state = "missing" /\ volume.id # 0
  /\ step \in {"status", "stopLook"} => Launched
  /\ step = "removeVolume" => vm.state = "missing"

(* A command of the container runtime fails: because it cannot be done in    *)
(* the state the runtime is in now, or for another reason.                   *)
Fails(p) ==
  /\ proc[p].pc \in CommandSteps
  /\ IF Possible(p) THEN Fault("fail") ELSE UNCHANGED counters
  /\ Becomes(p, Finished(p, FALSE)) /\ BreaksOff(p)
  /\ UNCHANGED <<volume, saved, external>>

Step(p) ==
  \/ Inspect(p) \/ EnsureVolume(p) \/ JoinLook(p) \/ StopFirst(p) \/ DeleteStopped(p)
  \/ Run(p) \/ Wait(p) \/ Status(p) \/ Truncate(p) \/ Write(p) \/ Load(p) \/ StartLook(p)
  \/ StopLook(p) \/ Stop(p) \/ RemoveLook(p) \/ RemoveEnvelope(p) \/ RemoveVolume(p)
  \/ RemoveFile(p) \/ (~Possible(p) /\ Fails(p))

Guest == GuestBoots \/ GuestConnects \/ Reachable

Next ==
  \/ \E c \in Commands : Issue(c)
  \/ Pass \/ Guest
  \/ \E p \in Processes : Step(p) \/ Fails(p) \/ Dies(p)
  \/ Unreachable \/ HostMoves \/ VMExits

Spec == Init /\ [][Next]_vars

(* Processes and guests go on, launchd keeps the supervisor, and the server  *)
(* comes back.                                                               *)
FairSpec ==
  /\ Spec /\ \A p \in Processes : WF_vars(Step(p))
  /\ WF_vars(Pass) /\ WF_vars(GuestBoots) /\ WF_vars(GuestConnects) /\ WF_vars(Reachable)

-----------------------------------------------------------------------------
(* The InternalIP is recorded, in the file, in every command that will write *)
(* it and in a VM that has yet to connect.  (A second Join records the VM's  *)
(* address, cluster.go:269, while the guest keeps the InternalIP.)           *)
Known ==
  /\ node.ip # None /\ saved.cfg.prev = node.ip
  /\ guest \in {"booting", "trying"} => vm.cfg.prev = node.ip
  /\ \A p \in Processes :
       proc[p].cmd \in {"join", "start", "supervise"} =>
         proc[p].pc \in {"idle", "agentStatus", "load"} \/ proc[p].cfg.prev = node.ip

(* The first Join records the Node's InternalIP, whatever the supervisor,    *)
(* the VM and the network do meanwhile.  It records none if the VM exited    *)
(* after it connected (cluster.go:265-271), and a later start then records   *)
(* the address that its own VM has.                                          *)
JoinRecords ==
  [][\A p \in Processes :
       /\ Write(p) /\ proc[p].cmd = "join" /\ joins = 1
       /\ vm.state = "running" \/ proc[p].cfg.prev # None
       => Known']_vars

(* Once it is recorded, neither the record nor the Node's InternalIP changes *)
(* through starts, whatever address the VM gets and whether or not the       *)
(* server can be asked.                                                      *)
InternalIPKept == [][Known /\ joins' = 1 => Known' /\ node'.ip = node.ip]_vars

(* Only a removal with its data costs an agent its identity: the server      *)
(* rejects no agent that has the volume it joined with.                      *)
NotRejected == guest = "rejected" => ~volume.joined

(* What Join or StartAgent returned nil for runs with the configuration that *)
(* it saved, if no other command launched it and broke off before it saved:  *)
(* StartAgent (cluster.go:315, 325) compares nothing but the labels of a VM  *)
(* that runs, so it does adopt what such a command left.                     *)
UnbrokenRunsAsSaved ==
  LET r == proc["operator"] IN
  /\ ~Supervised /\ r.pc = "idle" /\ r.cmd \in {"join", "start"} /\ r.ok
  /\ vm.state = "running" /\ ~vm.broken
  => vm.cfg.set = r.cfg.set /\ vm.cfg.adv = r.cfg.adv /\ saved.cfg = r.cfg

(* What the supervisor's StartAgent does not repair: no configuration to     *)
(* start from, and a Node that belongs to another volume.                    *)
BeyondSupervisor == saved.state # "whole" \/ (node.ip # None /\ node.id # volume.id)

(* The supervisor brings the agent back whatever the commands and the faults *)
(* left, except for what BeyondSupervisor names.                             *)
AgentComesBack == <>[](guest = "connected" \/ BeyondSupervisor \/ ~Supervised)

(* An agent keeps the identity under which the server knows its Node: its    *)
(* password, on the volume, and its InternalIP.                              *)
IdentityKept == []NotRejected /\ JoinRecords /\ InternalIPKept
=============================================================================
