---------------------------- MODULE HALifecycle ----------------------------
(***************************************************************************)
(* The lifecycle of the local three-member HA cluster: the operator's      *)
(* commands (create, start, stop, delete; stop, start, restart of one      *)
(* member) and the supervisor's reconciliation, as they interleave with    *)
(* VM failures, lost processes and commands that fail.                     *)
(*                                                                         *)
(* Every operation runs under the per-cluster operation lock, so at most   *)
(* one is in progress; op is that operation, and op.actor = "none" when    *)
(* the lock is free.  An operation is a sequence of steps (op.pc) between  *)
(* which the VMs, but no other operation, may change.  A step that reads   *)
(* the cluster (an inspection and a status together) is one atomic look;   *)
(* a mutation is a later step, so it may act on a stale look.  A step is   *)
(* followed by Lost when the process dies there, or when the command fails *)
(* there and the code only returns the error.                              *)
(***************************************************************************)
EXTENDS HARuntime, Sequences

CONSTANTS Commands,        (* the operator commands that are issued          *)
          LegacyMembers,   (* members whose first envelope an old apc made   *)
          MaxCommands,     (* bound: commands issued in a behaviour          *)
          MaxFaults        (* bound: faults in a behaviour                   *)

MemberCommands  == {"stopMember", "startMember", "restartMember"}
ClusterCommands == {"createHA", "startHA", "stopHA", "deleteHA", "deleteKeepData"}

ASSUME CommandsAssumption == Commands \subseteq MemberCommands \cup ClusterCommands
ASSUME LegacyAssumption   == LegacyMembers \subseteq Members
ASSUME BoundsAssumption   == MaxCommands \in Nat /\ MaxFaults \in Nat

VARIABLES
  legacy,        (* members whose envelope still has the legacy init         *)
  desired,       (* the desired-state file                                   *)
  files,         (* which of the config and token files exist                *)
  journalSafe,   (* the recovery journal is absent or runtime-safe           *)
  quiet,         (* haSupervisorState: members whose startup grace or        *)
                 (* repair backoff is running; lost with the process         *)
  op,            (* the operation holding the lock, or Idle                 *)
  calm,          (* history: no VM has failed so far                         *)
  outage,        (* history: no cluster yet, or a stop or delete was issued  *)
  commands, faults

fileVars    == <<desired, files, journalSafe>>
hostVars    == <<fileVars, quiet>>
historyVars == <<calm, outage, commands, faults>>
vars == <<runtimeVars, legacy, hostVars, op, historyVars>>

-----------------------------------------------------------------------------
Flows == MemberCommands \cup {"none", "createHA", "migrate", "stopHA",
                              "deleteHA", "deleteKeepData", "repair", "rejoin"}

(* Flows that answer a failed step by starting the member again. *)
RecoveringFlows == {"restartMember", "repair", "migrate"}

MemberSteps  == {"persistIntent", "restartCheck", "stopCheck", "offlineCheck",
                 "repairCheck", "stopApply", "stopWait", "startCheck",
                 "deleteEnvelope", "runEnvelope", "memberWait", "startWait"}
ClusterSteps == {"persistRunning", "createCheck", "saveConfig", "markRunning",
                 "createNetwork", "createVolume", "createMember", "createWait",
                 "persistStopped", "clusterPreflight", "clusterStop",
                 "clusterDelete", "deleteVolume", "deleteNetwork", "removeFile"}

(* Mutant: the config is removed before the journal and the intent. *)
RemovalOrder_ConfigFirst == <<"token", "config", "journal", "desired">>

(* removeExactFiles on a full delete: the config goes last.  (The kubeconfig *)
(* has no bearing on the lifecycle and is left out.)                         *)
RemovalOrder == <<"token", "journal", "desired", "config">>

NothingSeen == [m \in Members |-> "missing"]

Idle == [actor |-> "none", flow |-> "none", pc |-> "idle", target |-> 1,
         seen |-> NothingSeen, fresh |-> FALSE, newNetwork |-> FALSE,
         mustRestart |-> FALSE, recovering |-> FALSE]

Begun(who, flow, step, target) ==
  [Idle EXCEPT !.actor = who, !.flow = flow, !.pc = step, !.target = target]

Steps == MemberSteps \cup ClusterSteps \cup {"idle"}

Operations == [actor : {"none", "operator", "supervisor"}, flow : Flows, pc : Steps,
               target : Nat, seen : [Members -> {"missing", "stopped", "running"}],
               fresh : BOOLEAN, newNetwork : BOOLEAN, mustRestart : BOOLEAN,
               recovering : BOOLEAN]

(* target is a member, or while files are removed an index of RemovalOrder.  *)
OperationOK(o) ==
  /\ o \in Operations
  /\ IF o.pc = "removeFile" THEN o.target \in DOMAIN RemovalOrder ELSE o.target \in Members

TypeOK ==
  /\ RuntimeTypeOK
  /\ legacy \in SUBSET Members
  /\ desired \in DesiredStates /\ Cardinality(desired.stopped) <= 1
  /\ files \in SUBSET {"config", "token"}
  /\ journalSafe \in BOOLEAN
  /\ quiet \in SUBSET Members
  /\ OperationOK(op)
  /\ calm \in BOOLEAN /\ outage \in BOOLEAN
  /\ commands \in 0..MaxCommands /\ faults \in 0..MaxFaults

(* Either nothing exists yet or all three members are Ready. *)
Init ==
  /\ \/ /\ vm = [m \in Members |-> "missing"]
        /\ voters = {} /\ volumes = {} /\ network = FALSE
        /\ files = {} /\ legacy = {} /\ outage = TRUE /\ journalSafe = TRUE
     \/ /\ vm = [m \in Members |-> "ready"]
        /\ voters = Members /\ volumes = Members /\ network = TRUE
        /\ files = {"config", "token"} /\ legacy = LegacyMembers
        /\ outage = FALSE /\ journalSafe \in BOOLEAN
  /\ desired = DefaultDesired
  /\ quiet = {}
  /\ op = Idle
  /\ calm = TRUE /\ commands = 0 /\ faults = 0

-----------------------------------------------------------------------------
(* How an operation continues. *)

At(step)  == op.pc = step
In(flows) == op.flow \in flows
Goto(step) == [op EXCEPT !.pc = step]

(* The deferred start of restartHAMemberOperation, restartUnhealthy... and   *)
(* the legacy migration: one more startHAMemberLocked, then the first error. *)
Recovery == [op EXCEPT !.pc = "startCheck", !.recovering = TRUE]

(* stopHAMemberLocked returned; really says whether it stopped the member.   *)
AfterStop(really) ==
  IF In({"stopMember"}) THEN Idle
  ELSE [op EXCEPT !.pc = "startCheck",
                  !.mustRestart = \/ In({"repair"})
                                  \/ really /\ In({"restartMember"})]

(* ... failed; maybe says whether the member may have stopped.               *)
AfterFailedStop(maybe) ==
  IF In(RecoveringFlows) /\ (maybe \/ op.mustRestart) THEN Recovery ELSE Idle

(* createHALocked goes to the next member, or waits for all of them. *)
NextMember ==
  IF op.target = MemberCount
  THEN [op EXCEPT !.pc = "createWait", !.flow = "createHA"]
  ELSE [op EXCEPT !.pc = "createMember", !.flow = "createHA", !.target = @ + 1]

(* reconcileHAMember returned inside createHALocked. *)
Reconciled == IF op.fresh THEN Goto("memberWait") ELSE NextMember

(* startHAMemberLocked returned. *)
AfterStart == IF In({"migrate"}) /\ ~op.recovering THEN Reconciled ELSE Idle

AfterFailedStart ==
  IF op.mustRestart /\ ~op.recovering THEN Recovery ELSE Idle

(* recordRepair: a repair that ends otherwise than by its own start starts   *)
(* the backoff of its target.                                                *)
RecordRepair(ok) ==
  quiet' = IF In({"repair"}) /\ op' = Idle /\ ~ok THEN quiet \cup {op.target} ELSE quiet

(* runHAServerEnvelope returned. *)
AfterRun == CASE In({"rejoin"})   -> Goto("memberWait")
              [] In({"createHA"}) -> Reconciled
              [] OTHER            -> Goto("startWait")

-----------------------------------------------------------------------------
(* What the checks accept. *)

(* preflightHAMemberTopology: the network, all volumes, and every envelope   *)
(* but, if allowed, the target's.                                            *)
Topology(absentOK) ==
  /\ network /\ volumes = Members
  /\ \A m \in Members \ absentOK : vm[m] # "missing"

(* Mutant: the peers of a member that is to be stopped are not looked at. *)
MayStop_NoPeers(t) == Running(t)

(* Mutant: a member that is to be offline is stopped only while it is Ready. *)
MayOffline_Ready(t) == Topology({t}) /\ Running(t) /\ AllReady

MayStop(t)    == Running(t) /\ AllReady
MayRestart    == Topology({}) /\ AllReady
MayRepair(t)  == Topology({}) /\ OthersReady(t)
MayOffline(t) == Topology({t}) /\ Running(t) /\ OthersReady(t)
MayStart(t)   == OthersReady(t) /\ ~AllReady

(* Mutant: preflightHA called as for a stop, partial volumes allowed. *)
MayCreate_PartialVolumes == "token" \in files \/ volumes = {}

(* preflightHA without partial volumes, and ensureHAToken. *)
MayCreate == volumes \in {{}, Members} /\ ("token" \in files \/ volumes = {})

-----------------------------------------------------------------------------
(* Stop, start and restart of one member. *)

PersistMemberIntent ==
  /\ At("persistIntent")
  /\ LET d == WithMemberIntent(desired, op.target, In({"stopMember"}))
     IN IF ValidDesired(d)
        THEN /\ desired' = d
             /\ op' = Goto(CASE In({"stopMember"})  -> "stopCheck"
                             [] In({"startMember"}) -> "startCheck"
                             [] OTHER               -> "restartCheck")
        ELSE op' = Idle /\ UNCHANGED desired
  /\ UNCHANGED <<runtimeVars, legacy, files, journalSafe, quiet, historyVars>>

RestartCheck ==
  /\ At("restartCheck")
  /\ op' = IF MayRestart THEN Goto("stopCheck") ELSE Idle
  /\ UNCHANGED <<runtimeVars, legacy, hostVars, historyVars>>

StopCheck ==
  /\ At("stopCheck")
  /\ LET t == op.target
     IN op' = CASE Topology({t}) /\ MayStop(t)                    -> Goto("stopApply")
                [] Topology({t}) /\ ~Running(t) /\ OthersReady(t) -> AfterStop(FALSE)
                [] OTHER                                          -> AfterFailedStop(FALSE)
  /\ UNCHANGED <<runtimeVars, legacy, hostVars, historyVars>>

(* stopIntentionalUnhealthyHAMemberLocked, up to its stop call. *)
OfflineCheck ==
  /\ At("offlineCheck")
  /\ op' = IF MayOffline(op.target) THEN Goto("stopApply") ELSE Idle
  /\ UNCHANGED <<runtimeVars, legacy, hostVars, historyVars>>

(* restartUnhealthyHAMemberLocked, up to its stop call. *)
RepairCheck ==
  /\ At("repairCheck")
  /\ op' = IF MayRepair(op.target)
           THEN [op EXCEPT !.pc = "stopApply", !.mustRestart = TRUE]
           ELSE Idle
  /\ RecordRepair(FALSE)
  /\ UNCHANGED <<runtimeVars, legacy, fileVars, historyVars>>

StopApply ==
  /\ At("stopApply")
  /\ vm' = Stopped(op.target)
  /\ op' = Goto("stopWait")
  /\ UNCHANGED <<voters, volumes, network, legacy, hostVars, historyVars>>

(* waitHAMemberStopped *)
StopWait ==
  /\ At("stopWait")
  /\ ~Running(op.target) /\ OthersReady(op.target)
  /\ op' = AfterStop(TRUE)
  /\ UNCHANGED <<runtimeVars, legacy, hostVars, historyVars>>

(* startHAMemberLocked, up to the first change it makes. *)
StartCheck ==
  /\ At("startCheck")
  /\ LET t == op.target
     IN op' = CASE Topology({t}) /\ AllReady    -> AfterStart
                [] Topology({t}) /\ MayStart(t) ->
                     Goto(CASE Running(t)         -> "startWait"
                            [] vm[t] = "stopped" -> "deleteEnvelope"
                            [] vm[t] = "missing" -> "runEnvelope")
                [] OTHER                        -> AfterFailedStart
  /\ RecordRepair(AllReady /\ ~op.recovering)
  /\ UNCHANGED <<runtimeVars, legacy, fileVars, historyVars>>

DeleteEnvelope ==
  /\ At("deleteEnvelope")
  /\ vm' = Deleted(op.target)
  /\ op' = Goto("runEnvelope")
  /\ UNCHANGED <<voters, volumes, network, legacy, hostVars, historyVars>>

(* The retries of runHAServerEnvelope after an address collision end here   *)
(* with the member running, or in RunFails.                                 *)
RunEnvelope ==
  /\ At("runEnvelope")
  /\ vm' = Launched(op.target)
  /\ legacy' = legacy \ {op.target}
  /\ op' = AfterRun
  /\ UNCHANGED <<voters, volumes, network, hostVars, historyVars>>

(* waitHAClusterReady of startHAMemberLocked *)
StartWait ==
  /\ At("startWait")
  /\ AllReady
  /\ op' = AfterStart
  /\ RecordRepair(~op.recovering)
  /\ UNCHANGED <<runtimeVars, legacy, fileVars, historyVars>>

(* waitHAMemberReady after a rejoin, or after each launch of a fresh cluster *)
MemberWait ==
  /\ At("memberWait")
  /\ vm[op.target] = "ready"
  /\ op' = IF In({"rejoin"}) THEN Idle ELSE NextMember
  /\ UNCHANGED <<runtimeVars, legacy, hostVars, historyVars>>

(* A wait reaches its deadline.  The supervisor's repair has no time left    *)
(* for its recovery: recoveryCtx derives from the expired context.           *)
WaitTimesOut ==
  /\ op.pc \in {"stopWait", "startWait", "memberWait", "createWait"}
  /\ op' = IF In({"repair"}) THEN Idle
           ELSE CASE At("stopWait")  -> AfterFailedStop(TRUE)
                  [] At("startWait") -> AfterFailedStart
                  [] OTHER           -> Idle
  /\ RecordRepair(FALSE)
  /\ UNCHANGED <<runtimeVars, legacy, fileVars, historyVars>>

-----------------------------------------------------------------------------
(* Create and start of the cluster. *)

(* startHALocked *)
PersistRunning ==
  /\ At("persistRunning")
  /\ desired' = MarkedRunning(desired)
  /\ op' = Goto("createCheck")
  /\ UNCHANGED <<runtimeVars, legacy, files, journalSafe, quiet, historyVars>>

(* createHALocked looks at everything, and writes the token if it is fresh. *)
CreateCheck ==
  /\ At("createCheck")
  /\ IF MayCreate
     THEN /\ files' = files \cup {"token"}
          /\ op' = [op EXCEPT !.pc = "saveConfig", !.fresh = volumes = {},
                              !.seen = Observed]
     ELSE op' = Idle /\ UNCHANGED files
  /\ UNCHANGED <<runtimeVars, legacy, desired, journalSafe, quiet, historyVars>>

SaveConfig ==
  /\ At("saveConfig")
  /\ files' = files \cup {"config"}
  /\ op' = Goto("markRunning")
  /\ UNCHANGED <<runtimeVars, legacy, desired, journalSafe, quiet, historyVars>>

MarkRunning ==
  /\ At("markRunning")
  /\ desired' = MarkedRunning(desired)
  /\ op' = Goto("createNetwork")
  /\ UNCHANGED <<runtimeVars, legacy, files, journalSafe, quiet, historyVars>>

(* createHALocked then makes every volume that the preflight did not find;  *)
(* nothing changes the volumes between the preflight and here.              *)
CreateNetwork ==
  /\ At("createNetwork")
  /\ network' = TRUE
  /\ op' = [op EXCEPT !.pc = IF volumes = Members THEN "createMember" ELSE "createVolume",
                      !.newNetwork = ~network, !.target = 1]
  /\ UNCHANGED <<vm, voters, volumes, legacy, hostVars, historyVars>>

CreateVolume ==
  /\ At("createVolume")
  /\ volumes' = volumes \cup {op.target}
  /\ op' = IF op.target = MemberCount
           THEN [op EXCEPT !.pc = "createMember", !.target = 1]
           ELSE [op EXCEPT !.target = @ + 1]
  /\ UNCHANGED <<vm, voters, network, legacy, hostVars, historyVars>>

(* A failed volume creation, which may have made its volume all the same,   *)
(* and rollbackHAFreshInfrastructure, whose own commands may fail.  MayCreate*)
(* sees to it that all the volumes there are were made by this create.      *)
RollBackVolumes ==
  /\ At("createVolume") /\ op.target \notin volumes
  /\ faults < MaxFaults
  /\ \E kept \in SUBSET volumes, made \in {{}, {op.target}} :
       volumes' = kept \cup made
  /\ network' \in IF op.newNetwork THEN BOOLEAN ELSE {network}
  /\ op' = Idle
  /\ faults' = faults + 1
  /\ UNCHANGED <<vm, voters, legacy, hostVars, calm, outage, commands>>

(* reconcileHAMember goes by the envelope as the preflight saw it. *)
CreateMember ==
  /\ At("createMember")
  /\ LET t == op.target
     IN op' = CASE op.seen[t] = "running" /\ t \notin legacy -> Reconciled
                [] op.seen[t] = "running" /\ t \in legacy ->
                     [op EXCEPT !.flow = "migrate", !.pc = "stopCheck"]
                [] op.seen[t] = "stopped" -> Goto("deleteEnvelope")
                [] op.seen[t] = "missing" -> Goto("runEnvelope")
  /\ UNCHANGED <<runtimeVars, legacy, hostVars, historyVars>>

CreateWait ==
  /\ At("createWait")
  /\ AllReady
  /\ op' = Idle
  /\ UNCHANGED <<runtimeVars, legacy, hostVars, historyVars>>

-----------------------------------------------------------------------------
(* Stop and delete of the cluster, from the last member to the first. *)

PersistStopped ==
  /\ At("persistStopped")
  /\ desired' = MarkedStopped(desired)
  /\ op' = Goto("clusterPreflight")
  /\ UNCHANGED <<runtimeVars, legacy, files, journalSafe, quiet, historyVars>>

ClusterPreflight ==
  /\ At("clusterPreflight")
  /\ op' = [op EXCEPT !.pc = "clusterStop", !.target = MemberCount, !.seen = Observed]
  /\ UNCHANGED <<runtimeVars, legacy, hostVars, historyVars>>

(* Where the loop goes when it is done with a member's envelope. *)
PreviousMember ==
  CASE op.target > 1        -> [op EXCEPT !.pc = "clusterStop", !.target = @ - 1]
    [] op.target = 1 /\ In({"deleteHA"}) ->
         [op EXCEPT !.pc = "deleteVolume", !.target = MemberCount]
    [] OTHER                -> Idle

ClusterStop ==
  /\ At("clusterStop")
  /\ LET t == op.target
     IN /\ vm' = IF op.seen[t] = "running" THEN Stopped(t) ELSE vm
        /\ op' = IF op.seen[t] = "missing" \/ In({"stopHA"})
                 THEN PreviousMember ELSE Goto("clusterDelete")
  /\ UNCHANGED <<voters, volumes, network, legacy, hostVars, historyVars>>

ClusterDelete ==
  /\ At("clusterDelete")
  /\ vm' = Deleted(op.target)
  /\ legacy' = legacy \ {op.target}
  /\ op' = PreviousMember
  /\ UNCHANGED <<voters, volumes, network, hostVars, historyVars>>

DeleteVolume ==
  /\ At("deleteVolume")
  /\ volumes' = volumes \ {op.target}
  /\ voters' = IF volumes' = {} THEN {} ELSE voters
  /\ op' = IF op.target > 1 THEN [op EXCEPT !.target = @ - 1] ELSE Goto("deleteNetwork")
  /\ UNCHANGED <<vm, network, legacy, hostVars, historyVars>>

DeleteNetwork ==
  /\ At("deleteNetwork")
  /\ network' = FALSE
  /\ op' = [op EXCEPT !.pc = "removeFile", !.target = 1]
  /\ UNCHANGED <<vm, voters, volumes, legacy, hostVars, historyVars>>

RemoveFile ==
  /\ At("removeFile")
  /\ LET file == RemovalOrder[op.target]
     IN /\ files' = files \ {file}
        /\ journalSafe' = (journalSafe \/ file = "journal")
        /\ desired' = IF file = "desired" THEN DefaultDesired ELSE desired
  /\ op' = IF op.target < Len(RemovalOrder) THEN [op EXCEPT !.target = @ + 1] ELSE Idle
  /\ UNCHANGED <<runtimeVars, legacy, quiet, historyVars>>

-----------------------------------------------------------------------------
(* The operator takes the lock. *)

Issue(command, flow, step, id) ==
  /\ op = Idle
  /\ command \in Commands
  /\ "config" \in files \/ command = "createHA"
  /\ commands < MaxCommands /\ commands' = commands + 1
  /\ op' = Begun("operator", flow, step, id)
  /\ outage' = (outage \/ command \in {"stopHA", "deleteHA", "deleteKeepData"})
  /\ UNCHANGED <<runtimeVars, legacy, hostVars, calm, faults>>

IssueMemberCommand == \E c \in MemberCommands, id \in Members : Issue(c, c, "persistIntent", id)
IssueCreate     == Issue("createHA", "createHA", "createCheck", 1)
IssueStart      == Issue("startHA", "createHA", "persistRunning", 1)
IssueStop       == Issue("stopHA", "stopHA", "persistStopped", 1)
IssueDelete     == Issue("deleteHA", "deleteHA", "clusterPreflight", 1)
IssueKeepDelete == Issue("deleteKeepData", "deleteKeepData", "persistStopped", 1)

-----------------------------------------------------------------------------
(* The supervisor takes the lock, reads journal, intent and status, and     *)
(* picks at most one thing to do.  A tick that finds nothing to do changes  *)
(* nothing and is no action.                                                *)

Ticks == op = Idle /\ "config" \in files /\ journalSafe

Tick(flow, step, id) ==
  /\ Ticks
  /\ op' = Begun("supervisor", flow, step, id)
  /\ UNCHANGED <<runtimeVars, legacy, fileVars, historyVars>>

WantsRunning == desired.cluster = "Running"

SuperviseStop ==
  /\ desired.cluster = "Stopped"
  /\ Tick("stopHA", "persistStopped", 1)
  /\ UNCHANGED quiet

(* One member is to be offline: take it down, ... *)
SuperviseOffline == \E t \in desired.stopped :
  /\ WantsRunning
  /\ \/ AllReady /\ Tick("stopMember", "stopCheck", t)
     \/ /\ ~AllReady /\ OthersReady(t) /\ Running(t)
        /\ Tick("stopMember", "offlineCheck", t)
  /\ UNCHANGED quiet

(* ... or bring back a peer of it that is down, without waiting for a third. *)
SuperviseRejoin == \E i \in desired.stopped, t \in Members :
  /\ WantsRunning
  /\ Unready \ {i} = {t} /\ ~Running(t)
  /\ Topology({t})
  /\ Tick("rejoin", IF vm[t] = "stopped" THEN "deleteEnvelope" ELSE "runEnvelope", t)
  /\ UNCHANGED quiet

(* Mutant: the intent to keep one member offline is not looked at. *)
AllWanted_IgnoresMembers == WantsRunning

(* No member is to be offline.  What is launched gets its startup grace.     *)
AllWanted == WantsRunning /\ desired.stopped = {}

SuperviseAllReady ==
  /\ Ticks /\ AllWanted /\ AllReady
  /\ quiet' = {}
  /\ UNCHANGED <<runtimeVars, legacy, fileVars, op, historyVars>>

SuperviseStartAll ==
  /\ AllWanted
  /\ Cardinality(Unready) > 1
  /\ Tick("createHA", "persistRunning", 1)
  /\ quiet' = quiet \cup {m \in Unready : ~Running(m)}

SuperviseStartOne == \E t \in Members :
  /\ AllWanted
  /\ Unready = {t} /\ ~Running(t)
  /\ Tick("startMember", "startCheck", t)
  /\ quiet' = quiet \cup {t}

SuperviseRepair == \E t \in Members :
  /\ AllWanted
  /\ Unready = {t} /\ Running(t) /\ t \notin quiet
  /\ Tick("repair", "repairCheck", t)
  /\ UNCHANGED quiet

(* A startup grace or a backoff runs out.  Only ticks read quiet, so it does *)
(* not matter when during an operation that happens.                         *)
QuietEnds(m) ==
  /\ op = Idle
  /\ m \in quiet
  /\ quiet' = quiet \ {m}
  /\ UNCHANGED <<runtimeVars, legacy, fileVars, op, historyVars>>

-----------------------------------------------------------------------------
(* Faults. *)

Fault == faults < MaxFaults /\ faults' = faults + 1

(* The process dies, or its command fails where the code only returns the   *)
(* error: the lock is free again and nothing is undone.                     *)
Lost ==
  /\ Fault
  /\ op # Idle
  /\ op' = Idle
  /\ RecordRepair(FALSE) \/ (op.actor = "supervisor" /\ quiet' = {})
  /\ UNCHANGED <<runtimeVars, legacy, fileVars, calm, outage, commands>>

(* The stop command fails, with or without having stopped the VM. *)
StopFails ==
  /\ Fault
  /\ At("stopApply") /\ In(RecoveringFlows)
  /\ vm' \in {vm, Stopped(op.target)}
  /\ op' = AfterFailedStop(TRUE)
  /\ UNCHANGED <<voters, volumes, network, legacy, hostVars, calm, outage, commands>>

(* runHAServerEnvelope fails: without an envelope, with a server that exits *)
(* at once, or with one that runs although the command reported an error.   *)
RunFails ==
  /\ Fault
  /\ At("runEnvelope")
  /\ \E s \in {"missing", "stopped", "starting"} : vm' = [vm EXCEPT ![op.target] = s]
  /\ legacy' = legacy \ {op.target}
  /\ op' = IF In({"createHA", "rejoin"}) THEN Idle ELSE AfterFailedStart
  /\ RecordRepair(FALSE)
  /\ UNCHANGED <<voters, volumes, network, fileVars, calm, outage, commands>>

(* A look or a deletion fails in a flow that then recovers the member. *)
StepFails ==
  /\ Fault
  /\ In(RecoveringFlows)
  /\ \/ At("stopWait") /\ op' = AfterFailedStop(TRUE)
     \/ op.pc \in {"startCheck", "deleteEnvelope", "startWait"} /\ op' = AfterFailedStart
  /\ RecordRepair(FALSE)
  /\ UNCHANGED <<runtimeVars, legacy, fileVars, calm, outage, commands>>

VMFails ==
  /\ Fault
  /\ calm' = FALSE
  /\ \/ (\E m \in Members : Exits(m) \/ Wedges(m)) /\ UNCHANGED <<op, quiet>>
     \/ AllExit /\ op' = Idle /\ quiet' = {}
  /\ UNCHANGED <<legacy, fileVars, outage, commands>>

-----------------------------------------------------------------------------
Unattended == UNCHANGED <<legacy, hostVars, op, historyVars>>

K3sStep == (\E m \in Members : BecomesReady(m) \/ LosesQuorum(m)) /\ Unattended

MemberStep == \/ PersistMemberIntent \/ RestartCheck \/ StopCheck \/ OfflineCheck
              \/ RepairCheck \/ StopApply \/ StopWait \/ StartCheck
              \/ DeleteEnvelope \/ RunEnvelope \/ StartWait \/ MemberWait

CreateStep == \/ PersistRunning \/ CreateCheck \/ SaveConfig \/ MarkRunning
              \/ CreateNetwork \/ CreateVolume \/ CreateMember \/ CreateWait

RemoveStep == \/ PersistStopped \/ ClusterPreflight \/ ClusterStop \/ ClusterDelete
              \/ DeleteVolume \/ DeleteNetwork \/ RemoveFile

OperationStep == MemberStep \/ CreateStep \/ RemoveStep \/ WaitTimesOut

OperatorStep == \/ IssueMemberCommand \/ IssueCreate \/ IssueStart
                \/ IssueStop \/ IssueDelete \/ IssueKeepDelete

SuperviseStep == \/ SuperviseStop \/ SuperviseOffline \/ SuperviseRejoin
                 \/ SuperviseAllReady \/ SuperviseStartAll \/ SuperviseStartOne \/ SuperviseRepair

FaultStep == Lost \/ StopFails \/ RunFails \/ StepFails \/ VMFails \/ RollBackVolumes

Next == \/ OperationStep \/ OperatorStep \/ SuperviseStep \/ K3sStep \/ FaultStep
        \/ \E m \in Members : QuietEnds(m)

Spec == Init /\ [][Next]_vars

(* The process that holds the lock keeps going, every wait has a deadline,  *)
(* the supervisor ticks for ever, graces and backoffs end.  The startup     *)
(* grace is the cluster's startup timeout and the backoff doubles up to     *)
(* five minutes, so a member that could become Ready does so sooner or      *)
(* later before its grace or backoff is over: the second strong fairness.   *)
Fairness ==
  /\ WF_vars(OperationStep)
  /\ WF_vars(SuperviseStep)
  /\ \A m \in Members :
       /\ WF_vars(QuietEnds(m))
       /\ SF_vars(BecomesReady(m) /\ Unattended)
       /\ SF_vars(m \in quiet /\ BecomesReady(m) /\ Unattended)
       /\ WF_vars(LosesQuorum(m) /\ Unattended)

FairSpec == Spec /\ Fairness

-----------------------------------------------------------------------------
(* Safety. *)

(* Maintenance keeps quorum: as long as no VM has failed and nobody has     *)
(* asked for a whole-cluster stop or delete, at most one member is not      *)
(* Ready, whatever members are stopped, started, restarted or migrated,     *)
(* however commands fail and wherever processes die (ha_members.go:11).     *)
OneMemberOut == calm /\ ~outage => \E t \in Members : OthersReady(t)

(* Envelopes are deleted and launched by what an earlier look reported;     *)
(* that look is never so stale that a running VM is deleted or a name in    *)
(* use is launched again (reconcileHAMember, deleteHALocked).               *)
NeverReplacesRunningVM ==
  /\ At("deleteEnvelope") => vm[op.target] = "stopped"
  /\ At("runEnvelope")    => vm[op.target] = "missing"
  /\ At("clusterDelete")  => ~Running(op.target)

(* No envelope outlives, or is launched without, its member volume, the     *)
(* network and the token that its data needs: a half-created or half-       *)
(* deleted cluster is never started on partial data (preflightHA,           *)
(* ensureHAToken, the order of deleteHALocked).                             *)
EnvelopesHaveData ==
  \A m \in Members : vm[m] # "missing" => m \in volumes /\ network /\ "token" \in files

(* No volume is created beside volumes that hold etcd data: what an         *)
(* interrupted delete left of a cluster is never filled up with empty       *)
(* volumes, whose members would start as a second cluster or with none of   *)
(* the old one's data (preflightHA, createHALocked).  Data is gone for the  *)
(* model only when the last volume is.                                      *)
NeverMixesVolumes == [][volumes' \subseteq volumes \/ voters = {}]_vars

DataWhole == []EnvelopesHaveData /\ NeverMixesVolumes

(* "Persist the exact desired topology before the first runtime mutation so *)
(* a partially failed bootstrap can still be inspected and safely deleted"  *)
(* (ha.go:804) and "keep the authoritative config until last so an          *)
(* interrupted local cleanup remains retryable" (ha.go:1417): without a     *)
(* config there is nothing to delete, and no journal or intent of an old    *)
(* cluster that a new one of the same name would inherit.                   *)
StillDeletable ==
  "config" \notin files =>
    /\ ~network /\ volumes = {} /\ \A m \in Members : vm[m] = "missing"
    /\ journalSafe /\ desired = DefaultDesired

(* The cluster's life, seen as turns that change it, its running VMs and    *)
(* the stored intent, is one that HAIntent allows: intent precedes the      *)
(* mutation it is for (docs/k3s-ha.md:213, docs/cli.md:259), the supervisor *)
(* works within it (reconcileSupervisedHAAfterService) and maintenance goes *)
(* one member at a time (ha_members.go).                                    *)
Turn == IF op.flow = "deleteHA" THEN "deletion" ELSE op.actor

Intent == INSTANCE HAIntent WITH intent <- desired, up <- {m \in Members : Running(m)},
                                 turn <- Turn, sound <- calm

HonoursIntent == Intent!Spec

-----------------------------------------------------------------------------
(* Liveness. *)

IntentReached ==
  IF WantsRunning
  THEN Unready = desired.stopped /\ \A m \in desired.stopped : ~Running(m)
  ELSE \A m \in Members : ~Running(m)

(* The situations the supervisor leaves to the operator: a recovery journal *)
(* that is not runtime-safe, no config, some but not all volumes, two       *)
(* wedged members or one that the others need for a quorum (while the       *)
(* cluster is bootstrapped), a member that is to be offline while two peers *)
(* are down, or while one is and runs, or while one is and the member has   *)
(* lost its envelope (lifecycle.go:428), and a member in the old launch     *)
(* format that runs while its peers are not all Ready (migration waits).    *)
Hung == {m \in Members : vm[m] = "hung"}

LeftToOperator ==
  \/ ~journalSafe
  \/ "config" \notin files
  \/ volumes \notin {{}, Members}
  \/ Cardinality(Hung) > 1
  \/ Hung # {} /\ 2 * Cardinality(voters \ Hung) <= Cardinality(voters)
  \/ \E i \in desired.stopped :
       \/ Cardinality(Unready \ {i}) > 1
       \/ \E m \in Unready \ {i} : Running(m) \/ vm[i] = "missing"
  \/ \E m \in legacy : Running(m) /\ ~OthersReady(m)

(* When commands and faults end, the supervisor brings the cluster to what  *)
(* the operator asked for and it stays there, unless it is in one of those  *)
(* situations (reconcileSupervisedHAAfterService).                          *)
Converges == <>[](IntentReached \/ LeftToOperator)
=============================================================================
