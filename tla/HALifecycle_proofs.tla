------------------------- MODULE HALifecycle_proofs -------------------------
(***************************************************************************)
(* HALifecycle for every number of members, every set of commands and every *)
(* bound.  TypeOK is not inductive by itself: the steps of a repair need a  *)
(* member as their target, and only FlowOK, which says which steps belong   *)
(* to which flow, tells that a repair never removes files.                  *)
(*                                                                         *)
(* The safety properties need beside TypeOK and FlowOK that what an         *)
(* operation has seen of the members it has not come to yet is still true   *)
(* (LookOK), what the supervisor's operations presuppose (IntentOK), who    *)
(* may be out while nothing has failed (QuorumOK), what an operation has    *)
(* made of the cluster's data or left of it (DataOK), and that etcd data is *)
(* on some volume (VotesOK).                                                *)
(***************************************************************************)
EXTENDS HALifecycle, TLAPS, FiniteSetTheorems

StartSteps == {"startCheck", "deleteEnvelope", "runEnvelope", "startWait"}
StopSteps  == {"stopCheck", "stopApply", "stopWait"}
SetupSteps == {"saveConfig", "markRunning", "createNetwork", "createVolume"}

StepsOf == [flow \in Flows |->
  CASE flow = "none"           -> {"idle"}
    [] flow = "stopMember"     -> StopSteps \cup {"persistIntent", "offlineCheck"}
    [] flow = "startMember"    -> StartSteps \cup {"persistIntent"}
    [] flow = "restartMember"  -> StopSteps \cup StartSteps \cup {"persistIntent", "restartCheck"}
    [] flow = "repair"         -> StartSteps \cup {"repairCheck", "stopApply", "stopWait"}
    [] flow = "rejoin"         -> {"deleteEnvelope", "runEnvelope", "memberWait"}
    [] flow = "migrate"        -> StopSteps \cup StartSteps \cup {"memberWait"}
    [] flow = "createHA"       -> SetupSteps \cup
                                    {"persistRunning", "createCheck", "createMember",
                                     "deleteEnvelope", "runEnvelope", "memberWait", "createWait"}
    [] flow = "stopHA"         -> {"persistStopped", "clusterPreflight", "clusterStop"}
    [] flow = "deleteKeepData" -> {"persistStopped", "clusterPreflight", "clusterStop",
                                   "clusterDelete"}
    [] flow = "deleteHA"       -> {"clusterPreflight", "clusterStop", "clusterDelete",
                                   "deleteVolume", "deleteNetwork", "removeFile"}]

(* Every step belongs to its flow, and a flow to those who may begin it.     *)
InFlow(o) ==
  /\ o.pc \in StepsOf[o.flow]
  /\ o.flow = "none" <=> o.actor = "none"
  /\ o.actor = "supervisor" => /\ o.flow \notin {"restartMember", "deleteHA", "deleteKeepData"}
                               /\ o.pc # "persistIntent"

FlowOK == InFlow(op)

-----------------------------------------------------------------------------
(* The state is well typed, and at most one member carries stop intent.      *)

(* However an operation continues, it is an operation. *)
LEMMA Continuations ==
  ASSUME OperationOK(op), op.pc # "removeFile"
  PROVE  /\ OperationOK(Idle)
         /\ \A step \in Steps \ {"removeFile"} : OperationOK(Goto(step))
         /\ OperationOK(Recovery)
         /\ OperationOK(NextMember)
         /\ OperationOK(Reconciled)
         /\ OperationOK(AfterStart)
         /\ OperationOK(AfterFailedStart)
         /\ \A really \in BOOLEAN : OperationOK(AfterStop(really))
         /\ \A maybe \in BOOLEAN : OperationOK(AfterFailedStop(maybe))
         /\ OperationOK(AfterRun)
  <1> USE MemberCountAssumption
      DEF OperationOK, Operations, Steps, MemberSteps, ClusterSteps, Flows, MemberCommands, Members
  <1>1. OperationOK(Idle)
    BY DEF Idle, NothingSeen
  <1>2. ASSUME NEW step \in Steps \ {"removeFile"} PROVE OperationOK(Goto(step))
    BY DEF Goto
  <1>3. OperationOK(Recovery)
    BY DEF Recovery
  <1>4. OperationOK(NextMember)
    <2>1. CASE op.target = MemberCount
      <3>1. NextMember = [op EXCEPT !.pc = "createWait", !.flow = "createHA"]
        BY <2>1 DEF NextMember
      <3> QED
        BY <3>1
    <2>2. CASE op.target # MemberCount
      <3> DEFINE next == op.target + 1
      <3>1. NextMember = [op EXCEPT !.pc = "createMember", !.flow = "createHA", !.target = next]
        BY <2>2 DEF NextMember
      <3>2. next \in Members /\ next \in Nat
        BY <2>2
      <3> HIDE DEF next
      <3> QED
        BY <3>1, <3>2
    <2> QED
      BY <2>1, <2>2
  <1>5. OperationOK(Reconciled)
    BY <1>2, <1>4 DEF Reconciled
  <1>6. OperationOK(AfterStart)
    BY <1>1, <1>5 DEF AfterStart
  <1>7. OperationOK(AfterFailedStart)
    BY <1>1, <1>3 DEF AfterFailedStart
  <1>8. ASSUME NEW really \in BOOLEAN PROVE OperationOK(AfterStop(really))
    <2> DEFINE restart == \/ In({"repair"})
                          \/ really /\ In({"restartMember"})
    <2>1. restart \in BOOLEAN
      OBVIOUS
    <2>2. AfterStop(really) = IF In({"stopMember"}) THEN Idle
                              ELSE [op EXCEPT !.pc = "startCheck", !.mustRestart = restart]
      BY DEF AfterStop
    <2> HIDE DEF restart
    <2>3. OperationOK([op EXCEPT !.pc = "startCheck", !.mustRestart = restart])
      BY <2>1
    <2> QED
      BY <1>1, <2>2, <2>3
  <1>9. ASSUME NEW maybe \in BOOLEAN PROVE OperationOK(AfterFailedStop(maybe))
    BY <1>1, <1>3 DEF AfterFailedStop
  <1>10. OperationOK(AfterRun)
    BY <1>2, <1>5 DEF AfterRun
  <1> QED
    BY <1>1, <1>2, <1>3, <1>4, <1>5, <1>6, <1>7, <1>8, <1>9, <1>10

LEMMA InitTyped == Init => TypeOK
  <1> SUFFICES ASSUME Init PROVE TypeOK
    OBVIOUS
  <1> USE MemberCountAssumption, LegacyAssumption, BoundsAssumption DEF Init, Members
  <1>1. RuntimeTypeOK /\ legacy \in SUBSET Members
    BY DEF RuntimeTypeOK, VMStates
  <1>2. desired \in DesiredStates /\ Cardinality(desired.stopped) <= 1
    BY FS_EmptySet DEF DefaultDesired, DesiredStates
  <1>3. OperationOK(op)
    BY DEF Idle, NothingSeen, OperationOK, Operations, Steps, Flows
  <1>4. files \in SUBSET {"config", "token"} /\ journalSafe \in BOOLEAN /\ quiet \in SUBSET Members
    OBVIOUS
  <1>5. calm \in BOOLEAN /\ outage \in BOOLEAN
    OBVIOUS
  <1>6. commands \in 0..MaxCommands /\ faults \in 0..MaxFaults
    OBVIOUS
  <1> QED
    BY <1>1, <1>2, <1>3, <1>4, <1>5, <1>6 DEF TypeOK

LEMMA MemberStepTyped == TypeOK /\ MemberStep => TypeOK'
  <1> SUFFICES ASSUME TypeOK, MemberStep PROVE TypeOK'
    OBVIOUS
  <1>0. op.pc # "removeFile"
    BY DEF MemberStep, At, PersistMemberIntent, RestartCheck, StopCheck, OfflineCheck, RepairCheck,
       StopApply, StopWait, StartCheck, DeleteEnvelope, RunEnvelope, StartWait, MemberWait
  <1> USE <1>0, Continuations
      DEF TypeOK, Steps, MemberSteps, runtimeVars, fileVars, hostVars, historyVars
  <1>1. CASE PersistMemberIntent
    <2> DEFINE d == WithMemberIntent(desired, op.target, In({"stopMember"}))
    <2>1. d \in DesiredStates
      BY <1>1 DEF PersistMemberIntent, WithMemberIntent, DesiredStates, OperationOK, At
    <2>2. desired' \in DesiredStates /\ Cardinality(desired'.stopped) <= 1
      BY <1>1, <2>1 DEF PersistMemberIntent, ValidDesired
    <2>3. OperationOK(op')
      BY <1>1 DEF PersistMemberIntent, In, MemberCommands
    <2> QED
      BY <1>1, <2>2, <2>3 DEF PersistMemberIntent, RuntimeTypeOK
  <1>2. CASE RestartCheck
    BY <1>2 DEF RestartCheck, RuntimeTypeOK
  <1>3. CASE StopCheck
    BY <1>3 DEF StopCheck, RuntimeTypeOK
  <1>4. CASE OfflineCheck
    BY <1>4 DEF OfflineCheck, RuntimeTypeOK
  <1>5. CASE RepairCheck
    <2>1. OperationOK([op EXCEPT !.pc = "stopApply", !.mustRestart = TRUE])
      BY DEF OperationOK, Operations
    <2>2. OperationOK(op')
      BY <1>5, <2>1 DEF RepairCheck
    <2>3. quiet' \in SUBSET Members
      BY <1>5, <1>0 DEF RepairCheck, RecordRepair, OperationOK
    <2> QED
      BY <1>5, <2>2, <2>3 DEF RepairCheck, RuntimeTypeOK
  <1>6. CASE StopApply
    <2>1. OperationOK(op')
      BY <1>6 DEF StopApply
    <2>2. vm' \in [Members -> VMStates]
      BY <1>6 DEF StopApply, Stopped, RuntimeTypeOK, VMStates
    <2> QED
      BY <1>6, <2>1, <2>2 DEF StopApply, RuntimeTypeOK
  <1>7. CASE StopWait
    BY <1>7 DEF StopWait, RuntimeTypeOK
  <1>8. CASE StartCheck
    <2> DEFINE next == CASE Running(op.target)        -> "startWait"
                         [] vm[op.target] = "stopped" -> "deleteEnvelope"
                         [] vm[op.target] = "missing" -> "runEnvelope"
    <2>0. next \in Steps \ {"removeFile"}
      BY <1>0 DEF OperationOK, RuntimeTypeOK, VMStates, Running, RunningStates
    <2>1. OperationOK(op')
      BY <1>8, <2>0 DEF StartCheck
    <2>2. quiet' \in SUBSET Members
      BY <1>8, <1>0 DEF StartCheck, RecordRepair, OperationOK
    <2> QED
      BY <1>8, <2>1, <2>2 DEF StartCheck, RuntimeTypeOK
  <1>9. CASE DeleteEnvelope
    <2>1. OperationOK(op')
      BY <1>9 DEF DeleteEnvelope
    <2>2. vm' \in [Members -> VMStates]
      BY <1>9 DEF DeleteEnvelope, Deleted, RuntimeTypeOK, VMStates
    <2> QED
      BY <1>9, <2>1, <2>2 DEF DeleteEnvelope, RuntimeTypeOK
  <1>10. CASE RunEnvelope
    <2>1. OperationOK(op')
      BY <1>10, <1>0 DEF RunEnvelope, OperationOK, Operations
    <2>2. vm' \in [Members -> VMStates]
      BY <1>10 DEF RunEnvelope, Launched, RuntimeTypeOK, VMStates
    <2> QED
      BY <1>10, <2>1, <2>2 DEF RunEnvelope, RuntimeTypeOK
  <1>11. CASE StartWait
    <2>1. OperationOK(op')
      BY <1>11 DEF StartWait
    <2>2. quiet' \in SUBSET Members
      BY <1>11, <1>0 DEF StartWait, RecordRepair, OperationOK
    <2> QED
      BY <1>11, <2>1, <2>2 DEF StartWait, RuntimeTypeOK
  <1>12. CASE MemberWait
    BY <1>12 DEF MemberWait, RuntimeTypeOK
  <1> QED
    BY <1>1, <1>2, <1>3, <1>4, <1>5, <1>6, <1>7, <1>8, <1>9, <1>10, <1>11, <1>12
    DEF MemberStep

LEMMA ObservedTyped ==
  RuntimeTypeOK => Observed \in [Members -> {"missing", "stopped", "running"}]
  BY DEF Observed, Running, RunningStates, RuntimeTypeOK, VMStates

(* Changes of several fields of an operation. *)
LEMMA Updated ==
  ASSUME OperationOK(op), op.pc # "removeFile", NEW step \in Steps \ {"removeFile"}
  PROVE  /\ \A flag \in BOOLEAN, seen \in [Members -> {"missing", "stopped", "running"}] :
              OperationOK([op EXCEPT !.pc = step, !.fresh = flag, !.seen = seen])
         /\ \A flag \in BOOLEAN, t \in Members :
              OperationOK([op EXCEPT !.pc = step, !.newNetwork = flag, !.target = t])
         /\ \A seen \in [Members -> {"missing", "stopped", "running"}], t \in Members :
              OperationOK([op EXCEPT !.pc = step, !.target = t, !.seen = seen])
         /\ \A flow \in Flows : OperationOK([op EXCEPT !.flow = flow, !.pc = step])
         /\ \A t \in Members : OperationOK([op EXCEPT !.pc = step, !.target = t])
  <1> USE DEF OperationOK, Operations
  <1>1. \A t \in Members : t \in Nat
    BY MemberCountAssumption DEF Members
  <1>2. ASSUME NEW flag \in BOOLEAN, NEW seen \in [Members -> {"missing", "stopped", "running"}]
        PROVE  OperationOK([op EXCEPT !.pc = step, !.fresh = flag, !.seen = seen])
    OBVIOUS
  <1>3. ASSUME NEW flag \in BOOLEAN, NEW t \in Members
        PROVE  OperationOK([op EXCEPT !.pc = step, !.newNetwork = flag, !.target = t])
    BY <1>1
  <1>4. ASSUME NEW seen \in [Members -> {"missing", "stopped", "running"}], NEW t \in Members
        PROVE  OperationOK([op EXCEPT !.pc = step, !.target = t, !.seen = seen])
    BY <1>1
  <1>5. ASSUME NEW flow \in Flows PROVE OperationOK([op EXCEPT !.flow = flow, !.pc = step])
    OBVIOUS
  <1>6. ASSUME NEW t \in Members PROVE OperationOK([op EXCEPT !.pc = step, !.target = t])
    BY <1>1
  <1> QED
    BY <1>2, <1>3, <1>4, <1>5, <1>6

LEMMA Retargeted ==
  ASSUME OperationOK(op), op.pc # "removeFile", NEW t \in Members
  PROVE  OperationOK([op EXCEPT !.target = t])
  <1>1. t \in Nat
    BY MemberCountAssumption DEF Members
  <1> QED
    BY <1>1 DEF OperationOK, Operations

LEMMA CreateStepTyped == TypeOK /\ CreateStep => TypeOK'
  <1> SUFFICES ASSUME TypeOK, CreateStep PROVE TypeOK'
    OBVIOUS
  <1>0. op.pc # "removeFile"
    BY DEF CreateStep, At, PersistRunning, CreateCheck, SaveConfig, MarkRunning,
       CreateNetwork, CreateVolume, CreateMember, CreateWait
  <1> USE <1>0, Continuations
      DEF TypeOK, Steps, ClusterSteps, MemberSteps, runtimeVars, fileVars, hostVars, historyVars
  <1>1. CASE PersistRunning
    BY <1>1, FS_EmptySet DEF PersistRunning, MarkedRunning, DesiredStates, RuntimeTypeOK
  <1>2. CASE CreateCheck
    <2>1. OperationOK([op EXCEPT !.pc = "saveConfig", !.fresh = volumes = {}, !.seen = Observed])
      <3> DEFINE flag == volumes = {}
      <3>1. flag \in BOOLEAN
        OBVIOUS
      <3> HIDE DEF flag
      <3>2. OperationOK([op EXCEPT !.pc = "saveConfig", !.fresh = flag, !.seen = Observed])
        BY <3>1, ObservedTyped, Updated
      <3> QED
        BY <3>2 DEF flag
    <2> QED
      BY <1>2, <2>1 DEF CreateCheck, RuntimeTypeOK
  <1>3. CASE SaveConfig
    BY <1>3 DEF SaveConfig, RuntimeTypeOK
  <1>4. CASE MarkRunning
    BY <1>4, FS_EmptySet DEF MarkRunning, MarkedRunning, DesiredStates, RuntimeTypeOK
  <1>5. CASE CreateNetwork
    <2> DEFINE step == IF volumes = Members THEN "createMember" ELSE "createVolume"
               flag == ~network
    <2>0. /\ flag \in BOOLEAN /\ step \in Steps \ {"removeFile"} /\ 1 \in Members
          /\ op' = [op EXCEPT !.pc = step, !.newNetwork = flag, !.target = 1]
      BY <1>5, MemberCountAssumption DEF CreateNetwork, Members
    <2> HIDE DEF step, flag
    <2>1. OperationOK(op')
      BY <2>0, Updated
    <2> QED
      BY <1>5, <2>1 DEF CreateNetwork, RuntimeTypeOK
  <1>6. CASE CreateVolume
    <2> DEFINE next == op.target + 1
    <2>1. op.target # MemberCount => next \in Members /\ next \in Nat
      BY MemberCountAssumption DEF OperationOK, Members
    <2>2. op' = IF op.target = MemberCount
                THEN [op EXCEPT !.pc = "createMember", !.target = 1]
                ELSE [op EXCEPT !.target = next]
      BY <1>6 DEF CreateVolume
    <2>3. 1 \in Members
      BY MemberCountAssumption DEF Members
    <2> HIDE DEF next
    <2>4. OperationOK(op')
      <3>1. OperationOK([op EXCEPT !.pc = "createMember", !.target = 1])
        BY <2>3, Updated
      <3>2. op.target # MemberCount => OperationOK([op EXCEPT !.target = next])
        BY <2>1, Retargeted
      <3> QED
        BY <2>2, <3>1, <3>2
    <2> QED
      BY <1>6, <2>4 DEF CreateVolume, RuntimeTypeOK, OperationOK
  <1>7. CASE CreateMember
    <2>1. op.seen[op.target] \in {"missing", "stopped", "running"}
      BY DEF OperationOK, Operations
    <2>2. OperationOK([op EXCEPT !.flow = "migrate", !.pc = "stopCheck"])
      BY Updated DEF Flows
    <2>3. OperationOK(op')
      BY <1>7, <2>1, <2>2 DEF CreateMember
    <2> QED
      BY <1>7, <2>3 DEF CreateMember, RuntimeTypeOK
  <1>8. CASE CreateWait
    BY <1>8 DEF CreateWait, RuntimeTypeOK
  <1> QED
    BY <1>1, <1>2, <1>3, <1>4, <1>5, <1>6, <1>7, <1>8 DEF CreateStep

LEMMA RemoveStepTyped == TypeOK /\ RemoveStep => TypeOK'
  <1> SUFFICES ASSUME TypeOK, RemoveStep PROVE TypeOK'
    OBVIOUS
  <1> USE DEF TypeOK, Steps, ClusterSteps, runtimeVars, fileVars, hostVars, historyVars
  <1>0. ASSUME op.pc # "removeFile"
        PROVE  /\ op.target \in Members /\ op.target \in Nat
               /\ PreviousMember \in Operations
               /\ OperationOK(PreviousMember)
    <2>1. op.target \in Members /\ op.target \in Nat
      BY <1>0, MemberCountAssumption DEF OperationOK, Members
    <2> DEFINE next == op.target - 1
    <2>2. op.target > 1 => next \in Members /\ next \in Nat
      BY <2>1, MemberCountAssumption DEF Members
    <2>3. PreviousMember =
            CASE op.target > 1 -> [op EXCEPT !.pc = "clusterStop", !.target = next]
              [] op.target = 1 /\ In({"deleteHA"}) ->
                   [op EXCEPT !.pc = "deleteVolume", !.target = MemberCount]
              [] OTHER -> Idle
      BY DEF PreviousMember
    <2>4. MemberCount \in Members /\ MemberCount \in Nat
      BY MemberCountAssumption DEF Members
    <2>5. OperationOK(Idle)
      BY <1>0, Continuations
    <2> HIDE DEF next
    <2>6. OperationOK(PreviousMember)
      BY <2>1, <2>2, <2>3, <2>4, <2>5 DEF OperationOK, Operations
    <2> QED
      BY <2>1, <2>6 DEF OperationOK
  <1>1. CASE PersistStopped
    BY <1>1, Continuations DEF PersistStopped, At, MarkedStopped, DesiredStates, RuntimeTypeOK
  <1>2. CASE ClusterPreflight
    <2>1. MemberCount \in Members /\ op.pc # "removeFile"
      BY <1>2, MemberCountAssumption DEF ClusterPreflight, At, Members
    <2>2. OperationOK(op')
      BY <1>2, <2>1, ObservedTyped, Updated DEF ClusterPreflight
    <2> QED
      BY <1>2, <2>2 DEF ClusterPreflight, RuntimeTypeOK
  <1>3. CASE ClusterStop
    <2>1. OperationOK(op')
      BY <1>3, <1>0, Continuations DEF ClusterStop, At
    <2>2. vm' \in [Members -> VMStates]
      BY <1>3 DEF ClusterStop, Stopped, RuntimeTypeOK, VMStates
    <2> QED
      BY <1>3, <2>1, <2>2 DEF ClusterStop, RuntimeTypeOK
  <1>4. CASE ClusterDelete
    <2>1. OperationOK(op')
      BY <1>4, <1>0 DEF ClusterDelete, At
    <2>2. vm' \in [Members -> VMStates]
      BY <1>4 DEF ClusterDelete, Deleted, RuntimeTypeOK, VMStates
    <2> QED
      BY <1>4, <2>1, <2>2 DEF ClusterDelete, RuntimeTypeOK
  <1>5. CASE DeleteVolume
    <2> DEFINE next == op.target - 1
    <2>0. op.pc # "removeFile"
      BY <1>5 DEF DeleteVolume, At
    <2>1. op.target > 1 => next \in Members /\ next \in Nat
      BY <1>0, <2>0, MemberCountAssumption DEF Members
    <2>2. op' = IF op.target > 1 THEN [op EXCEPT !.target = next] ELSE Goto("deleteNetwork")
      BY <1>5 DEF DeleteVolume
    <2> HIDE DEF next
    <2>3. OperationOK(op')
      BY <2>0, <2>1, <2>2, Continuations DEF OperationOK, Operations
    <2> QED
      BY <1>5, <2>3 DEF DeleteVolume, RuntimeTypeOK
  <1>6. CASE DeleteNetwork
    <2>1. op' \in Operations
      BY <1>6 DEF DeleteNetwork, OperationOK, Operations
    <2>2. op'.pc = "removeFile" /\ op'.target = 1
      BY <1>6 DEF DeleteNetwork, OperationOK, Operations
    <2>3. OperationOK(op')
      BY <2>1, <2>2 DEF OperationOK, RemovalOrder
    <2> QED
      BY <1>6, <2>3 DEF DeleteNetwork, RuntimeTypeOK
  <1>7. CASE RemoveFile
    <2> DEFINE next == op.target + 1
    <2>1. op.target \in 1..4 /\ (op.target < 4 => next \in 1..4 /\ next \in Nat)
      BY <1>7 DEF RemoveFile, At, OperationOK, RemovalOrder
    <2>2. op' = IF op.target < 4 THEN [op EXCEPT !.target = next] ELSE Idle
      BY <1>7 DEF RemoveFile, RemovalOrder
    <2>3. OperationOK(Idle)
      BY MemberCountAssumption
      DEF Idle, NothingSeen, OperationOK, Operations, Flows, Members
    <2> HIDE DEF next
    <2>4. OperationOK(op')
      BY <1>7, <2>1, <2>2, <2>3 DEF OperationOK, Operations, RemovalOrder, RemoveFile, At
    <2>5. desired' \in DesiredStates /\ Cardinality(desired'.stopped) <= 1
      BY <1>7, FS_EmptySet DEF RemoveFile, DesiredStates, DefaultDesired
    <2> QED
      BY <1>7, <2>4, <2>5 DEF RemoveFile, RuntimeTypeOK
  <1> QED
    BY <1>1, <1>2, <1>3, <1>4, <1>5, <1>6, <1>7 DEF RemoveStep

LEMMA TickTyped ==
  ASSUME TypeOK, NEW flow \in Flows, NEW step \in Steps \ {"removeFile"}, NEW t \in Members,
         NEW who \in {"operator", "supervisor"}
  PROVE  OperationOK(Begun(who, flow, step, t))
  <1>1. Idle \in Operations
    BY MemberCountAssumption DEF Idle, NothingSeen, Operations, Flows, Steps, Members
  <1>2. t \in Nat
    BY MemberCountAssumption DEF Members
  <1> HIDE DEF Idle
  <1>3. /\ Begun(who, flow, step, t) \in Operations
        /\ Begun(who, flow, step, t).pc = step
        /\ Begun(who, flow, step, t).target = t
    BY <1>1, <1>2 DEF Begun, Operations
  <1> QED
    BY <1>3 DEF OperationOK

LEMMA OperatorStepTyped == TypeOK /\ OperatorStep => TypeOK'
  <1> SUFFICES ASSUME TypeOK, OperatorStep PROVE TypeOK'
    OBVIOUS
  <1>1. ASSUME NEW command, NEW flow \in Flows, NEW step \in Steps \ {"removeFile"},
               NEW t \in Members, Issue(command, flow, step, t)
        PROVE  TypeOK'
    <2>1. OperationOK(op')
      BY <1>1, TickTyped DEF Issue
    <2>2. commands' \in 0..MaxCommands
      BY <1>1, BoundsAssumption DEF Issue, TypeOK
    <2> QED
      BY <1>1, <2>1, <2>2 DEF Issue, TypeOK, RuntimeTypeOK, runtimeVars, fileVars, hostVars
  <1> QED
    <2>1. 1 \in Members
      BY MemberCountAssumption DEF Members
    <2> USE DEF Flows, MemberCommands, Steps, MemberSteps, ClusterSteps
    <2>2. CASE IssueMemberCommand
      BY <1>1, <2>2 DEF IssueMemberCommand
    <2>3. CASE IssueCreate
      BY <1>1, <2>1, <2>3 DEF IssueCreate
    <2>4. CASE IssueStart
      BY <1>1, <2>1, <2>4 DEF IssueStart
    <2>5. CASE IssueStop
      BY <1>1, <2>1, <2>5 DEF IssueStop
    <2>6. CASE IssueDelete
      BY <1>1, <2>1, <2>6 DEF IssueDelete
    <2>7. CASE IssueKeepDelete
      BY <1>1, <2>1, <2>7 DEF IssueKeepDelete
    <2> QED
      BY <2>2, <2>3, <2>4, <2>5, <2>6, <2>7 DEF OperatorStep

LEMMA SuperviseStepTyped == TypeOK /\ SuperviseStep => TypeOK'
  <1> SUFFICES ASSUME TypeOK, SuperviseStep PROVE TypeOK'
    OBVIOUS
  <1>1. ASSUME NEW flow \in Flows, NEW step \in Steps \ {"removeFile"}, NEW t \in Members,
               Tick(flow, step, t), quiet' \in SUBSET Members
        PROVE  TypeOK'
    <2>1. OperationOK(op')
      BY <1>1, TickTyped DEF Tick
    <2> QED
      BY <1>1, <2>1 DEF Tick, TypeOK, RuntimeTypeOK, runtimeVars, fileVars, historyVars
  <1> USE DEF Flows, MemberCommands, Steps, MemberSteps, ClusterSteps
  <1>2. CASE SuperviseStop
    <2>1. 1 \in Members /\ quiet' \in SUBSET Members
      BY <1>2, MemberCountAssumption DEF SuperviseStop, Members, TypeOK
    <2> QED
      BY <1>1, <1>2, <2>1 DEF SuperviseStop
  <1>3. CASE SuperviseOffline
    BY <1>1, <1>3 DEF SuperviseOffline, TypeOK, DesiredStates
  <1>4. CASE SuperviseRejoin
    <2>1. PICK i \in desired.stopped, t \in Members :
            /\ Tick("rejoin", IF vm[t] = "stopped" THEN "deleteEnvelope" ELSE "runEnvelope", t)
            /\ UNCHANGED quiet
      BY <1>4 DEF SuperviseRejoin
    <2> QED
      BY <1>1, <2>1 DEF TypeOK
  <1>5. CASE SuperviseAllReady
    BY <1>5 DEF SuperviseAllReady, TypeOK, RuntimeTypeOK, runtimeVars, fileVars, historyVars
  <1>6. CASE SuperviseStartAll
    <2>1. 1 \in Members
      BY MemberCountAssumption DEF Members
    <2>2. quiet' \in SUBSET Members
      BY <1>6 DEF SuperviseStartAll, TypeOK, Unready
    <2> QED
      BY <1>1, <1>6, <2>1, <2>2 DEF SuperviseStartAll
  <1>7. CASE SuperviseStartOne
    <2>1. PICK t \in Members : Tick("startMember", "startCheck", t) /\ quiet' = quiet \cup {t}
      BY <1>7 DEF SuperviseStartOne
    <2> QED
      BY <1>1, <2>1 DEF TypeOK
  <1>8. CASE SuperviseRepair
    BY <1>1, <1>8 DEF SuperviseRepair, TypeOK
  <1> QED
    BY <1>2, <1>3, <1>4, <1>5, <1>6, <1>7, <1>8 DEF SuperviseStep

LEMMA RuntimeStepTyped == TypeOK /\ K3sStep => TypeOK'
  <1> SUFFICES ASSUME TypeOK, K3sStep PROVE TypeOK'
    OBVIOUS
  <1>1. PICK m \in Members : BecomesReady(m) \/ LosesQuorum(m)
    BY DEF K3sStep
  <1>2. RuntimeTypeOK'
    BY <1>1 DEF BecomesReady, LosesQuorum, TypeOK, RuntimeTypeOK, VMStates
  <1> QED
    BY <1>2 DEF K3sStep, Unattended, TypeOK, hostVars, fileVars, historyVars

LEMMA FaultStepTyped == TypeOK /\ FlowOK /\ FaultStep => TypeOK'
  <1> SUFFICES ASSUME TypeOK, FlowOK, FaultStep PROVE TypeOK'
    OBVIOUS
  <1> USE DEF TypeOK, runtimeVars, fileVars, hostVars, Fault
  <1>0. faults < MaxFaults /\ faults' = faults + 1 => faults' \in 0..MaxFaults
    BY BoundsAssumption
  <1>1. OperationOK(Idle)
    BY MemberCountAssumption
    DEF Idle, NothingSeen, OperationOK, Operations, Flows, Steps, Members
  <1>2. op.pc # "removeFile" => op.target \in Members
    BY DEF OperationOK
  <1>3. CASE Lost
    <2>1. quiet' \in SUBSET Members
      <3>1. CASE RecordRepair(FALSE)
        <4>1. In({"repair"}) => op.target \in Members
          BY <1>2 DEF In, FlowOK, InFlow, StepsOf, Flows, StartSteps
        <4> QED
          BY <1>3, <3>1, <4>1 DEF RecordRepair
      <3> QED
        BY <1>3, <3>1 DEF Lost
    <2> QED
      BY <1>0, <1>1, <1>3, <2>1 DEF Lost, RuntimeTypeOK
  <1>4. CASE StopFails
    <2>1. OperationOK(op')
      BY <1>4, Continuations DEF StopFails, At
    <2>2. vm' \in [Members -> VMStates]
      BY <1>4 DEF StopFails, Stopped, RuntimeTypeOK, VMStates
    <2> QED
      BY <1>0, <1>4, <2>1, <2>2 DEF StopFails, RuntimeTypeOK
  <1>5. CASE RunFails
    <2>1. OperationOK(op') /\ op.pc # "removeFile"
      BY <1>1, <1>5, Continuations DEF RunFails, At
    <2>2. vm' \in [Members -> VMStates]
      BY <1>5 DEF RunFails, RuntimeTypeOK, VMStates
    <2>3. quiet' \in SUBSET Members
      BY <1>2, <1>5, <2>1 DEF RunFails, RecordRepair
    <2> QED
      BY <1>0, <1>5, <2>1, <2>2, <2>3 DEF RunFails, RuntimeTypeOK
  <1>6. CASE StepFails
    <2>1. OperationOK(op') /\ op.pc # "removeFile"
      BY <1>6, Continuations DEF StepFails, At
    <2>2. quiet' \in SUBSET Members
      BY <1>2, <1>6, <2>1 DEF StepFails, RecordRepair
    <2> QED
      BY <1>0, <1>6, <2>1, <2>2 DEF StepFails, RuntimeTypeOK
  <1>7. CASE VMFails
    <2>1. RuntimeTypeOK'
      BY <1>7 DEF VMFails, Exits, Wedges, AllExit, RuntimeTypeOK, VMStates
    <2> QED
      BY <1>0, <1>1, <1>7, <2>1 DEF VMFails
  <1>8. CASE RollBackVolumes
    <2>1. RuntimeTypeOK'
      BY <1>2, <1>8 DEF RollBackVolumes, At, RuntimeTypeOK
    <2> QED
      BY <1>0, <1>1, <1>8, <2>1 DEF RollBackVolumes
  <1> QED
    BY <1>3, <1>4, <1>5, <1>6, <1>7, <1>8 DEF FaultStep

LEMMA WaitTimesOutTyped == TypeOK /\ WaitTimesOut => TypeOK'
  <1> SUFFICES ASSUME TypeOK, WaitTimesOut PROVE TypeOK'
    OBVIOUS
  <1>1. OperationOK(op') /\ op.pc # "removeFile"
    BY Continuations DEF WaitTimesOut, TypeOK
  <1>2. quiet' \in SUBSET Members
    BY <1>1 DEF WaitTimesOut, RecordRepair, TypeOK, OperationOK
  <1> QED
    BY <1>1, <1>2 DEF WaitTimesOut, TypeOK, RuntimeTypeOK, runtimeVars, fileVars, historyVars

LEMMA NextTyped == TypeOK /\ FlowOK /\ [Next]_vars => TypeOK'
  <1> SUFFICES ASSUME TypeOK, FlowOK, [Next]_vars PROVE TypeOK'
    OBVIOUS
  <1>1. CASE UNCHANGED vars
    BY <1>1 DEF vars, TypeOK, RuntimeTypeOK, runtimeVars, fileVars, hostVars, historyVars
  <1>2. ASSUME NEW m \in Members, QuietEnds(m) PROVE TypeOK'
    BY <1>2 DEF QuietEnds, TypeOK, RuntimeTypeOK, runtimeVars, fileVars, historyVars
  <1> QED
    BY <1>1, <1>2, MemberStepTyped, CreateStepTyped, RemoveStepTyped, WaitTimesOutTyped,
       OperatorStepTyped, SuperviseStepTyped, RuntimeStepTyped, FaultStepTyped
    DEF Next, OperationStep

-----------------------------------------------------------------------------
(* Every step belongs to its flow. *)

LEMMA ContinuationsInFlow ==
  ASSUME OperationOK(op), FlowOK
  PROVE  /\ InFlow(Idle)
         /\ \A step \in StepsOf[op.flow] \ {"persistIntent"} : InFlow(Goto(step))
         /\ op.pc \in StartSteps \cup StopSteps /\ op.flow \notin {"createHA", "rejoin"} =>
              /\ \A really \in BOOLEAN : InFlow(AfterStop(really))
              /\ \A maybe \in BOOLEAN : InFlow(AfterFailedStop(maybe))
         /\ op.pc \in StartSteps /\ op.flow \notin {"createHA", "rejoin"} =>
              InFlow(AfterStart) /\ InFlow(AfterFailedStart)
         /\ op.flow \in {"createHA", "migrate"} => InFlow(NextMember)
         /\ op.pc = "runEnvelope" => InFlow(AfterRun)
         /\ op.pc = "runEnvelope" => AfterRun \in Operations
  <1> USE DEF OperationOK, Operations, InFlow, FlowOK, StepsOf, Flows, MemberCommands,
              StartSteps, StopSteps
  <1>1. InFlow(Idle)
    BY DEF Idle
  <1>2. "startCheck" \in StepsOf[op.flow] => InFlow(Recovery)
    BY DEF Recovery
  <1>3. op.flow \in {"createHA", "migrate"} => InFlow(NextMember)
    BY DEF NextMember
  <1>4. ASSUME NEW step \in StepsOf[op.flow] \ {"persistIntent"} PROVE InFlow(Goto(step))
    BY DEF Goto
  <1>5. op.flow \in {"createHA", "migrate"} => InFlow(Reconciled)
    BY <1>3, <1>4 DEF Reconciled
  <1>6. ASSUME op.pc = "runEnvelope" PROVE InFlow(AfterRun)
    <2>1. CASE op.flow = "rejoin"
      BY <1>4, <2>1 DEF AfterRun, In
    <2>2. CASE op.flow = "createHA"
      BY <1>5, <2>2 DEF AfterRun, In
    <2>3. CASE op.flow \notin {"rejoin", "createHA"}
      <3>1. "startWait" \in StepsOf[op.flow] \ {"persistIntent"}
        BY <1>6, <2>3
      <3> QED
        BY <1>4, <2>3, <3>1 DEF AfterRun, In
    <2> QED
      BY <2>1, <2>2, <2>3
  <1>7. ASSUME op.pc \in StartSteps, op.flow \notin {"createHA", "rejoin"}
        PROVE  InFlow(AfterStart) /\ InFlow(AfterFailedStart)
    <2>1. "startCheck" \in StepsOf[op.flow]
      BY <1>7
    <2> QED
      BY <1>1, <1>2, <1>5, <2>1 DEF AfterStart, AfterFailedStart, In
  <1>8. ASSUME op.pc \in StartSteps \cup StopSteps, op.flow \notin {"createHA", "rejoin"},
               NEW flag \in BOOLEAN
        PROVE  InFlow(AfterStop(flag)) /\ InFlow(AfterFailedStop(flag))
    <2>1. CASE op.flow = "stopMember"
      BY <1>1, <2>1 DEF AfterStop, AfterFailedStop, In, RecoveringFlows
    <2>2. CASE op.flow # "stopMember"
      <3>1. "startCheck" \in StepsOf[op.flow]
        BY <1>8, <2>2
      <3>2. InFlow(AfterFailedStop(flag))
        BY <1>1, <1>2, <3>1 DEF AfterFailedStop
      <3>3. /\ AfterStop(flag).pc = "startCheck"
            /\ AfterStop(flag).flow = op.flow /\ AfterStop(flag).actor = op.actor
        BY <2>2 DEF AfterStop, In
      <3> QED
        BY <3>1, <3>2, <3>3
    <2> QED
      BY <2>1, <2>2
  <1>9. op.pc = "runEnvelope" => AfterRun \in Operations
    BY Continuations
  <1> HIDE DEF OperationOK, Operations, InFlow, FlowOK, StepsOf, Flows, MemberCommands,
               StartSteps, StopSteps
  <1> QED
    BY <1>1, <1>3, <1>4, <1>6, <1>7, <1>8, <1>9

LEMMA MemberStepInFlow == TypeOK /\ FlowOK /\ MemberStep => FlowOK'
  <1> SUFFICES ASSUME TypeOK, FlowOK, MemberStep PROVE InFlow(op')
    BY DEF FlowOK
  <1>0. OperationOK(op)
    BY DEF TypeOK
  <1> USE <1>0, ContinuationsInFlow DEF At
  <1>1. op.pc \in StepsOf[op.flow] /\ op.flow \in Flows
    BY DEF FlowOK, InFlow, OperationOK, Operations
  <1> USE DEF StepsOf, Flows, MemberCommands, StartSteps, StopSteps, SetupSteps
  <1>2. CASE PersistMemberIntent
    BY <1>1, <1>2 DEF PersistMemberIntent, In
  <1>3. CASE RestartCheck
    BY <1>1, <1>3 DEF RestartCheck
  <1>4. CASE StopCheck
    BY <1>1, <1>4 DEF StopCheck
  <1>5. CASE OfflineCheck
    BY <1>1, <1>5 DEF OfflineCheck
  <1>6. CASE RepairCheck
    <2> DEFINE stopping == [op EXCEPT !.pc = "stopApply", !.mustRestart = TRUE]
    <2>1. op.flow = "repair"
      BY <1>1, <1>6 DEF RepairCheck
    <2>2. stopping.pc = "stopApply" /\ stopping.flow = op.flow /\ stopping.actor = op.actor
      BY DEF OperationOK, Operations
    <2>3. InFlow(stopping)
      BY <2>1, <2>2 DEF FlowOK, InFlow
    <2> QED
      BY <1>6, <2>3 DEF RepairCheck
  <1>7. CASE StopApply
    BY <1>1, <1>7 DEF StopApply
  <1>8. CASE StopWait
    BY <1>1, <1>8 DEF StopWait
  <1>9. CASE StartCheck
    <2> DEFINE next == CASE Running(op.target)        -> "startWait"
                         [] vm[op.target] = "stopped" -> "deleteEnvelope"
                         [] vm[op.target] = "missing" -> "runEnvelope"
    <2>1. next \in {"startWait", "deleteEnvelope", "runEnvelope"}
      BY <1>9 DEF StartCheck, TypeOK, OperationOK, RuntimeTypeOK, VMStates, Running, RunningStates
    <2>2. next \in StepsOf[op.flow] \ {"persistIntent"}
      <3>1. op.flow \in {"startMember", "restartMember", "repair", "migrate"}
        BY <1>1, <1>9 DEF StartCheck
      <3> HIDE DEF next
      <3> QED
        BY <2>1, <3>1
    <2>3. op.pc \in StartSteps /\ op.flow \notin {"createHA", "rejoin"}
      BY <1>1, <1>9 DEF StartCheck
    <2> HIDE DEF StepsOf, Flows, MemberCommands, StartSteps, StopSteps, SetupSteps
    <2>4. InFlow(Goto(next)) /\ InFlow(AfterStart) /\ InFlow(AfterFailedStart)
      BY <2>2, <2>3
    <2> QED
      BY <1>9, <2>4 DEF StartCheck
  <1>10. CASE DeleteEnvelope
    BY <1>1, <1>10 DEF DeleteEnvelope
  <1>11. CASE RunEnvelope
    BY <1>1, <1>11 DEF RunEnvelope, InFlow, Operations
  <1>12. CASE StartWait
    BY <1>1, <1>12 DEF StartWait
  <1>13. CASE MemberWait
    BY <1>1, <1>13 DEF MemberWait, In
  <1> QED
    BY <1>2, <1>3, <1>4, <1>5, <1>6, <1>7, <1>8, <1>9, <1>10, <1>11, <1>12, <1>13 DEF MemberStep

LEMMA CreateStepInFlow == TypeOK /\ FlowOK /\ CreateStep => FlowOK'
  <1> SUFFICES ASSUME TypeOK, FlowOK, CreateStep PROVE InFlow(op')
    BY DEF FlowOK
  <1>0. OperationOK(op)
    BY DEF TypeOK
  <1> USE <1>0, ContinuationsInFlow DEF At
  <1>1. op.pc \in StepsOf[op.flow] /\ op.flow \in Flows
    BY DEF FlowOK, InFlow, OperationOK, Operations
  <1>2. op.flow = "createHA"
    BY <1>1 DEF CreateStep, PersistRunning, CreateCheck, SaveConfig, MarkRunning, CreateNetwork,
       CreateVolume, CreateMember, CreateWait, StepsOf, Flows, MemberCommands, StartSteps, StopSteps
  <1>3. op.actor # "none"
    BY <1>2 DEF FlowOK, InFlow
  <1>4. op'.flow \in {"createHA", "migrate"} /\ op'.actor = op.actor /\ op'.pc \in StepsOf[op'.flow] /\ op'.pc # "persistIntent"
        => InFlow(op')
    BY <1>3 DEF FlowOK, InFlow, StepsOf, Flows
  <1> USE <1>2, <1>4 DEF StepsOf, Flows, SetupSteps, OperationOK, Operations
  <1>5. CASE PersistRunning
    BY <1>5 DEF PersistRunning
  <1>6. CASE CreateCheck
    BY <1>6 DEF CreateCheck
  <1>7. CASE SaveConfig
    BY <1>7 DEF SaveConfig
  <1>8. CASE MarkRunning
    BY <1>8 DEF MarkRunning
  <1>9. CASE CreateNetwork
    BY <1>9 DEF CreateNetwork
  <1>10. CASE CreateVolume
    BY <1>10 DEF CreateVolume
  <1>11. CASE CreateMember
    BY <1>11 DEF CreateMember, Reconciled, StopSteps
  <1>12. CASE CreateWait
    BY <1>12 DEF CreateWait
  <1> QED
    BY <1>5, <1>6, <1>7, <1>8, <1>9, <1>10, <1>11, <1>12 DEF CreateStep

LEMMA RemoveStepInFlow == TypeOK /\ FlowOK /\ RemoveStep => FlowOK'
  <1> SUFFICES ASSUME TypeOK, FlowOK, RemoveStep PROVE InFlow(op')
    BY DEF FlowOK
  <1>0. OperationOK(op)
    BY DEF TypeOK
  <1> USE <1>0, ContinuationsInFlow DEF At
  <1>1. op.pc \in StepsOf[op.flow] /\ op.flow \in Flows
    BY DEF FlowOK, InFlow, OperationOK, Operations
  <1>2. op.flow \in {"stopHA", "deleteKeepData", "deleteHA"}
    BY <1>1 DEF RemoveStep, PersistStopped, ClusterPreflight, ClusterStop, ClusterDelete,
       DeleteVolume, DeleteNetwork, RemoveFile, StepsOf, Flows, MemberCommands, StartSteps,
       StopSteps, SetupSteps
  <1>3. op'.flow = op.flow /\ op'.actor = op.actor /\ op'.pc \in StepsOf[op.flow] => InFlow(op')
    BY <1>2 DEF FlowOK, InFlow, StepsOf, Flows
  <1>4. op.pc \in {"clusterStop", "clusterDelete"} => InFlow(PreviousMember)
    <2>1. ASSUME op.target > 1 PROVE InFlow(PreviousMember)
      <3>1. PreviousMember = [op EXCEPT !.pc = "clusterStop", !.target = op.target - 1]
        BY <2>1 DEF PreviousMember
      <3>2. /\ PreviousMember.pc = "clusterStop" /\ PreviousMember.flow = op.flow
            /\ PreviousMember.actor = op.actor
        BY <3>1 DEF OperationOK, Operations
      <3>3. "clusterStop" \in StepsOf[op.flow]
        BY <1>2 DEF StepsOf, Flows
      <3> QED
        BY <3>2, <3>3 DEF FlowOK, InFlow
    <2>2. ASSUME ~(op.target > 1), op.target = 1, op.flow = "deleteHA" PROVE InFlow(PreviousMember)
      <3>1. PreviousMember = [op EXCEPT !.pc = "deleteVolume", !.target = MemberCount]
        BY <2>2 DEF PreviousMember, In
      <3>2. /\ PreviousMember.pc = "deleteVolume" /\ PreviousMember.flow = "deleteHA"
            /\ PreviousMember.actor = op.actor
        BY <2>2, <3>1 DEF OperationOK, Operations
      <3> QED
        BY <2>2, <3>2 DEF FlowOK, InFlow, StepsOf, Flows
    <2> QED
      BY <2>1, <2>2 DEF PreviousMember, In
  <1> USE <1>2, <1>3 DEF OperationOK, Operations, StepsOf, Flows
  <1>5. CASE PersistStopped
    BY <1>1, <1>5 DEF PersistStopped
  <1>6. CASE ClusterPreflight
    BY <1>6 DEF ClusterPreflight
  <1>7. CASE ClusterStop
    BY <1>4, <1>7 DEF ClusterStop, In
  <1>8. CASE ClusterDelete
    BY <1>4, <1>8 DEF ClusterDelete
  <1>9. CASE DeleteVolume
    BY <1>1, <1>9 DEF DeleteVolume
  <1>10. CASE DeleteNetwork
    BY <1>1, <1>10 DEF DeleteNetwork
  <1>11. CASE RemoveFile
    BY <1>1, <1>11 DEF RemoveFile
  <1> QED
    BY <1>5, <1>6, <1>7, <1>8, <1>9, <1>10, <1>11 DEF RemoveStep

LEMMA FaultStepInFlow == TypeOK /\ FlowOK /\ (FaultStep \/ WaitTimesOut) => FlowOK'
  <1> SUFFICES ASSUME TypeOK, FlowOK, FaultStep \/ WaitTimesOut PROVE InFlow(op')
    BY DEF FlowOK
  <1>0. OperationOK(op)
    BY DEF TypeOK
  <1> USE <1>0, ContinuationsInFlow DEF At
  <1>1. op.pc \in StepsOf[op.flow] /\ op.flow \in Flows
    BY DEF FlowOK, InFlow, OperationOK, Operations
  <1>2. ASSUME op.pc \in {"startCheck", "startWait", "stopApply", "stopWait", "deleteEnvelope", "runEnvelope"},
               op.flow \notin {"createHA", "rejoin"}
        PROVE  /\ op.pc \in StartSteps \cup StopSteps
               /\ op.pc \in {"startCheck", "startWait", "deleteEnvelope", "runEnvelope"} => op.pc \in StartSteps
    BY <1>2 DEF StartSteps, StopSteps
  <1>3. op.pc \in {"startCheck", "startWait", "stopApply", "stopWait"} => op.flow \notin {"createHA", "rejoin"}
    BY <1>1 DEF StepsOf, Flows, SetupSteps
  <1>4. CASE Lost \/ RollBackVolumes
    BY <1>4 DEF Lost, RollBackVolumes
  <1>5. CASE StopFails
    BY <1>2, <1>3, <1>5 DEF StopFails
  <1>6. CASE RunFails
    BY <1>2, <1>6 DEF RunFails, In
  <1>7. CASE StepFails
    BY <1>2, <1>3, <1>7 DEF StepFails, In, RecoveringFlows
  <1>8. CASE VMFails
    BY <1>8 DEF VMFails, FlowOK
  <1>9. CASE WaitTimesOut
    BY <1>2, <1>3, <1>9 DEF WaitTimesOut
  <1> QED
    BY <1>4, <1>5, <1>6, <1>7, <1>8, <1>9 DEF FaultStep

LEMMA BegunInFlow ==
  ASSUME NEW who, NEW flow, NEW step, NEW t
  PROVE  /\ Begun(who, flow, step, t).actor = who
         /\ Begun(who, flow, step, t).flow = flow
         /\ Begun(who, flow, step, t).pc = step
         /\ Begun(who, flow, step, t).target = t
  BY DEF Begun, Idle

LEMMA NextInFlow == TypeOK /\ FlowOK /\ [Next]_vars => FlowOK'
  <1> SUFFICES ASSUME TypeOK, FlowOK, [Next]_vars PROVE FlowOK'
    OBVIOUS
  <1>1. CASE UNCHANGED vars \/ K3sStep \/ \E m \in Members : QuietEnds(m)
    BY <1>1 DEF vars, FlowOK, K3sStep, Unattended, QuietEnds
  <1>2. CASE OperatorStep
    <2> USE BegunInFlow DEF Issue, FlowOK, InFlow, StepsOf, Flows, MemberCommands
    <2>1. CASE IssueMemberCommand
      BY <2>1 DEF IssueMemberCommand
    <2>2. CASE IssueCreate \/ IssueStart
      BY <2>2 DEF IssueCreate, IssueStart
    <2>3. CASE IssueStop \/ IssueDelete \/ IssueKeepDelete
      BY <2>3 DEF IssueStop, IssueDelete, IssueKeepDelete
    <2> QED
      BY <1>2, <2>1, <2>2, <2>3 DEF OperatorStep
  <1>3. CASE SuperviseStep
    <2> USE BegunInFlow DEF Tick, FlowOK, InFlow, StepsOf, Flows, MemberCommands
    <2>1. CASE SuperviseStop
      BY <2>1 DEF SuperviseStop
    <2>2. CASE SuperviseOffline
      BY <2>2 DEF SuperviseOffline, StopSteps
    <2>3. CASE SuperviseRejoin
      BY <2>3 DEF SuperviseRejoin
    <2>4. CASE SuperviseAllReady
      BY <2>4 DEF SuperviseAllReady
    <2>5. CASE SuperviseStartAll
      BY <2>5 DEF SuperviseStartAll
    <2>6. CASE SuperviseStartOne
      BY <2>6 DEF SuperviseStartOne, StartSteps
    <2>7. CASE SuperviseRepair
      BY <2>7 DEF SuperviseRepair
    <2> QED
      BY <1>3, <2>1, <2>2, <2>3, <2>4, <2>5, <2>6, <2>7 DEF SuperviseStep
  <1> QED
    BY <1>1, <1>2, <1>3, MemberStepInFlow, CreateStepInFlow, RemoveStepInFlow, FaultStepInFlow
    DEF Next, OperationStep

LEMMA InitInFlow == Init => FlowOK
  BY DEF Init, FlowOK, InFlow, Idle, StepsOf, Flows

(* The stored intent, the operation and the cluster are what their types     *)
(* say; in particular at most one member ever carries stop intent            *)
(* (validateHADesiredState), whatever order commands come in.                *)
THEOREM TypeCorrect == Spec => []TypeOK
  <1>1. Init => TypeOK /\ FlowOK
    BY InitTyped, InitInFlow
  <1>2. TypeOK /\ FlowOK /\ [Next]_vars => (TypeOK /\ FlowOK)'
    BY NextTyped, NextInFlow
  <1> QED
    BY <1>1, <1>2, PTL DEF Spec

-----------------------------------------------------------------------------
(* The members whose envelope an operation has yet to come to. *)
PendingOf(o) ==
  CASE o.pc \in SetupSteps                                       -> Members
    [] o.pc = "createMember"                                     -> o.target..MemberCount
    [] o.pc \in MemberSteps /\ o.flow \in {"createHA", "migrate"} ->
         (o.target + 1)..MemberCount
    [] o.pc = "clusterStop"                                      -> 1..o.target
    [] o.pc = "clusterDelete"                                    -> 1..(o.target - 1)
    [] OTHER                                                     -> {}

(* An envelope that was seen without a running VM is still as it was seen.   *)
StillAsSeen == \A m \in PendingOf(op) : op.seen[m] # "running" => vm[m] = op.seen[m]

LookOK == StillAsSeen /\ NeverReplacesRunningVM

(* What the supervisor's operations take for granted about the intent. *)
IntentOK ==
  op.actor = "supervisor" =>
    /\ op.flow \in {"createHA", "migrate", "startMember", "repair"} => AllWanted
    /\ op.flow = "rejoin" => WantsRunning /\ op.target \notin desired.stopped
    /\ op.flow = "stopHA" => desired.cluster = "Stopped"

(* While nothing has failed and the cluster is not meant to be down. *)
DownFlows == {"stopHA", "deleteKeepData", "deleteHA"}

QuorumOK ==
  /\ ~WantsRunning \/ op.flow \in DownFlows => outage
  /\ calm /\ ~outage =>
       /\ voters = Members
       /\ \E t \in Members : OthersReady(t)
       /\ op.pc \in {"stopApply", "stopWait"} => OthersReady(op.target)

-----------------------------------------------------------------------------
(* NeverReplacesRunningVM *)

(* o comes to no member that op does not come to, with the same look.        *)
Narrows(o) == \A m \in PendingOf(o) : m \in PendingOf(op) /\ o.seen = op.seen

(* An operation that has come to its last member. *)
LEMMA NothingPending ==
  ASSUME NEW o, \/ o.pc \in {"idle", "createWait", "persistRunning", "createCheck", "persistStopped",
                             "clusterPreflight", "deleteVolume", "deleteNetwork", "removeFile"}
                \/ o.pc \in MemberSteps /\ o.flow \notin {"createHA", "migrate"}
  PROVE  PendingOf(o) = {} /\ Narrows(o)
  BY DEF Narrows, PendingOf, SetupSteps, MemberSteps

(* An operation that stays with its member. *)
LEMMA SameMember ==
  ASSUME NEW o, o.pc \in MemberSteps, op.pc \in MemberSteps \cup {"createMember"},
         o.flow \in {"createHA", "migrate"} /\ op.pc # "createMember"
           => op.flow \in {"createHA", "migrate"},
         o.target = op.target, op.target \in Nat, o.seen = op.seen
  PROVE  Narrows(o)
  <1> USE MemberCountAssumption
  <1>1. CASE o.flow \in {"createHA", "migrate"}
    <2>1. PendingOf(o) = (op.target + 1)..MemberCount
      BY <1>1 DEF PendingOf, SetupSteps, MemberSteps
    <2>2. PendingOf(op) \in {(op.target + 1)..MemberCount, op.target..MemberCount}
      BY <1>1 DEF PendingOf, SetupSteps, MemberSteps
    <2> QED
      BY <2>1, <2>2 DEF Narrows
  <1>2. CASE o.flow \notin {"createHA", "migrate"}
    BY <1>2, NothingPending
  <1> QED
    BY <1>1, <1>2

LEMMA ContinuationsNarrow ==
  ASSUME OperationOK(op), FlowOK, op.pc \in MemberSteps \cup {"createMember"}
  PROVE  /\ Narrows(Idle)
         /\ \A step \in MemberSteps : Narrows(Goto(step))
         /\ op.flow \in {"createHA", "migrate"} => Narrows(NextMember) /\ Narrows(Reconciled)
         /\ Narrows(Recovery)
         /\ \A flag \in BOOLEAN : Narrows(AfterStop(flag)) /\ Narrows(AfterFailedStop(flag))
         /\ Narrows(AfterStart) /\ Narrows(AfterFailedStart)
         /\ op.pc = "runEnvelope" => Narrows(AfterRun)
  <1> USE MemberCountAssumption
  <1>0. /\ op \in Operations /\ op.target \in Nat
        /\ op.pc = "createMember" => op.flow = "createHA"
    BY DEF FlowOK, InFlow, StepsOf, Flows, MemberCommands, StartSteps, StopSteps, OperationOK, Operations
  <1>1. Narrows(Idle)
    BY NothingPending DEF Idle
  <1>2. ASSUME NEW step \in MemberSteps PROVE Narrows(Goto(step))
    <2> DEFINE o == Goto(step)
    <2>1. o.pc = step /\ o.flow = op.flow /\ o.target = op.target /\ o.seen = op.seen
      BY <1>0 DEF Goto, Operations
    <2> HIDE DEF o
    <2> QED
      BY <1>0, <2>1, SameMember DEF o
  <1>3. Narrows(Recovery)
    <2>1. /\ Recovery.pc = "startCheck" /\ Recovery.flow = op.flow
          /\ Recovery.target = op.target /\ Recovery.seen = op.seen
      BY <1>0 DEF Recovery, Operations
    <2> QED
      BY <1>0, <2>1, SameMember DEF MemberSteps
  <1>4. ASSUME op.flow \in {"createHA", "migrate"} PROVE Narrows(NextMember)
    <2>1. CASE op.target = MemberCount
      <3>1. NextMember.pc = "createWait"
        BY <1>0, <2>1 DEF NextMember, Operations
      <3> QED
        BY <3>1, NothingPending
    <2>2. CASE op.target # MemberCount
      <3> DEFINE next == op.target + 1
      <3>1. NextMember = [op EXCEPT !.pc = "createMember", !.flow = "createHA", !.target = next]
        BY <2>2 DEF NextMember
      <3> HIDE DEF next
      <3>2. /\ NextMember.pc = "createMember" /\ NextMember.target = next
            /\ NextMember.seen = op.seen
        BY <1>0, <3>1 DEF Operations
      <3>3. PendingOf(NextMember) = next..MemberCount
        BY <3>2 DEF PendingOf, SetupSteps, MemberSteps
      <3>4. PendingOf(op) \in {next..MemberCount, op.target..MemberCount}
        BY <1>4 DEF PendingOf, SetupSteps, MemberSteps, next
      <3> QED
        BY <1>0, <3>2, <3>3, <3>4 DEF Narrows, next
    <2> QED
      BY <2>1, <2>2
  <1>5. ASSUME op.flow \in {"createHA", "migrate"} PROVE Narrows(Reconciled)
    BY <1>2, <1>4, <1>5 DEF Reconciled, MemberSteps
  <1>6. ASSUME NEW flag \in BOOLEAN PROVE Narrows(AfterStop(flag))
    <2>1. CASE op.flow = "stopMember"
      BY <1>1, <2>1 DEF AfterStop, In
    <2>2. CASE op.flow # "stopMember"
      <3> DEFINE o == AfterStop(flag)
      <3>1. o.pc = "startCheck" /\ o.flow = op.flow /\ o.target = op.target /\ o.seen = op.seen
        BY <1>0, <2>2 DEF AfterStop, In, Operations
      <3> HIDE DEF o
      <3> QED
        BY <1>0, <3>1, SameMember DEF o, MemberSteps
    <2> QED
      BY <2>1, <2>2
  <1>7. ASSUME NEW flag \in BOOLEAN PROVE Narrows(AfterFailedStop(flag))
    BY <1>1, <1>3 DEF AfterFailedStop
  <1>8. Narrows(AfterStart)
    BY <1>1, <1>5 DEF AfterStart, In
  <1>9. Narrows(AfterFailedStart)
    BY <1>1, <1>3 DEF AfterFailedStart
  <1>10. Narrows(AfterRun)
    BY <1>2, <1>5 DEF AfterRun, In, MemberSteps
  <1> QED
    BY <1>1, <1>2, <1>3, <1>4, <1>5, <1>6, <1>7, <1>8, <1>9, <1>10

(* What keeps StillAsSeen.                                                   *)
LEMMA StillSeen ==
  ASSUME TypeOK, StillAsSeen, Narrows(op'),
         \A m \in PendingOf(op') : vm[m] \in {"stopped", "missing"} => vm'[m] = vm[m]
  PROVE  StillAsSeen'
  <1> SUFFICES ASSUME NEW m \in PendingOf(op'), op'.seen[m] # "running" PROVE vm'[m] = op'.seen[m]
    BY DEF StillAsSeen
  <1>1. m \in PendingOf(op) /\ op'.seen = op.seen
    BY DEF Narrows
  <1>2. m \in Members
    BY <1>1, MemberCountAssumption
    DEF PendingOf, Members, TypeOK, OperationOK, Operations, MemberSteps, SetupSteps
  <1>3. vm[m] = op.seen[m] /\ op.seen[m] \in {"stopped", "missing"}
    BY <1>1, <1>2 DEF StillAsSeen, TypeOK, OperationOK, Operations
  <1> QED
    BY <1>1, <1>3

(* Where an operation goes on after a member's stop or start. *)
Settled(o) ==
  o.pc \in {"idle", "startCheck", "startWait", "memberWait", "createMember", "createWait"}

LEMMA ContinuationsSettled ==
  ASSUME OperationOK(op)
  PROVE  /\ Settled(Idle) /\ Settled(Recovery) /\ Settled(NextMember) /\ Settled(Reconciled)
         /\ \A flag \in BOOLEAN : Settled(AfterStop(flag)) /\ Settled(AfterFailedStop(flag))
         /\ Settled(AfterStart) /\ Settled(AfterFailedStart)
         /\ op.pc = "runEnvelope" => Settled(AfterRun)
         /\ \A step : Goto(step).pc = step
  <1> USE DEF Settled, OperationOK, Operations
  <1>0. \A step : Goto(step).pc = step
    BY DEF Goto
  <1>1. Settled(Idle) /\ Settled(Recovery)
    BY DEF Idle, Recovery
  <1>2. Settled(NextMember)
    BY DEF NextMember
  <1>3. Settled(Reconciled)
    BY <1>0, <1>2 DEF Reconciled
  <1>4. ASSUME NEW flag \in BOOLEAN PROVE Settled(AfterStop(flag)) /\ Settled(AfterFailedStop(flag))
    <2>1. ASSUME ~In({"stopMember"}) PROVE AfterStop(flag).pc = "startCheck"
      BY <2>1 DEF AfterStop
    <2> QED
      BY <1>1, <2>1 DEF AfterStop, AfterFailedStop
  <1>5. Settled(AfterStart) /\ Settled(AfterFailedStart)
    BY <1>1, <1>3 DEF AfterStart, AfterFailedStart
  <1>6. Settled(AfterRun)
    BY <1>0, <1>3 DEF AfterRun
  <1> QED
    BY <1>0, <1>1, <1>2, <1>3, <1>4, <1>5, <1>6

(* o is not about to replace an envelope. *)
Harmless(o) == o.pc \notin {"deleteEnvelope", "runEnvelope", "clusterDelete"}

LEMMA ContinuationsHarmless ==
  ASSUME OperationOK(op)
  PROVE  /\ Harmless(Idle) /\ Harmless(Recovery) /\ Harmless(NextMember) /\ Harmless(Reconciled)
         /\ \A flag \in BOOLEAN : Harmless(AfterStop(flag)) /\ Harmless(AfterFailedStop(flag))
         /\ Harmless(AfterStart) /\ Harmless(AfterFailedStart)
         /\ op.pc = "runEnvelope" => Harmless(AfterRun)
         /\ \A step : Goto(step).pc = step
  BY ContinuationsSettled DEF Settled, Harmless

LEMMA MemberStepLooks == TypeOK /\ FlowOK /\ LookOK /\ MemberStep => LookOK'
  <1> SUFFICES ASSUME TypeOK, FlowOK, LookOK, MemberStep PROVE LookOK'
    OBVIOUS
  <1>0. OperationOK(op) /\ op \in Operations /\ op.pc \in MemberSteps /\ op.target \in Members
    BY DEF TypeOK, OperationOK, MemberStep, At, MemberSteps, PersistMemberIntent, RestartCheck,
       StopCheck, OfflineCheck, RepairCheck, StopApply, StopWait, StartCheck, DeleteEnvelope,
       RunEnvelope, StartWait, MemberWait
  <1>1. op.target \in Nat /\ op.target \notin PendingOf(op)
    BY <1>0, MemberCountAssumption DEF Operations, PendingOf, MemberSteps, SetupSteps
  <1>2. vm \in [Members -> VMStates]
    BY DEF TypeOK, RuntimeTypeOK
  <1>3. op.pc \in StepsOf[op.flow]
    BY DEF FlowOK, InFlow
  <1>4. CASE StartCheck
    <2> DEFINE next == CASE Running(op.target)        -> "startWait"
                         [] vm[op.target] = "stopped" -> "deleteEnvelope"
                         [] vm[op.target] = "missing" -> "runEnvelope"
    <2>1. next \in {"startWait", "deleteEnvelope", "runEnvelope"}
      BY <1>0, <1>2 DEF VMStates, Running, RunningStates
    <2>2. /\ next = "deleteEnvelope" => vm[op.target] = "stopped"
          /\ next = "runEnvelope" => vm[op.target] = "missing"
      BY <1>0, <1>2 DEF VMStates, Running, RunningStates
    <2>3. op' \in {AfterStart, AfterFailedStart, Goto(next)}
      BY <1>4 DEF StartCheck
    <2> HIDE DEF next
    <2>4. Goto(next).pc = next /\ Goto(next).target = op.target
      BY <1>0 DEF Goto, Operations
    <2>5. Narrows(op')
      BY <1>0, <2>1, <2>3, ContinuationsNarrow DEF MemberSteps
    <2>6. vm' = vm
      BY <1>4 DEF StartCheck, runtimeVars
    <2>7. NeverReplacesRunningVM'
      BY <1>0, <2>1, <2>2, <2>3, <2>4, <2>6, ContinuationsHarmless
      DEF NeverReplacesRunningVM, Harmless, At
    <2> QED
      BY <2>5, <2>6, <2>7, StillSeen DEF LookOK
  <1>5. CASE DeleteEnvelope
    <2>1. op' = Goto("runEnvelope") /\ vm' = Deleted(op.target)
      BY <1>5 DEF DeleteEnvelope
    <2>2. op'.pc = "runEnvelope" /\ op'.target = op.target
      BY <1>0, <2>1 DEF Goto, Operations
    <2>3. NeverReplacesRunningVM'
      BY <1>0, <1>2, <2>1, <2>2 DEF NeverReplacesRunningVM, At, Deleted
    <2>4. Narrows(op')
      BY <1>0, <2>1, ContinuationsNarrow DEF MemberSteps
    <2>5. \A m \in PendingOf(op') : vm'[m] = vm[m]
      BY <1>1, <1>2, <2>1, <2>4 DEF Narrows, Deleted
    <2> QED
      BY <2>3, <2>4, <2>5, StillSeen DEF LookOK
  <1>6. CASE RunEnvelope
    <2>1. op' = AfterRun /\ vm' = Launched(op.target)
      BY <1>6 DEF RunEnvelope
    <2>2. op.pc = "runEnvelope" /\ AfterRun \in Operations
      BY <1>0, <1>6, ContinuationsInFlow DEF RunEnvelope, At
    <2>3. /\ op'.pc = AfterRun.pc /\ op'.flow = AfterRun.flow
          /\ op'.target = AfterRun.target /\ op'.seen = AfterRun.seen
      BY <2>1, <2>2 DEF Operations
    <2>4. Narrows(AfterRun) /\ Harmless(AfterRun)
      BY <1>0, <2>2, ContinuationsNarrow, ContinuationsHarmless
    <2>5. Narrows(op')
      BY <2>3, <2>4 DEF Narrows, PendingOf
    <2>6. \A m \in PendingOf(op') : vm'[m] = vm[m]
      BY <1>1, <1>2, <2>1, <2>5 DEF Narrows, Launched
    <2>7. NeverReplacesRunningVM'
      BY <2>3, <2>4 DEF Harmless, NeverReplacesRunningVM, At
    <2> QED
      BY <2>5, <2>6, <2>7, StillSeen DEF LookOK
  <1>7. ASSUME Narrows(op'), Harmless(op'), vm' \in {vm, Stopped(op.target)} PROVE LookOK'
    <2>1. NeverReplacesRunningVM'
      BY <1>7 DEF Harmless, NeverReplacesRunningVM, At
    <2>2. \A m \in Members : vm[m] \in {"stopped", "missing"} => vm'[m] = vm[m]
      BY <1>2, <1>7 DEF Stopped, Running, RunningStates
    <2>3. \A m \in PendingOf(op') : vm[m] \in {"stopped", "missing"} => vm'[m] = vm[m]
      BY <1>0, <1>7, <2>2, MemberCountAssumption DEF Narrows, PendingOf, MemberSteps, SetupSteps, Members
    <2> QED
      BY <1>7, <2>1, <2>3, StillSeen DEF LookOK
  <1> USE <1>0, ContinuationsNarrow, ContinuationsHarmless
  <1>8. CASE PersistMemberIntent
    BY <1>7, <1>8 DEF PersistMemberIntent, runtimeVars, Harmless, MemberSteps
  <1>9. CASE RestartCheck \/ StopCheck \/ OfflineCheck
    BY <1>7, <1>9 DEF RestartCheck, StopCheck, OfflineCheck, runtimeVars, Harmless, MemberSteps
  <1>10. CASE RepairCheck
    <2> DEFINE stopping == [op EXCEPT !.pc = "stopApply", !.mustRestart = TRUE]
    <2>1. /\ stopping.pc = "stopApply" /\ stopping.flow = op.flow
          /\ stopping.target = op.target /\ stopping.seen = op.seen
      BY DEF Operations
    <2>2. op' \in {stopping, Idle} /\ vm' = vm
      BY <1>10 DEF RepairCheck, runtimeVars
    <2> HIDE DEF stopping
    <2>3. Narrows(stopping) /\ Harmless(stopping)
      BY <1>1, <2>1, SameMember DEF MemberSteps, Harmless
    <2> QED
      BY <1>7, <2>2, <2>3
  <1>11. CASE StopApply
    BY <1>7, <1>11 DEF StopApply, Harmless, MemberSteps
  <1>12. CASE StopWait
    BY <1>7, <1>12 DEF StopWait, runtimeVars
  <1>13. CASE StartWait
    BY <1>7, <1>13 DEF StartWait, runtimeVars
  <1>14. CASE MemberWait
    <2>1. op.flow \in {"rejoin", "createHA", "migrate"}
      BY <1>3, <1>14 DEF MemberWait, At, StepsOf, Flows, MemberCommands, StartSteps, StopSteps,
         Operations
    <2> QED
      BY <1>7, <1>14, <2>1 DEF MemberWait, In, runtimeVars
  <1> QED
    BY <1>4, <1>5, <1>6, <1>8, <1>9, <1>10, <1>11, <1>12, <1>13, <1>14 DEF MemberStep

(* The look an operation takes itself is right when it takes it. *)
LEMMA FreshLook ==
  ASSUME TypeOK, vm' = vm, op'.seen = Observed, PendingOf(op') \subseteq Members
  PROVE  StillAsSeen'
  BY DEF StillAsSeen, Observed

(* Steps that leave the VMs alone and come to no other member. *)
LEMMA CalmStepLooks ==
  ASSUME TypeOK, LookOK, vm' = vm, Narrows(op'), Harmless(op')
  PROVE  LookOK'
  <1>1. NeverReplacesRunningVM'
    BY DEF Harmless, NeverReplacesRunningVM, At
  <1> QED
    BY <1>1, StillSeen DEF LookOK

LEMMA CreateStepLooks == TypeOK /\ FlowOK /\ LookOK /\ CreateStep => LookOK'
  <1> SUFFICES ASSUME TypeOK, FlowOK, LookOK, CreateStep PROVE LookOK'
    OBVIOUS
  <1> USE MemberCountAssumption
  <1>0. /\ OperationOK(op) /\ op \in Operations /\ op.target \in Members /\ op.target \in Nat
        /\ op.flow = "createHA"
    <2>1. op.target \in Members
      BY DEF TypeOK, OperationOK, CreateStep, At, PersistRunning, CreateCheck, SaveConfig,
         MarkRunning, CreateNetwork, CreateVolume, CreateMember, CreateWait
    <2>2. op.flow = "createHA"
      BY DEF FlowOK, InFlow, TypeOK, OperationOK, Operations, CreateStep, At, PersistRunning,
         CreateCheck, SaveConfig, MarkRunning, CreateNetwork, CreateVolume, CreateMember,
         CreateWait, StepsOf, Flows, MemberCommands, StartSteps, StopSteps
    <2> QED
      BY <2>1, <2>2 DEF TypeOK, OperationOK, Operations
  <1> USE <1>0
  <1>1. CASE PersistRunning
    <2>1. op'.pc = "createCheck" /\ vm' = vm
      BY <1>1, ContinuationsHarmless DEF PersistRunning, runtimeVars
    <2> QED
      BY <2>1, NothingPending, CalmStepLooks DEF Harmless
  <1>2. CASE CreateCheck
    <2>1. CASE MayCreate
      <3> DEFINE fresh == volumes = {}
      <3>1. op' = [op EXCEPT !.pc = "saveConfig", !.fresh = fresh, !.seen = Observed] /\ vm' = vm
        BY <1>2, <2>1 DEF CreateCheck, runtimeVars
      <3> HIDE DEF fresh
      <3>2. op'.pc = "saveConfig" /\ op'.seen = Observed
        BY <3>1 DEF Operations
      <3>3. PendingOf(op') = Members
        BY <3>2 DEF PendingOf, SetupSteps, MemberSteps
      <3> QED
        BY <3>1, <3>2, <3>3, FreshLook DEF LookOK, NeverReplacesRunningVM, At
    <2>2. CASE ~MayCreate
      <3>1. op' = Idle /\ vm' = vm
        BY <1>2, <2>2 DEF CreateCheck, runtimeVars
      <3> QED
        BY <3>1, NothingPending, CalmStepLooks DEF Harmless, Idle
    <2> QED
      BY <2>1, <2>2
  <1>3. ASSUME op.pc \in SetupSteps, op'.pc \in SetupSteps, op'.seen = op.seen, vm' = vm
        PROVE  LookOK'
    <2>1. Narrows(op')
      BY <1>3 DEF Narrows, PendingOf, SetupSteps, MemberSteps
    <2> QED
      BY <1>3, <2>1, CalmStepLooks DEF Harmless, SetupSteps
  <1>4. ASSUME op.pc \in SetupSteps, op'.pc = "createMember", op'.target = 1, op'.seen = op.seen,
               vm' = vm
        PROVE  LookOK'
    <2>1. Narrows(op')
      BY <1>4 DEF Narrows, PendingOf, SetupSteps, MemberSteps, Members
    <2> QED
      BY <1>4, <2>1, CalmStepLooks DEF Harmless
  <1>5. CASE SaveConfig
    BY <1>3, <1>5 DEF SaveConfig, At, Goto, SetupSteps, Operations, runtimeVars
  <1>6. CASE MarkRunning
    BY <1>3, <1>6 DEF MarkRunning, At, Goto, SetupSteps, Operations, runtimeVars
  <1>7. CASE CreateNetwork
    <2> DEFINE step == IF volumes = Members THEN "createMember" ELSE "createVolume"
               flag == ~network
    <2>1. op' = [op EXCEPT !.pc = step, !.newNetwork = flag, !.target = 1]
      BY <1>7 DEF CreateNetwork
    <2>2. step \in {"createVolume", "createMember"}
      OBVIOUS
    <2> HIDE DEF step, flag
    <2>3. op'.pc = step /\ op'.target = 1 /\ op'.seen = op.seen
      BY <2>1 DEF Operations
    <2> QED
      BY <1>3, <1>4, <1>7, <2>2, <2>3 DEF CreateNetwork, At, SetupSteps
  <1>8. CASE CreateVolume
    <2>1. CASE op.target = MemberCount
      <3>1. op' = [op EXCEPT !.pc = "createMember", !.target = 1]
        BY <1>8, <2>1 DEF CreateVolume
      <3>2. op'.pc = "createMember" /\ op'.target = 1 /\ op'.seen = op.seen
        BY <3>1 DEF Operations
      <3> QED
        BY <1>4, <1>8, <3>2 DEF CreateVolume, At, SetupSteps
    <2>2. CASE op.target # MemberCount
      <3> DEFINE next == op.target + 1
      <3>1. op' = [op EXCEPT !.target = next]
        BY <1>8, <2>2 DEF CreateVolume
      <3> HIDE DEF next
      <3>2. op'.pc = op.pc /\ op'.seen = op.seen
        BY <3>1 DEF Operations
      <3> QED
        BY <1>3, <1>8, <3>2 DEF CreateVolume, At, SetupSteps
    <2> QED
      BY <2>1, <2>2
  <1>9. CASE CreateMember
    <2> DEFINE t == op.target
    <2>1. op.pc = "createMember" /\ vm' = vm
      BY <1>9 DEF CreateMember, At, runtimeVars
    <2>2. t \in PendingOf(op)
      BY <2>1 DEF PendingOf, SetupSteps, MemberSteps, Members
    <2>3. op.seen[t] \in {"missing", "stopped", "running"}
      BY DEF Operations
    <2>4. CASE op.seen[t] = "running"
      <3>1. op' \in {Reconciled, [op EXCEPT !.flow = "migrate", !.pc = "stopCheck"]}
        BY <1>9, <2>4 DEF CreateMember
      <3>2. CASE op' = Reconciled
        BY <2>1, <3>2, ContinuationsNarrow, ContinuationsHarmless, CalmStepLooks
      <3>3. CASE op' = [op EXCEPT !.flow = "migrate", !.pc = "stopCheck"]
        <4>1. /\ op'.pc = "stopCheck" /\ op'.target = op.target /\ op'.seen = op.seen
          BY <3>3 DEF Operations
        <4> QED
          BY <2>1, <4>1, SameMember, CalmStepLooks DEF Harmless, MemberSteps
      <3> QED
        BY <3>1, <3>2, <3>3
    <2>5. CASE op.seen[t] # "running"
      <3>1. vm[t] = op.seen[t]
        BY <2>2, <2>5 DEF LookOK, StillAsSeen
      <3> DEFINE step == IF op.seen[t] = "stopped" THEN "deleteEnvelope" ELSE "runEnvelope"
      <3>2. op' = Goto(step)
        BY <1>9, <2>3, <2>5 DEF CreateMember
      <3>3. step \in MemberSteps
        BY DEF MemberSteps
      <3> HIDE DEF step
      <3>4. op'.pc = step /\ op'.target = t
        BY <3>2 DEF Goto, Operations
      <3>5. Narrows(op')
        BY <2>1, <3>2, <3>3, ContinuationsNarrow
      <3>6. NeverReplacesRunningVM'
        BY <2>1, <2>3, <2>5, <3>1, <3>4 DEF NeverReplacesRunningVM, At, step
      <3> QED
        BY <2>1, <3>5, <3>6, StillSeen DEF LookOK
    <2> QED
      BY <2>4, <2>5
  <1>10. CASE CreateWait
    <2>1. op' = Idle /\ vm' = vm
      BY <1>10 DEF CreateWait, runtimeVars
    <2> QED
      BY <2>1, NothingPending, CalmStepLooks DEF Harmless, Idle
  <1> QED
    BY <1>1, <1>2, <1>5, <1>6, <1>7, <1>8, <1>9, <1>10 DEF CreateStep

LEMMA RemoveStepLooks == TypeOK /\ FlowOK /\ LookOK /\ RemoveStep => LookOK'
  <1> SUFFICES ASSUME TypeOK, FlowOK, LookOK, RemoveStep PROVE LookOK'
    OBVIOUS
  <1> USE MemberCountAssumption
  <1>0. /\ OperationOK(op) /\ op \in Operations /\ op.target \in Nat
        /\ vm \in [Members -> VMStates]
    BY DEF TypeOK, OperationOK, Operations, RuntimeTypeOK
  <1> USE <1>0
  <1>1. ASSUME op.pc \in {"clusterStop", "clusterDelete"}
        PROVE  Narrows(PreviousMember) /\ Harmless(PreviousMember) /\ op.target \notin PendingOf(PreviousMember)
    <2>1. CASE op.target > 1
      <3> DEFINE next == op.target - 1
      <3>1. PreviousMember = [op EXCEPT !.pc = "clusterStop", !.target = next]
        BY <2>1 DEF PreviousMember
      <3> HIDE DEF next
      <3>2. /\ PreviousMember.pc = "clusterStop" /\ PreviousMember.target = next
            /\ PreviousMember.seen = op.seen
        BY <3>1 DEF Operations
      <3>3. PendingOf(PreviousMember) = 1..next
        BY <3>2 DEF PendingOf, SetupSteps, MemberSteps
      <3>4. PendingOf(op) \in {1..op.target, 1..next}
        BY <1>1 DEF PendingOf, SetupSteps, MemberSteps, next
      <3> QED
        BY <3>2, <3>3, <3>4 DEF Narrows, Harmless, next
    <2>2. CASE ~(op.target > 1)
      <3>1. PreviousMember \in {Idle, [op EXCEPT !.pc = "deleteVolume", !.target = MemberCount]}
        BY <2>2 DEF PreviousMember
      <3>2. Idle.pc = "idle" /\ [op EXCEPT !.pc = "deleteVolume", !.target = MemberCount].pc = "deleteVolume"
        BY DEF Idle, Operations
      <3>3. PreviousMember.pc \in {"idle", "deleteVolume"}
        BY <3>1, <3>2
      <3> QED
        BY <3>3, NothingPending DEF Harmless
    <2> QED
      BY <2>1, <2>2
  <1>2. ASSUME op'.pc \in {"idle", "clusterPreflight", "deleteVolume", "deleteNetwork", "removeFile"},
               vm' = vm
        PROVE  LookOK'
    BY <1>2, NothingPending, CalmStepLooks DEF Harmless
  <1>3. CASE PersistStopped
    BY <1>2, <1>3, ContinuationsHarmless DEF PersistStopped, runtimeVars
  <1>4. CASE ClusterPreflight
    <2>1. /\ op'.pc = "clusterStop" /\ op'.target = MemberCount /\ op'.seen = Observed
          /\ vm' = vm
      BY <1>4 DEF ClusterPreflight, Operations, runtimeVars
    <2>2. PendingOf(op') = Members
      BY <2>1 DEF PendingOf, SetupSteps, MemberSteps, Members
    <2> QED
      BY <2>1, <2>2, FreshLook DEF LookOK, NeverReplacesRunningVM, At
  <1>5. CASE ClusterStop
    <2> DEFINE t == op.target
    <2>1. op.pc = "clusterStop" /\ t \in Members
      BY <1>5 DEF ClusterStop, At, OperationOK
    <2>2. t \in PendingOf(op)
      BY <2>1 DEF PendingOf, SetupSteps, MemberSteps, Members
    <2>3. op.seen[t] \in {"missing", "stopped", "running"}
      BY <2>1 DEF Operations
    <2>4. \A m \in Members : vm[m] \in {"stopped", "missing"} => vm'[m] = vm[m]
      BY <1>5 DEF ClusterStop, Stopped, Running, RunningStates
    <2>5. vm'[t] \notin RunningStates \/ op.seen[t] = "missing"
      BY <1>5, <2>1, <2>2, <2>3
      DEF ClusterStop, Stopped, Running, RunningStates, LookOK, StillAsSeen
    <2>6. op' = PreviousMember \/ (op' = Goto("clusterDelete") /\ op.seen[t] # "missing")
      BY <1>5 DEF ClusterStop
    <2>7. /\ Goto("clusterDelete").pc = "clusterDelete" /\ Goto("clusterDelete").target = t
          /\ Goto("clusterDelete").seen = op.seen
      BY DEF Goto, Operations
    <2>8. Narrows(Goto("clusterDelete"))
      <3>1. PendingOf(Goto("clusterDelete")) = 1..(t - 1) /\ PendingOf(op) = 1..t
        BY <2>1, <2>7 DEF PendingOf, SetupSteps, MemberSteps
      <3> QED
        BY <2>7, <3>1 DEF Narrows
    <2>9. Narrows(op')
      BY <1>1, <2>1, <2>6, <2>8
    <2>10. NeverReplacesRunningVM'
      BY <1>1, <2>1, <2>5, <2>6, <2>7 DEF NeverReplacesRunningVM, Harmless, At, Running
    <2>11. \A m \in PendingOf(op') : m \in Members
      BY <2>1, <2>9 DEF Narrows, PendingOf, SetupSteps, MemberSteps, Members
    <2> QED
      BY <2>4, <2>9, <2>10, <2>11, StillSeen DEF LookOK
  <1>6. CASE ClusterDelete
    <2>1. op' = PreviousMember /\ vm' = Deleted(op.target) /\ op.pc = "clusterDelete"
      BY <1>6 DEF ClusterDelete, At
    <2>2. \A m \in PendingOf(op') : vm'[m] = vm[m]
      <3>1. PendingOf(op) \subseteq Members
        BY <2>1 DEF PendingOf, SetupSteps, MemberSteps, Members, OperationOK
      <3> QED
        BY <1>1, <2>1, <3>1 DEF Narrows, Deleted
    <2>3. NeverReplacesRunningVM'
      BY <1>1, <2>1 DEF Harmless, NeverReplacesRunningVM, At
    <2> QED
      BY <1>1, <2>1, <2>2, <2>3, StillSeen DEF LookOK
  <1>7. CASE DeleteVolume
    <2> DEFINE next == op.target - 1
    <2>1. op' = IF op.target > 1 THEN [op EXCEPT !.target = next] ELSE Goto("deleteNetwork")
      BY <1>7 DEF DeleteVolume
    <2> HIDE DEF next
    <2>2. op'.pc \in {"deleteVolume", "deleteNetwork"}
      BY <1>7, <2>1 DEF DeleteVolume, At, Goto, Operations
    <2> QED
      BY <1>2, <1>7, <2>2 DEF DeleteVolume
  <1>8. CASE DeleteNetwork
    BY <1>2, <1>8 DEF DeleteNetwork, Operations
  <1>9. CASE RemoveFile
    <2> DEFINE next == op.target + 1
    <2>1. op' \in {[op EXCEPT !.target = next], Idle} /\ op.pc = "removeFile" /\ vm' = vm
      BY <1>9 DEF RemoveFile, At, runtimeVars
    <2> HIDE DEF next
    <2>2. op'.pc \in {"removeFile", "idle"}
      BY <2>1 DEF Operations, Idle
    <2> QED
      BY <1>2, <2>1, <2>2
  <1> QED
    BY <1>3, <1>4, <1>5, <1>6, <1>7, <1>8, <1>9 DEF RemoveStep

LEMMA BeginLooks == TypeOK /\ LookOK /\ (OperatorStep \/ SuperviseStep) => LookOK'
  <1> SUFFICES ASSUME TypeOK, LookOK, OperatorStep \/ SuperviseStep PROVE LookOK'
    OBVIOUS
  <1> USE BegunInFlow DEF Issue, Tick, runtimeVars
  <1>1. ASSUME vm' = vm, Harmless(op'),
               \/ op'.pc \in {"createCheck", "persistRunning", "persistStopped", "clusterPreflight"}
               \/ op'.pc \in MemberSteps /\ op'.flow \notin {"createHA", "migrate"}
        PROVE  LookOK'
    BY <1>1, NothingPending, CalmStepLooks
  <1>2. CASE OperatorStep
    BY <1>1, <1>2
    DEF OperatorStep, IssueMemberCommand, IssueCreate, IssueStart, IssueStop, IssueDelete,
        IssueKeepDelete, Harmless, MemberSteps, MemberCommands
  <1>3. CASE SuperviseStop
    BY <1>1, <1>3 DEF SuperviseStop, Harmless
  <1>4. CASE SuperviseOffline
    BY <1>1, <1>4 DEF SuperviseOffline, Harmless, MemberSteps
  <1>5. CASE SuperviseRejoin
    <2>1. PICK i \in desired.stopped, t \in Members :
            /\ ~Running(t)
            /\ Tick("rejoin", IF vm[t] = "stopped" THEN "deleteEnvelope" ELSE "runEnvelope", t)
      BY <1>5 DEF SuperviseRejoin
    <2>2. vm[t] \in {"stopped", "missing"}
      BY <2>1 DEF Running, RunningStates, TypeOK, RuntimeTypeOK, VMStates
    <2>3. /\ op'.target = t /\ op'.flow = "rejoin" /\ vm' = vm
          /\ op'.pc = IF vm[t] = "stopped" THEN "deleteEnvelope" ELSE "runEnvelope"
      BY <2>1
    <2>4. PendingOf(op') = {}
      BY <2>3, NothingPending DEF MemberSteps
    <2>5. NeverReplacesRunningVM'
      BY <2>2, <2>3 DEF NeverReplacesRunningVM, At
    <2> QED
      BY <2>4, <2>5 DEF LookOK, StillAsSeen
  <1>6. CASE SuperviseAllReady
    BY <1>6 DEF SuperviseAllReady, LookOK, StillAsSeen, NeverReplacesRunningVM, At, Running
  <1>7. CASE SuperviseStartAll
    BY <1>1, <1>7 DEF SuperviseStartAll, Harmless
  <1>8. CASE SuperviseStartOne
    BY <1>1, <1>8 DEF SuperviseStartOne, Harmless, MemberSteps
  <1>9. CASE SuperviseRepair
    BY <1>1, <1>9 DEF SuperviseRepair, Harmless, MemberSteps
  <1> QED
    BY <1>2, <1>3, <1>4, <1>5, <1>6, <1>7, <1>8, <1>9 DEF SuperviseStep

(* Neither K3s nor a fault starts a VM or makes an envelope come or go. *)
LEMMA OutsideLooks ==
  ASSUME TypeOK, LookOK, op' = op, vm' \in [Members -> VMStates],
         \A m \in Members : IF Running(m) THEN vm'[m] # "missing" ELSE vm'[m] = vm[m]
  PROVE  LookOK'
  <1>1. \A m \in Members : vm[m] \in {"stopped", "missing"} => vm'[m] = vm[m]
    BY DEF Running, RunningStates
  <1>2. Narrows(op')
    BY DEF Narrows
  <1>3. PendingOf(op') \subseteq Members
    BY MemberCountAssumption
    DEF PendingOf, SetupSteps, MemberSteps, Members, TypeOK, OperationOK, Operations
  <1>4. op.pc # "removeFile" => op.target \in Members
    BY DEF TypeOK, OperationOK
  <1>5. NeverReplacesRunningVM'
    BY <1>1, <1>4 DEF LookOK, NeverReplacesRunningVM, At, Running
  <1> QED
    BY <1>1, <1>2, <1>3, <1>5, StillSeen DEF LookOK

LEMMA FaultStepLooks == TypeOK /\ FlowOK /\ LookOK /\ FaultStep => LookOK'
  <1> SUFFICES ASSUME TypeOK, FlowOK, LookOK, FaultStep PROVE LookOK'
    OBVIOUS
  <1>0. OperationOK(op) /\ vm \in [Members -> VMStates]
    BY DEF TypeOK, RuntimeTypeOK
  <1> USE <1>0 DEF Fault, runtimeVars
  <1>1. ASSUME op' = Idle, \A m \in Members : vm[m] \in {"stopped", "missing"} => vm'[m] = vm[m]
        PROVE  LookOK'
    BY <1>1, NothingPending DEF Idle, LookOK, StillAsSeen, NeverReplacesRunningVM, At
  <1>2. ASSUME op.pc \in MemberSteps, op' \in {Idle, Recovery},
               \A m \in Members : m # op.target => vm'[m] = vm[m]
        PROVE  LookOK'
    <2>1. op.target \notin PendingOf(op) /\ PendingOf(op) \subseteq Members
      BY <1>2, MemberCountAssumption
      DEF PendingOf, MemberSteps, SetupSteps, Members, OperationOK, Operations
    <2>2. Narrows(op') /\ Harmless(op')
      BY <1>2, ContinuationsNarrow, ContinuationsHarmless
    <2>3. \A m \in PendingOf(op') : vm'[m] = vm[m]
      BY <1>2, <2>1, <2>2 DEF Narrows
    <2>4. NeverReplacesRunningVM'
      BY <2>2 DEF Harmless, NeverReplacesRunningVM, At
    <2> QED
      BY <2>2, <2>3, <2>4, StillSeen DEF LookOK
  <1>3. CASE Lost
    BY <1>1, <1>3 DEF Lost
  <1>4. CASE StopFails
    BY <1>2, <1>4 DEF StopFails, At, AfterFailedStop, Stopped, MemberSteps
  <1>5. CASE RunFails
    BY <1>2, <1>5 DEF RunFails, At, AfterFailedStart, MemberSteps
  <1>6. CASE StepFails
    BY <1>2, <1>6 DEF StepFails, At, AfterFailedStop, AfterFailedStart, MemberSteps
  <1>7. CASE VMFails
    <2>1. CASE \E m \in Members : Exits(m) \/ Wedges(m)
      <3>1. PICK m \in Members : Exits(m) \/ Wedges(m)
        BY <2>1
      <3>2. op' = op \/ op' = Idle
        BY <1>7 DEF VMFails
      <3>3. /\ vm' \in [Members -> VMStates]
            /\ \A k \in Members : IF Running(k) THEN vm'[k] # "missing" ELSE vm'[k] = vm[k]
        BY <3>1 DEF Exits, Wedges, Running, RunningStates, VMStates
      <3>4. \A k \in Members : vm[k] \in {"stopped", "missing"} => vm'[k] = vm[k]
        BY <3>3 DEF Running, RunningStates
      <3> QED
        BY <1>1, <3>2, <3>3, <3>4, OutsideLooks
    <2>2. CASE AllExit /\ op' = Idle
      BY <1>1, <2>2 DEF AllExit, Running, RunningStates
    <2> QED
      BY <1>7, <2>1, <2>2 DEF VMFails
  <1>8. CASE RollBackVolumes
    BY <1>1, <1>8 DEF RollBackVolumes
  <1> QED
    BY <1>3, <1>4, <1>5, <1>6, <1>7, <1>8 DEF FaultStep

LEMMA WaitTimesOutLooks == TypeOK /\ FlowOK /\ LookOK /\ WaitTimesOut => LookOK'
  <1> SUFFICES ASSUME TypeOK, FlowOK, LookOK, WaitTimesOut PROVE LookOK'
    OBVIOUS
  <1>1. OperationOK(op) /\ vm' = vm
    BY DEF TypeOK, WaitTimesOut, runtimeVars
  <1>2. CASE op.pc = "createWait"
    <2>1. op' = Idle
      BY <1>1, <1>2 DEF WaitTimesOut, At, FlowOK, InFlow, StepsOf, Flows, MemberCommands,
         StartSteps, StopSteps, OperationOK, Operations
    <2> QED
      BY <1>1, <2>1, NothingPending, CalmStepLooks DEF Harmless, Idle
  <1>3. CASE op.pc # "createWait"
    BY <1>1, <1>3, ContinuationsNarrow, ContinuationsHarmless, CalmStepLooks
    DEF WaitTimesOut, MemberSteps
  <1> QED
    BY <1>2, <1>3

LEMMA NextLooks == TypeOK /\ FlowOK /\ LookOK /\ [Next]_vars => LookOK'
  <1> SUFFICES ASSUME TypeOK, FlowOK, LookOK, [Next]_vars PROVE LookOK'
    OBVIOUS
  <1>1. ASSUME vm' = vm, op' = op PROVE LookOK'
    BY <1>1 DEF LookOK, StillAsSeen, NeverReplacesRunningVM, At, Running
  <1>2. CASE UNCHANGED vars \/ \E m \in Members : QuietEnds(m)
    BY <1>1, <1>2 DEF vars, runtimeVars, QuietEnds
  <1>3. CASE K3sStep
    <2>1. PICK m \in Members : BecomesReady(m) \/ LosesQuorum(m)
      BY <1>3 DEF K3sStep
    <2>2. op' = op /\ vm \in [Members -> VMStates]
      BY <1>3 DEF K3sStep, Unattended, TypeOK, RuntimeTypeOK
    <2>3. /\ vm' \in [Members -> VMStates]
          /\ \A k \in Members : IF Running(k) THEN vm'[k] # "missing" ELSE vm'[k] = vm[k]
      BY <2>1, <2>2 DEF BecomesReady, LosesQuorum, Running, RunningStates, VMStates
    <2> QED
      BY <2>2, <2>3, OutsideLooks
  <1> QED
    BY <1>2, <1>3, MemberStepLooks, CreateStepLooks, RemoveStepLooks, WaitTimesOutLooks,
       BeginLooks, FaultStepLooks
    DEF Next, OperationStep

(* Envelopes are deleted and launched by what an earlier look reported, and  *)
(* no step, failure or crash in between makes that look wrong where it       *)
(* matters: no running VM is ever deleted and no name in use launched again  *)
(* (reconcileHAMember, deleteHALocked, startHAMemberLocked).                 *)
THEOREM NeverReplacesRunning == Spec => []NeverReplacesRunningVM
  <1>1. Init => TypeOK /\ FlowOK /\ LookOK
    <2>1. Init => LookOK
      BY NothingPending DEF Init, Idle, LookOK, StillAsSeen, NeverReplacesRunningVM, At
    <2> QED
      BY <2>1, InitTyped, InitInFlow
  <1>2. TypeOK /\ FlowOK /\ LookOK /\ [Next]_vars => (TypeOK /\ FlowOK /\ LookOK)'
    BY NextTyped, NextInFlow, NextLooks
  <1>3. LookOK => NeverReplacesRunningVM
    BY DEF LookOK
  <1> QED
    BY <1>1, <1>2, <1>3, PTL DEF Spec

-----------------------------------------------------------------------------
(* SupervisorHonoursIntent *)

(* The supervisor never changes operator intent, launches nothing in a       *)
(* stopped cluster, and never launches a member that is to stay offline      *)
(* (reconcileSupervisedHAAfterService).                                      *)
SupervisorHonoursIntent ==
  [][op.actor = "supervisor" =>
       /\ desired' = desired
       /\ \A m \in Members : ~Running(m) /\ Running(m)' =>
            WantsRunning /\ m \notin desired.stopped]_vars

(* o is over, or the same operation further on. *)
Continues(o) ==
  \/ o.actor = "none"
  \/ /\ o.actor = op.actor
     /\ o.flow = op.flow \/ {o.flow, op.flow} \subseteq {"createHA", "migrate"}
     /\ op.flow = "rejoin" => o.target = op.target

LEMMA ContinuationsContinue ==
  ASSUME OperationOK(op)
  PROVE  /\ Continues(Idle) /\ Continues(Recovery)
         /\ \A step : Continues(Goto(step))
         /\ op.flow \in {"createHA", "migrate"} => Continues(NextMember) /\ Continues(Reconciled)
         /\ \A flag \in BOOLEAN : Continues(AfterStop(flag)) /\ Continues(AfterFailedStop(flag))
         /\ Continues(AfterStart) /\ Continues(AfterFailedStart)
         /\ op.pc = "runEnvelope" => Continues(AfterRun)
  <1> USE DEF OperationOK, Operations
  <1>1. Continues(Idle)
    BY DEF Continues, Idle
  <1>2. Continues(Recovery)
    BY DEF Continues, Recovery
  <1>3. ASSUME NEW step PROVE Continues(Goto(step))
    BY DEF Continues, Goto
  <1>4. ASSUME op.flow \in {"createHA", "migrate"} PROVE Continues(NextMember)
    <2>1. NextMember.actor = op.actor /\ NextMember.flow = "createHA"
      BY DEF NextMember
    <2> QED
      BY <1>4, <2>1 DEF Continues
  <1>5. ASSUME op.flow \in {"createHA", "migrate"} PROVE Continues(Reconciled)
    BY <1>3, <1>4, <1>5 DEF Reconciled
  <1>6. ASSUME NEW flag \in BOOLEAN PROVE Continues(AfterStop(flag)) /\ Continues(AfterFailedStop(flag))
    <2>1. ASSUME ~In({"stopMember"})
          PROVE  /\ AfterStop(flag).actor = op.actor /\ AfterStop(flag).flow = op.flow
                 /\ AfterStop(flag).target = op.target
      BY <2>1 DEF AfterStop
    <2>2. Continues(AfterStop(flag))
      BY <1>1, <2>1 DEF AfterStop, Continues
    <2> QED
      BY <1>1, <1>2, <2>2 DEF AfterFailedStop
  <1>7. Continues(AfterStart) /\ Continues(AfterFailedStart)
    BY <1>1, <1>2, <1>5 DEF AfterStart, AfterFailedStart, In
  <1>8. Continues(AfterRun)
    BY <1>3, <1>5 DEF AfterRun, In
  <1> QED
    BY <1>1, <1>2, <1>3, <1>4, <1>5, <1>6, <1>7, <1>8

LEMMA MemberStepContinues == TypeOK /\ FlowOK /\ MemberStep => Continues(op')
  <1> SUFFICES ASSUME TypeOK, FlowOK, MemberStep PROVE Continues(op')
    OBVIOUS
  <1>0. OperationOK(op) /\ op \in Operations /\ op.pc \in StepsOf[op.flow]
    BY DEF TypeOK, OperationOK, FlowOK, InFlow
  <1> USE <1>0, ContinuationsContinue
  <1>1. CASE PersistMemberIntent \/ RestartCheck
    BY <1>1 DEF PersistMemberIntent, RestartCheck
  <1>2. CASE StopCheck \/ OfflineCheck
    BY <1>2 DEF StopCheck, OfflineCheck
  <1>3. CASE RepairCheck
    <2> DEFINE stopping == [op EXCEPT !.pc = "stopApply", !.mustRestart = TRUE]
    <2>1. stopping.actor = op.actor /\ stopping.flow = op.flow /\ stopping.target = op.target
      BY DEF Operations
    <2> HIDE DEF stopping
    <2> QED
      BY <1>3, <2>1 DEF RepairCheck, Continues, stopping
  <1>4. CASE StopApply \/ StopWait \/ DeleteEnvelope
    BY <1>4 DEF StopApply, StopWait, DeleteEnvelope
  <1>5. CASE StartCheck
    BY <1>5 DEF StartCheck
  <1>6. CASE RunEnvelope
    <2>1. /\ op' = AfterRun
          /\ op.pc = "runEnvelope" /\ AfterRun \in Operations
      BY <1>6, ContinuationsInFlow DEF RunEnvelope, At
    <2>2. op'.actor = AfterRun.actor /\ op'.flow = AfterRun.flow /\ op'.target = AfterRun.target
      BY <2>1 DEF Operations
    <2>3. Continues(AfterRun)
      BY <2>1
    <2> QED
      BY <2>2, <2>3 DEF Continues
  <1>7. CASE StartWait
    BY <1>7 DEF StartWait
  <1>8. CASE MemberWait
    <2>1. op.flow \in {"rejoin", "createHA", "migrate"}
      BY <1>8 DEF MemberWait, At, StepsOf, Flows, MemberCommands, StartSteps, StopSteps, Operations
    <2> QED
      BY <1>8, <2>1 DEF MemberWait, In
  <1> QED
    BY <1>1, <1>2, <1>3, <1>4, <1>5, <1>6, <1>7, <1>8 DEF MemberStep

LEMMA StepContinues ==
  TypeOK /\ FlowOK /\ [Next]_vars /\ ~OperatorStep /\ ~SuperviseStep => Continues(op')
  <1> SUFFICES ASSUME TypeOK, FlowOK, [Next]_vars, ~OperatorStep, ~SuperviseStep
               PROVE  Continues(op')
    OBVIOUS
  <1>0. OperationOK(op) /\ op \in Operations /\ op.pc \in StepsOf[op.flow]
    BY DEF TypeOK, OperationOK, FlowOK, InFlow
  <1> USE <1>0, ContinuationsContinue
  <1>1. op' \in {op, Idle} => Continues(op')
    BY DEF Continues
  <1>2. ASSUME op'.actor = op.actor, op'.flow = op.flow, op.flow # "rejoin" PROVE Continues(op')
    BY <1>2 DEF Continues
  <1>3. CASE UNCHANGED vars \/ K3sStep \/ \E m \in Members : QuietEnds(m)
    BY <1>1, <1>3 DEF vars, K3sStep, Unattended, QuietEnds
  <1>4. CASE WaitTimesOut
    BY <1>4 DEF WaitTimesOut
  <1>5. CASE FaultStep
    BY <1>1, <1>5 DEF FaultStep, Lost, StopFails, RunFails, StepFails, VMFails, RollBackVolumes
  <1>6. CASE CreateStep
    <2>1. op.flow = "createHA"
      BY <1>6 DEF CreateStep, PersistRunning, CreateCheck, SaveConfig, MarkRunning, CreateNetwork,
         CreateVolume, CreateMember, CreateWait, At, StepsOf, Flows, MemberCommands, StartSteps,
         StopSteps, Operations
    <2> USE <2>1 DEF Operations
    <2>2. CASE PersistRunning \/ SaveConfig \/ MarkRunning \/ CreateWait
      BY <1>1, <2>2 DEF PersistRunning, SaveConfig, MarkRunning, CreateWait
    <2>3. CASE CreateCheck \/ CreateNetwork \/ CreateVolume
      BY <1>1, <1>2, <2>3 DEF CreateCheck, CreateNetwork, CreateVolume
    <2>4. CASE CreateMember
      <3>1. op.seen[op.target] \in {"missing", "stopped", "running"}
        BY <2>4 DEF CreateMember, At, OperationOK
      <3>2. \/ op' = Reconciled \/ op' \in {Goto("deleteEnvelope"), Goto("runEnvelope")}
            \/ op' = [op EXCEPT !.flow = "migrate", !.pc = "stopCheck"]
        BY <2>4, <3>1 DEF CreateMember
      <3>3. CASE op' = [op EXCEPT !.flow = "migrate", !.pc = "stopCheck"]
        <4>1. op'.actor = op.actor /\ op'.flow = "migrate"
          BY <3>3
        <4> QED
          BY <4>1 DEF Continues
      <3> QED
        BY <3>2, <3>3
    <2> QED
      BY <1>6, <2>2, <2>3, <2>4 DEF CreateStep
  <1>7. CASE RemoveStep
    <2>1. op.flow # "rejoin"
      BY <1>7 DEF RemoveStep, PersistStopped, ClusterPreflight, ClusterStop, ClusterDelete,
         DeleteVolume, DeleteNetwork, RemoveFile, At, StepsOf, Flows
    <2> USE <2>1 DEF Operations
    <2>2. Continues(PreviousMember)
      <3>1. \/ PreviousMember = Idle
            \/ PreviousMember.actor = op.actor /\ PreviousMember.flow = op.flow
        BY DEF PreviousMember
      <3> QED
        BY <1>1, <3>1 DEF Continues
    <2>3. CASE PersistStopped \/ ClusterStop \/ ClusterDelete
      BY <2>2, <2>3 DEF PersistStopped, ClusterStop, ClusterDelete
    <2>4. CASE ClusterPreflight \/ DeleteVolume \/ DeleteNetwork
      BY <1>2, <2>4 DEF ClusterPreflight, DeleteVolume, DeleteNetwork
    <2>5. CASE RemoveFile
      BY <1>1, <1>2, <2>5 DEF RemoveFile
    <2> QED
      BY <1>7, <2>3, <2>4, <2>5 DEF RemoveStep
  <1> QED
    BY <1>3, <1>4, <1>5, <1>6, <1>7, MemberStepContinues DEF Next, OperationStep

(* Only runHAServerEnvelope makes a VM run. *)
LEMMA OnlyRunsLaunch ==
  ASSUME TypeOK, [Next]_vars, NEW m \in Members, ~Running(m), Running(m)'
  PROVE  op.pc = "runEnvelope" /\ m = op.target
  <1> USE DEF Running, RunningStates, runtimeVars
  <1>0. vm \in [Members -> VMStates]
    BY DEF TypeOK, RuntimeTypeOK
  <1>1. vm' # vm
    OBVIOUS
  <1>2. CASE MemberStep
    BY <1>0, <1>1, <1>2
    DEF MemberStep, PersistMemberIntent, RestartCheck, StopCheck, OfflineCheck, RepairCheck,
        StopApply, StopWait, StartCheck, DeleteEnvelope, RunEnvelope, StartWait, MemberWait, At,
        Stopped, Deleted, Launched
  <1>3. CASE CreateStep
    BY <1>1, <1>3 DEF CreateStep, PersistRunning, CreateCheck, SaveConfig, MarkRunning,
       CreateNetwork, CreateVolume, CreateMember, CreateWait
  <1>4. CASE RemoveStep
    BY <1>0, <1>1, <1>4 DEF RemoveStep, PersistStopped, ClusterPreflight, ClusterStop,
       ClusterDelete, DeleteVolume, DeleteNetwork, RemoveFile, Stopped, Deleted
  <1>5. CASE K3sStep
    BY <1>0, <1>5 DEF K3sStep, BecomesReady, LosesQuorum
  <1>6. CASE FaultStep
    <2>1. CASE Lost \/ RollBackVolumes \/ StepFails
      BY <1>1, <2>1 DEF Lost, RollBackVolumes, StepFails
    <2>2. CASE StopFails
      BY <1>0, <2>2 DEF StopFails, Stopped
    <2>3. CASE RunFails
      BY <1>0, <2>3 DEF RunFails, At
    <2>4. CASE VMFails
      BY <1>0, <2>4 DEF VMFails, Exits, Wedges, AllExit
    <2> QED
      BY <1>6, <2>1, <2>2, <2>3, <2>4 DEF FaultStep
  <1>7. CASE OperatorStep \/ SuperviseStep
    BY <1>1, <1>7 DEF OperatorStep, IssueMemberCommand, IssueCreate, IssueStart, IssueStop,
       IssueDelete, IssueKeepDelete, Issue, SuperviseStep, SuperviseStop, SuperviseOffline,
       SuperviseRejoin, SuperviseAllReady, SuperviseStartAll, SuperviseStartOne, SuperviseRepair, Tick
  <1>8. CASE WaitTimesOut \/ UNCHANGED vars \/ \E k \in Members : QuietEnds(k)
    BY <1>1, <1>8 DEF WaitTimesOut, vars, QuietEnds
  <1> QED
    BY <1>2, <1>3, <1>4, <1>5, <1>6, <1>7, <1>8 DEF Next, OperationStep

LEMMA SupervisorStepHonours ==
  ASSUME TypeOK, FlowOK, IntentOK, [Next]_vars, op.actor = "supervisor"
  PROVE  /\ desired' = desired
         /\ \A m \in Members : ~Running(m) /\ Running(m)' =>
              WantsRunning /\ m \notin desired.stopped
  <1>0. /\ op \in Operations /\ op.pc \in StepsOf[op.flow] /\ desired \in DesiredStates
        /\ op.pc # "persistIntent"
        /\ op.flow \in {"stopMember", "startMember", "createHA", "migrate", "stopHA",
                        "repair", "rejoin"}
    BY DEF TypeOK, OperationOK, FlowOK, InFlow, Operations, Flows, MemberCommands
  <1>1. op.flow = "createHA" => MarkedRunning(desired) = desired
    BY <1>0 DEF IntentOK, AllWanted, WantsRunning, MarkedRunning, DesiredStates
  <1>2. op.flow = "stopHA" => MarkedStopped(desired) = desired
    BY <1>0 DEF IntentOK, MarkedStopped, DesiredStates
  <1>3. desired' = desired
    <2> USE DEF fileVars, hostVars
    <2>1. CASE MemberStep
      BY <1>0, <2>1
      DEF MemberStep, PersistMemberIntent, RestartCheck, StopCheck, OfflineCheck, RepairCheck,
          StopApply, StopWait, StartCheck, DeleteEnvelope, RunEnvelope, StartWait, MemberWait, At
    <2>2. CASE CreateStep
      <3>1. op.flow = "createHA"
        BY <1>0, <2>2 DEF CreateStep, PersistRunning, CreateCheck, SaveConfig, MarkRunning,
           CreateNetwork, CreateVolume, CreateMember, CreateWait, At, StepsOf, Flows,
           MemberCommands, StartSteps, StopSteps
      <3> QED
        BY <1>1, <2>2, <3>1 DEF CreateStep, PersistRunning, CreateCheck, SaveConfig, MarkRunning,
           CreateNetwork, CreateVolume, CreateMember, CreateWait
    <2>3. CASE RemoveStep
      <3>1. op.pc # "removeFile" /\ (op.pc = "persistStopped" => op.flow = "stopHA")
        BY <1>0 DEF StepsOf, Flows, MemberCommands, StartSteps, StopSteps, SetupSteps
      <3> QED
        BY <1>2, <2>3, <3>1 DEF RemoveStep, PersistStopped, ClusterPreflight, ClusterStop,
           ClusterDelete, DeleteVolume, DeleteNetwork, RemoveFile, At
    <2>4. CASE FaultStep \/ K3sStep \/ WaitTimesOut
      BY <2>4 DEF FaultStep, Lost, StopFails, RunFails, StepFails, VMFails, RollBackVolumes,
         K3sStep, Unattended, WaitTimesOut
    <2>5. CASE UNCHANGED vars \/ \E k \in Members : QuietEnds(k)
      BY <2>5 DEF vars, QuietEnds
    <2>6. CASE OperatorStep \/ SuperviseStep
      BY <2>6 DEF OperatorStep, IssueMemberCommand, IssueCreate, IssueStart, IssueStop,
         IssueDelete, IssueKeepDelete, Issue, SuperviseStep, SuperviseStop, SuperviseOffline,
         SuperviseRejoin, SuperviseAllReady, SuperviseStartAll, SuperviseStartOne, SuperviseRepair, Tick
    <2> QED
      BY <2>1, <2>2, <2>3, <2>4, <2>5, <2>6 DEF Next, OperationStep
  <1>4. ASSUME NEW m \in Members, ~Running(m), Running(m)'
        PROVE  WantsRunning /\ m \notin desired.stopped
    <2>1. op.pc = "runEnvelope" /\ m = op.target
      BY <1>4, OnlyRunsLaunch
    <2>2. op.flow \in {"createHA", "migrate", "startMember", "repair", "rejoin"}
      BY <1>0, <2>1 DEF StepsOf, Flows, MemberCommands, StartSteps, StopSteps
    <2> QED
      BY <2>1, <2>2 DEF IntentOK, AllWanted
  <1> QED
    BY <1>3, <1>4

LEMMA MembersFinite == IsFiniteSet(Members) /\ Cardinality(Members) = MemberCount
  BY MemberCountAssumption, FS_Interval DEF Members

LEMMA AtMostOne ==
  ASSUME NEW S \in SUBSET Members, Cardinality(S) <= 1, NEW i \in S
  PROVE  S = {i}
  <1>1. IsFiniteSet(S) /\ IsFiniteSet(S \ {i})
    BY MembersFinite, FS_Subset, FS_RemoveElement
  <1>2. Cardinality(S \ {i}) = Cardinality(S) - 1 /\ Cardinality(S) \in Nat
    BY <1>1, FS_RemoveElement, FS_CardinalityType
  <1>3. Cardinality(S \ {i}) \in Nat
    BY <1>1, FS_CardinalityType
  <1>4. Cardinality(S \ {i}) = 0
    BY <1>2, <1>3
  <1> QED
    BY <1>1, <1>4, FS_EmptySet

LEMMA NextKeepsIntent == TypeOK /\ FlowOK /\ IntentOK /\ [Next]_vars => IntentOK'
  <1> SUFFICES ASSUME TypeOK, FlowOK, IntentOK, [Next]_vars, op'.actor = "supervisor"
               PROVE  IntentOK'
    BY DEF IntentOK
  <1>1. CASE SuperviseStep
    <2> USE BegunInFlow DEF IntentOK, AllWanted, WantsRunning, Tick, fileVars
    <2>1. CASE SuperviseStop
      BY <2>1 DEF SuperviseStop
    <2>2. CASE SuperviseOffline
      BY <2>2 DEF SuperviseOffline
    <2>3. CASE SuperviseRejoin
      <3>1. PICK i \in desired.stopped, t \in Members :
              /\ WantsRunning /\ Unready \ {i} = {t}
              /\ Tick("rejoin", IF vm[t] = "stopped" THEN "deleteEnvelope" ELSE "runEnvelope", t)
        BY <2>3 DEF SuperviseRejoin
      <3>2. desired.stopped = {i}
        BY AtMostOne DEF TypeOK, DesiredStates
      <3> QED
        BY <3>1, <3>2
    <2>4. CASE SuperviseAllReady
      BY <2>4 DEF SuperviseAllReady
    <2>5. CASE SuperviseStartAll
      BY <2>5 DEF SuperviseStartAll
    <2>6. CASE SuperviseStartOne
      BY <2>6 DEF SuperviseStartOne
    <2>7. CASE SuperviseRepair
      BY <2>7 DEF SuperviseRepair
    <2> QED
      BY <1>1, <2>1, <2>2, <2>3, <2>4, <2>5, <2>6, <2>7 DEF SuperviseStep
  <1>2. CASE OperatorStep
    BY <1>2, BegunInFlow DEF OperatorStep, IssueMemberCommand, IssueCreate, IssueStart,
       IssueStop, IssueDelete, IssueKeepDelete, Issue
  <1>3. CASE ~OperatorStep /\ ~SuperviseStep
    <2>1. Continues(op') /\ op.actor = "supervisor"
      BY <1>3, StepContinues DEF Continues
    <2>2. desired' = desired
      BY <2>1, SupervisorStepHonours
    <2> QED
      BY <2>1, <2>2 DEF IntentOK, Continues, AllWanted, WantsRunning
  <1> QED
    BY <1>1, <1>2, <1>3

(* Whatever operators, failures and crashes do meanwhile, no step of the     *)
(* supervisor changes the stored intent, launches a member of a cluster that *)
(* is to be stopped, or launches a member that is to stay offline            *)
(* (reconcileSupervisedHAAfterService).                                      *)
THEOREM SupervisorHonours == Spec => SupervisorHonoursIntent
  <1>1. Init => TypeOK /\ FlowOK /\ IntentOK
    <2>1. Init => IntentOK
      BY DEF Init, Idle, IntentOK
    <2> QED
      BY <2>1, InitTyped, InitInFlow
  <1>2. TypeOK /\ FlowOK /\ IntentOK /\ [Next]_vars => (TypeOK /\ FlowOK /\ IntentOK)'
    BY NextTyped, NextInFlow, NextKeepsIntent
  <1>3. TypeOK /\ FlowOK /\ IntentOK /\ [Next]_vars =>
          [op.actor = "supervisor" =>
             /\ desired' = desired
             /\ \A m \in Members : ~Running(m) /\ Running(m)' =>
                  WantsRunning /\ m \notin desired.stopped]_vars
    BY SupervisorStepHonours
  <1> QED
    BY <1>1, <1>2, <1>3, PTL DEF Spec, SupervisorHonoursIntent

-----------------------------------------------------------------------------
(* OneMemberOut *)

(* With at most one of three or more members out, etcd has its quorum. *)
LEMMA OneOutIsQuorate ==
  ASSUME TypeOK, voters = Members, NEW t \in Members, OthersReady(t)
  PROVE  Quorate
  <1> DEFINE up == voters \cap Alive
             n == Cardinality(up)
  <1>1. IsFiniteSet(Members \ {t}) /\ Cardinality(Members \ {t}) = MemberCount - 1
    BY MembersFinite, FS_RemoveElement
  <1>2. Members \ {t} \subseteq up /\ up \subseteq Members
    BY DEF OthersReady, Unready, Alive
  <1>3. IsFiniteSet(up)
    BY <1>2, MembersFinite, FS_Subset
  <1>4. n >= MemberCount - 1 /\ n \in Nat
    BY <1>1, <1>2, <1>3, FS_Subset, FS_CardinalityType
  <1>5. Quorate <=> 2 * n > MemberCount
    BY MembersFinite DEF Quorate
  <1> HIDE DEF n
  <1> QED
    BY <1>4, <1>5, MemberCountAssumption

(* An operation that continues is one that takes the cluster down only if it *)
(* was one.                                                                  *)
LEMMA DownOnlyAsBefore ==
  ASSUME Continues(op'), op'.flow \in DownFlows, FlowOK'
  PROVE  op'.flow = op.flow
  BY DEF Continues, FlowOK, InFlow, DownFlows

LEMMA HistoryGoesOn == [Next]_vars => (calm' => calm) /\ (outage => outage')
  <1> SUFFICES ASSUME [Next]_vars PROVE (calm' => calm) /\ (outage => outage')
    OBVIOUS
  <1> USE DEF historyVars
  <1>1. CASE MemberStep
    <2>1. UNCHANGED historyVars
      BY <1>1 DEF MemberStep, PersistMemberIntent, RestartCheck, StopCheck, OfflineCheck,
         RepairCheck, StopApply, StopWait, StartCheck, DeleteEnvelope, RunEnvelope, StartWait,
         MemberWait
    <2> QED
      BY <2>1
  <1>2. CASE CreateStep
    BY <1>2 DEF CreateStep, PersistRunning, CreateCheck, SaveConfig, MarkRunning, CreateNetwork,
       CreateVolume, CreateMember, CreateWait
  <1>3. CASE RemoveStep
    BY <1>3 DEF RemoveStep, PersistStopped, ClusterPreflight, ClusterStop, ClusterDelete,
       DeleteVolume, DeleteNetwork, RemoveFile
  <1>4. CASE WaitTimesOut \/ K3sStep \/ UNCHANGED vars \/ \E m \in Members : QuietEnds(m)
    <2>1. UNCHANGED <<calm, outage>>
      BY <1>4 DEF WaitTimesOut, K3sStep, Unattended, vars, QuietEnds
    <2> QED
      BY <2>1
  <1>5. CASE OperatorStep
    <2>1. UNCHANGED calm /\ \E b \in BOOLEAN : outage' = (outage \/ b)
      BY <1>5 DEF OperatorStep, IssueMemberCommand, IssueCreate, IssueStart, IssueStop,
         IssueDelete, IssueKeepDelete, Issue
    <2> QED
      BY <2>1
  <1>6. CASE SuperviseStep
    <2>1. UNCHANGED <<calm, outage>>
      BY <1>6 DEF SuperviseStep, SuperviseStop, SuperviseOffline, SuperviseRejoin,
         SuperviseAllReady, SuperviseStartAll, SuperviseStartOne, SuperviseRepair, Tick
    <2> QED
      BY <2>1
  <1>7. CASE FaultStep
    <2>1. UNCHANGED outage /\ (calm' = calm \/ calm' = FALSE)
      BY <1>7 DEF FaultStep, Lost, StopFails, RunFails, StepFails, VMFails, RollBackVolumes
    <2> QED
      BY <2>1
  <1> QED
    BY <1>1, <1>2, <1>3, <1>4, <1>5, <1>6, <1>7 DEF Next, OperationStep

(* Only a stop or a delete of the cluster stores the intent to be stopped. *)
LEMMA OnlyPersistStops ==
  ASSUME TypeOK, FlowOK, [Next]_vars, WantsRunning, ~WantsRunning'
  PROVE  op.flow \in DownFlows
  <1> USE DEF WantsRunning, fileVars, hostVars
  <1>0. op \in Operations /\ op.pc \in StepsOf[op.flow] /\ desired' # desired
    BY DEF TypeOK, OperationOK, FlowOK, InFlow
  <1>1. CASE MemberStep
    <2>1. CASE PersistMemberIntent
      <3>1. WithMemberIntent(desired, op.target, In({"stopMember"})).cluster = desired.cluster
        BY DEF WithMemberIntent, TypeOK, DesiredStates
      <3> QED
        BY <2>1, <3>1 DEF PersistMemberIntent
    <2> QED
      BY <1>0, <1>1, <2>1 DEF MemberStep, RestartCheck, StopCheck, OfflineCheck,
         RepairCheck, StopApply, StopWait, StartCheck, DeleteEnvelope, RunEnvelope, StartWait, MemberWait
  <1>2. CASE CreateStep
    BY <1>2 DEF CreateStep, PersistRunning, CreateCheck, SaveConfig, MarkRunning, CreateNetwork,
       CreateVolume, CreateMember, CreateWait, MarkedRunning
  <1>3. CASE RemoveStep
    <2>1. op.pc = "persistStopped" => op.flow \in DownFlows
      BY <1>0 DEF StepsOf, Flows, MemberCommands, StartSteps, StopSteps, SetupSteps, Operations,
         DownFlows
    <2> QED
      BY <1>3, <2>1 DEF RemoveStep, PersistStopped, ClusterPreflight, ClusterStop, ClusterDelete,
         DeleteVolume, DeleteNetwork, RemoveFile, At, DefaultDesired
  <1>4. CASE WaitTimesOut \/ K3sStep \/ UNCHANGED vars \/ \E m \in Members : QuietEnds(m)
    BY <1>0, <1>4 DEF WaitTimesOut, K3sStep, Unattended, vars, QuietEnds
  <1>5. CASE OperatorStep
    BY <1>0, <1>5 DEF OperatorStep, IssueMemberCommand, IssueCreate, IssueStart, IssueStop,
       IssueDelete, IssueKeepDelete, Issue
  <1>6. CASE SuperviseStep
    BY <1>0, <1>6 DEF SuperviseStep, SuperviseStop, SuperviseOffline, SuperviseRejoin,
       SuperviseAllReady, SuperviseStartAll, SuperviseStartOne, SuperviseRepair, Tick
  <1>7. CASE FaultStep
    BY <1>0, <1>7 DEF FaultStep, Lost, StopFails, RunFails, StepFails, VMFails, RollBackVolumes
  <1> QED
    BY <1>1, <1>2, <1>3, <1>4, <1>5, <1>6, <1>7 DEF Next, OperationStep

LEMMA OutageKnown ==
  ASSUME TypeOK, FlowOK, QuorumOK, [Next]_vars, FlowOK', ~WantsRunning' \/ op'.flow \in DownFlows
  PROVE  outage'
  <1> USE HistoryGoesOn DEF QuorumOK
  <1>1. CASE ~WantsRunning'
    BY <1>1, OnlyPersistStops
  <1>2. CASE op'.flow \in DownFlows /\ OperatorStep
    <2> USE BegunInFlow DEF Issue, DownFlows, MemberCommands
    <2>1. CASE IssueMemberCommand
      BY <1>2, <2>1 DEF IssueMemberCommand
    <2>2. CASE IssueCreate \/ IssueStart
      BY <1>2, <2>2 DEF IssueCreate, IssueStart
    <2>3. CASE IssueStop \/ IssueDelete \/ IssueKeepDelete
      BY <2>3 DEF IssueStop, IssueDelete, IssueKeepDelete
    <2> QED
      BY <1>2, <2>1, <2>2, <2>3 DEF OperatorStep
  <1>3. CASE op'.flow \in DownFlows /\ SuperviseStep
    <2> USE BegunInFlow DEF Tick, DownFlows
    <2>1. CASE SuperviseStop
      BY <2>1 DEF SuperviseStop, WantsRunning
    <2>2. CASE SuperviseOffline
      BY <1>3, <2>2 DEF SuperviseOffline
    <2>3. CASE SuperviseRejoin
      BY <1>3, <2>3 DEF SuperviseRejoin
    <2>4. CASE SuperviseAllReady
      BY <1>3, <2>4 DEF SuperviseAllReady
    <2>5. CASE SuperviseStartAll \/ SuperviseStartOne \/ SuperviseRepair
      BY <1>3, <2>5 DEF SuperviseStartAll, SuperviseStartOne, SuperviseRepair
    <2> QED
      BY <1>3, <2>1, <2>2, <2>3, <2>4, <2>5 DEF SuperviseStep
  <1>4. CASE op'.flow \in DownFlows /\ ~OperatorStep /\ ~SuperviseStep
    BY <1>4, StepContinues, DownOnlyAsBefore
  <1> QED
    BY <1>1, <1>2, <1>3, <1>4

(* While nothing fails, only the stop of one member takes a member out. *)
LEMMA OnlyStopTakesOut ==
  ASSUME TypeOK, FlowOK, LookOK, QuorumOK, [Next]_vars, calm', ~outage'
  PROVE  /\ voters' = Members
         /\ \A m \in Members : vm[m] = "ready" /\ vm'[m] # "ready" =>
              op.pc = "stopApply" /\ m = op.target
  <1>0. /\ op.pc \in StepsOf[op.flow] /\ op.flow \in Flows /\ vm \in [Members -> VMStates]
        /\ calm /\ voters = Members /\ op.flow \notin DownFlows
    BY HistoryGoesOn DEF TypeOK, RuntimeTypeOK, OperationOK, Operations, FlowOK, InFlow, QuorumOK
  <1> USE <1>0 DEF runtimeVars
  <1>1. CASE UNCHANGED <<vm, voters>>
    BY <1>1
  <1>2. CASE MemberStep
    BY <1>2
    DEF MemberStep, PersistMemberIntent, RestartCheck, StopCheck, OfflineCheck, RepairCheck,
        StopApply, StopWait, StartCheck, DeleteEnvelope, RunEnvelope, StartWait, MemberWait, At,
        Stopped, Deleted, Launched, LookOK, NeverReplacesRunningVM
  <1>3. CASE CreateStep
    BY <1>1, <1>3 DEF CreateStep, PersistRunning, CreateCheck, SaveConfig, MarkRunning,
       CreateNetwork, CreateVolume, CreateMember, CreateWait
  <1>4. CASE RemoveStep
    BY <1>4 DEF RemoveStep, PersistStopped, ClusterPreflight, ClusterStop, ClusterDelete,
       DeleteVolume, DeleteNetwork, RemoveFile, At, StepsOf, Flows, DownFlows, MemberCommands,
       StartSteps, StopSteps, SetupSteps
  <1>5. CASE K3sStep
    <2>1. Quorate
      BY OneOutIsQuorate, HistoryGoesOn DEF QuorumOK
    <2>2. PICK m \in Members : BecomesReady(m)
      BY <1>5, <2>1 DEF K3sStep, LosesQuorum
    <2> QED
      BY <2>2 DEF BecomesReady
  <1>6. CASE FaultStep
    <2>1. CASE Lost \/ RollBackVolumes \/ StepFails
      BY <1>1, <2>1 DEF Lost, RollBackVolumes, StepFails
    <2>2. CASE StopFails
      BY <2>2 DEF StopFails, At, Stopped
    <2>3. CASE RunFails
      BY <2>3 DEF RunFails, At, LookOK, NeverReplacesRunningVM
    <2>4. CASE VMFails
      BY <2>4 DEF VMFails
    <2> QED
      BY <1>6, <2>1, <2>2, <2>3, <2>4 DEF FaultStep
  <1>7. CASE OperatorStep \/ SuperviseStep
    BY <1>1, <1>7 DEF OperatorStep, IssueMemberCommand, IssueCreate, IssueStart, IssueStop,
       IssueDelete, IssueKeepDelete, Issue, SuperviseStep, SuperviseStop, SuperviseOffline,
       SuperviseRejoin, SuperviseAllReady, SuperviseStartAll, SuperviseStartOne, SuperviseRepair, Tick
  <1>8. CASE WaitTimesOut \/ UNCHANGED vars \/ \E k \in Members : QuietEnds(k)
    BY <1>1, <1>8 DEF WaitTimesOut, vars, QuietEnds
  <1> QED
    BY <1>2, <1>3, <1>4, <1>5, <1>6, <1>7, <1>8 DEF Next, OperationStep

(* A member is only stopped after a look at its peers. *)
LEMMA StopsAfterLook ==
  ASSUME TypeOK, FlowOK, [Next]_vars, op'.pc \in {"stopApply", "stopWait"}
  PROVE  /\ op'.target = op.target
         /\ \/ op.pc \in {"stopApply", "stopWait"}
            \/ OthersReady(op.target) /\ vm' = vm
  <1>0. OperationOK(op) /\ op \in Operations /\ op.pc \in StepsOf[op.flow] /\ op.flow \in Flows
    BY DEF TypeOK, OperationOK, Operations, FlowOK, InFlow
  <1> DEFINE Stops(o) == o.pc \in {"stopApply", "stopWait"}
  <1>1. /\ ~Stops(Idle) /\ ~Stops(Recovery) /\ ~Stops(NextMember) /\ ~Stops(Reconciled)
        /\ \A flag \in BOOLEAN : ~Stops(AfterStop(flag)) /\ ~Stops(AfterFailedStop(flag))
        /\ ~Stops(AfterStart) /\ ~Stops(AfterFailedStart)
        /\ op.pc = "runEnvelope" => ~Stops(AfterRun)
        /\ \A step : Goto(step).pc = step
    BY <1>0, ContinuationsSettled DEF Settled
  <1>2. \A step : Goto(step).target = op.target
    BY <1>0 DEF Goto, Operations
  <1>3. CASE op' = op
    BY <1>3
  <1>4. CASE MemberStep
    <2>1. CASE PersistMemberIntent \/ RestartCheck \/ StopWait \/ DeleteEnvelope
      BY <1>1, <2>1 DEF PersistMemberIntent, RestartCheck, StopWait, DeleteEnvelope
    <2>2. CASE StopCheck \/ OfflineCheck
      BY <1>1, <1>2, <2>2 DEF StopCheck, OfflineCheck, MayStop, MayOffline, AllReady, OthersReady,
         runtimeVars
    <2>3. CASE RepairCheck
      BY <1>0, <1>1, <2>3 DEF RepairCheck, MayRepair, runtimeVars, Operations
    <2>4. CASE StopApply
      BY <1>2, <2>4 DEF StopApply, At
    <2>5. CASE StartCheck
      <3>1. \/ op' \in {AfterStart, AfterFailedStart}
            \/ op' \in {Goto("startWait"), Goto("deleteEnvelope"), Goto("runEnvelope")}
        BY <1>0, <2>5 DEF StartCheck, TypeOK, OperationOK, RuntimeTypeOK, VMStates, Running,
           RunningStates, At
      <3> QED
        BY <1>1, <3>1
    <2>6. CASE RunEnvelope
      <3>1. op'.pc = AfterRun.pc /\ op.pc = "runEnvelope"
        BY <1>0, <2>6, ContinuationsInFlow DEF RunEnvelope, At, Operations
      <3> QED
        BY <1>1, <3>1
    <2>7. CASE StartWait \/ MemberWait
      BY <1>1, <2>7 DEF StartWait, MemberWait
    <2> QED
      BY <1>4, <2>1, <2>2, <2>3, <2>4, <2>5, <2>6, <2>7 DEF MemberStep
  <1>5. CASE CreateStep
    <2>1. CASE CreateMember
      <3>1. op.seen[op.target] \in {"missing", "stopped", "running"}
        BY <1>0, <2>1 DEF CreateMember, At, OperationOK, Operations
      <3>2. \/ op' = Reconciled \/ op' \in {Goto("deleteEnvelope"), Goto("runEnvelope")}
            \/ op' = [op EXCEPT !.flow = "migrate", !.pc = "stopCheck"]
        BY <2>1, <3>1 DEF CreateMember
      <3>3. CASE op' = [op EXCEPT !.flow = "migrate", !.pc = "stopCheck"]
        BY <1>0, <3>3 DEF Operations
      <3> QED
        BY <1>1, <3>2, <3>3
    <2>2. CASE CreateVolume
      <3>1. op'.pc \in {"createVolume", "createMember"}
        BY <1>0, <2>2 DEF CreateVolume, At, Operations
      <3> QED
        BY <3>1
    <2>3. CASE CreateCheck \/ CreateNetwork
      BY <1>0, <1>1, <2>3 DEF CreateCheck, CreateNetwork, Operations
    <2> QED
      BY <1>1, <1>5, <2>1, <2>2, <2>3 DEF CreateStep, PersistRunning, SaveConfig, MarkRunning, CreateWait
  <1>6. CASE RemoveStep
    <2>1. PreviousMember.pc \in {"clusterStop", "deleteVolume", "idle"}
      BY <1>0 DEF PreviousMember, Idle, Operations
    <2>2. CASE PersistStopped \/ ClusterStop \/ ClusterDelete
      BY <1>1, <2>1, <2>2 DEF PersistStopped, ClusterStop, ClusterDelete
    <2>3. CASE ClusterPreflight \/ DeleteNetwork
      BY <1>0, <1>1, <2>3 DEF ClusterPreflight, DeleteNetwork, At, Operations
    <2>4. CASE DeleteVolume
      <3> DEFINE next == op.target - 1
      <3>1. op' \in {[op EXCEPT !.target = next], Goto("deleteNetwork")} /\ op.pc = "deleteVolume"
        BY <2>4 DEF DeleteVolume, At
      <3> HIDE DEF next
      <3> QED
        BY <1>0, <1>1, <3>1 DEF Operations
    <2>5. CASE RemoveFile
      BY <1>0, <1>1, <2>5 DEF RemoveFile, At, Operations
    <2> QED
      BY <1>6, <2>2, <2>3, <2>4, <2>5 DEF RemoveStep
  <1>7. CASE FaultStep \/ WaitTimesOut
    BY <1>1, <1>3, <1>7 DEF FaultStep, Lost, StopFails, RunFails, StepFails, VMFails,
       RollBackVolumes, WaitTimesOut
  <1>8. CASE OperatorStep
    BY <1>8, BegunInFlow DEF OperatorStep, IssueMemberCommand, IssueCreate, IssueStart,
       IssueStop, IssueDelete, IssueKeepDelete, Issue
  <1>9. CASE SuperviseStep
    <2>1. CASE SuperviseRejoin
      <3>1. PICK step \in {"deleteEnvelope", "runEnvelope"}, t \in Members : Tick("rejoin", step, t)
        BY <2>1 DEF SuperviseRejoin
      <3>2. op'.pc = step
        BY <3>1, BegunInFlow DEF Tick
      <3> QED
        BY <3>2
    <2> QED
      BY <1>3, <1>9, <2>1, BegunInFlow DEF SuperviseStep, SuperviseStop, SuperviseOffline,
         SuperviseAllReady, SuperviseStartAll, SuperviseStartOne, SuperviseRepair, Tick
  <1>10. CASE K3sStep \/ UNCHANGED vars \/ \E k \in Members : QuietEnds(k)
    BY <1>3, <1>10 DEF K3sStep, Unattended, vars, QuietEnds
  <1> QED
    BY <1>4, <1>5, <1>6, <1>7, <1>8, <1>9, <1>10 DEF Next, OperationStep

LEMMA NextKeepsQuorum ==
  TypeOK /\ FlowOK /\ LookOK /\ QuorumOK /\ [Next]_vars => QuorumOK'
  <1> SUFFICES ASSUME TypeOK, FlowOK, LookOK, QuorumOK, [Next]_vars PROVE QuorumOK'
    OBVIOUS
  <1>1. ~WantsRunning' \/ op'.flow \in DownFlows => outage'
    BY OutageKnown, NextInFlow
  <1>2. ASSUME calm', ~outage'
        PROVE  /\ voters' = Members
               /\ \E t \in Members : OthersReady(t)'
               /\ op'.pc \in {"stopApply", "stopWait"} => Unready' \subseteq {op'.target}
    <2>0. op.pc \in {"stopApply", "stopWait"} => op.target \in Members
      BY DEF TypeOK, OperationOK
    <2>1. /\ \E t \in Members : Unready \subseteq {t}
          /\ op.pc \in {"stopApply", "stopWait"} => Unready \subseteq {op.target}
      BY <1>2, HistoryGoesOn DEF QuorumOK, OthersReady
    <2>2. \A m \in Unready' : m \in Unready \/ (op.pc = "stopApply" /\ m = op.target)
      BY <1>2, OnlyStopTakesOut DEF Unready
    <2>3. \E t \in Members : Unready' \subseteq {t}
      BY <2>0, <2>1, <2>2
    <2>4. ASSUME op'.pc \in {"stopApply", "stopWait"} PROVE Unready' \subseteq {op'.target}
      <3>1. op'.target = op.target
        BY <2>4, StopsAfterLook
      <3>2. CASE op.pc \in {"stopApply", "stopWait"}
        BY <2>1, <2>2, <3>1, <3>2
      <3>3. CASE OthersReady(op.target) /\ vm' = vm
        BY <3>1, <3>3 DEF OthersReady, Unready
      <3> QED
        BY <2>4, <3>2, <3>3, StopsAfterLook
    <2> QED
      BY <1>2, <2>3, <2>4, OnlyStopTakesOut DEF OthersReady
  <1> QED
    BY <1>1, <1>2 DEF QuorumOK, OthersReady

(* Maintenance keeps quorum: as long as no VM has failed and nobody has      *)
(* asked for a whole-cluster stop or delete, at most one member is not       *)
(* Ready, whatever members are stopped, started, restarted or migrated,      *)
(* however commands fail and wherever processes die (ha_members.go:11).      *)
THEOREM QuorumKept == Spec => []OneMemberOut
  <1>1. Init => TypeOK /\ FlowOK /\ LookOK /\ QuorumOK
    <2>1. Init => LookOK
      BY NothingPending DEF Init, Idle, LookOK, StillAsSeen, NeverReplacesRunningVM, At
    <2>2. Init => QuorumOK
      <3>1. 1 \in Members
        BY MemberCountAssumption DEF Members
      <3> QED
        BY <3>1 DEF Init, Idle, QuorumOK, WantsRunning, DefaultDesired, DownFlows, OthersReady,
           Unready
    <2> QED
      BY <2>1, <2>2, InitTyped, InitInFlow
  <1>2. TypeOK /\ FlowOK /\ LookOK /\ QuorumOK /\ [Next]_vars
          => (TypeOK /\ FlowOK /\ LookOK /\ QuorumOK)'
    BY NextTyped, NextInFlow, NextLooks, NextKeepsQuorum
  <1>3. QuorumOK => OneMemberOut
    BY DEF QuorumOK, OneMemberOut
  <1> QED
    BY <1>1, <1>2, <1>3, PTL DEF Spec

-----------------------------------------------------------------------------
(* DataWhole, StillDeletable *)

Gone        == \A m \in Members : vm[m] = "missing"
Provisioned == network /\ volumes = Members /\ "token" \in files

(* An operation that goes from member to member after all volumes are made.  *)
Building(o) ==
  /\ o.flow \in {"createHA", "migrate"}
  /\ o.pc \in MemberSteps \cup {"createMember", "createWait"}

(* What operation o may take for granted when it creates ... *)
HasData(o) ==
  /\ o.pc \in SetupSteps => "token" \in files /\ IF o.fresh THEN Gone ELSE volumes = Members
  /\ o.pc \in SetupSteps \ {"createVolume"} /\ o.fresh => volumes = {}
  /\ o.pc = "createVolume" => o.fresh /\ network /\ 1..(o.target - 1) \subseteq volumes
  /\ o.pc \in {"deleteEnvelope", "runEnvelope"} \/ Building(o) => Provisioned

(* ... and what it has removed when it deletes. *)
HasRemoved(o) ==
  /\ o.flow = "deleteHA" /\ o.pc \in {"clusterStop", "clusterDelete"} =>
       \A m \in Members : m > o.target => vm[m] = "missing"
  /\ o.pc \in {"deleteVolume", "deleteNetwork", "removeFile"} => Gone
  /\ o.pc = "deleteVolume" => volumes \subseteq 1..o.target
  /\ o.pc \in {"deleteNetwork", "removeFile"} => volumes = {}
  /\ o.pc = "removeFile" =>
       /\ ~network
       /\ o.target > 2 => journalSafe
       /\ o.target > 3 => desired = DefaultDesired

(* Every operation but a create that has not saved it yet finds the config.  *)
HoldsConfig(o) == o.pc \notin {"idle", "createCheck", "saveConfig"} => "config" \in files

DataOK ==
  /\ EnvelopesHaveData /\ StillDeletable
  /\ HoldsConfig(op) /\ HasData(op) /\ HasRemoved(op)

(* Three members: besides the one that may be absent there is an envelope.   *)
LEMMA TopologyProvisioned ==
  ASSUME EnvelopesHaveData, NEW t \in Members, Topology({t})
  PROVE  Provisioned
  <1>1. PICK m \in Members : m # t
    <2>1. 1 \in Members /\ 2 \in Members
      BY MemberCountAssumption DEF Members
    <2> QED
      BY <2>1
  <1> QED
    BY <1>1 DEF Topology, EnvelopesHaveData, Provisioned

(* A step that leaves all data, and the envelopes it finds. *)
EnvelopesStay == \A m \in Members : vm'[m] = "missing" <=> vm[m] = "missing"

LEMMA DataStays ==
  ASSUME DataOK, EnvelopesStay, op' \in {op, Idle},
         UNCHANGED <<volumes, network, files, journalSafe, desired>>
  PROVE  DataOK'
  <1> USE DEF DataOK
  <1>1. (EnvelopesHaveData /\ StillDeletable)' /\ (Gone <=> Gone')
    BY DEF EnvelopesHaveData, StillDeletable, EnvelopesStay, Gone
  <1>2. CASE op' = op
    <2>1. HoldsConfig(op)'
      BY <1>2 DEF HoldsConfig
    <2>2. HasData(op)'
      BY <1>1, <1>2 DEF HasData, Provisioned, Building
    <2>3. HasRemoved(op)'
      BY <1>1, <1>2 DEF HasRemoved, EnvelopesStay
    <2> QED
      BY <1>1, <2>1, <2>2, <2>3
  <1>3. CASE op' = Idle
    <2>1. op'.pc = "idle" /\ op'.flow = "none"
      BY <1>3 DEF Idle
    <2> QED
      BY <1>1, <2>1 DEF HoldsConfig, HasData, HasRemoved, Building, SetupSteps, MemberSteps
  <1> QED
    BY <1>2, <1>3

(* A step of an operation on one member. *)
LEMMA MemberDataStays ==
  ASSUME DataOK, FlowOK, FlowOK', Continues(op'),
         op.pc \in MemberSteps \cup {"createMember", "createWait"},
         op'.pc \in MemberSteps \cup {"createMember", "createWait", "idle"},
         op'.pc \in {"deleteEnvelope", "runEnvelope"} => Provisioned,
         \A m \in Members : vm'[m] # "missing" => vm[m] # "missing" \/ Provisioned,
         UNCHANGED <<volumes, network, files>>
  PROVE  DataOK'
  <1>1. "config" \in files'
    BY DEF DataOK, HoldsConfig, MemberSteps
  <1>2. Provisioned' <=> Provisioned
    BY DEF Provisioned
  <1>3. EnvelopesHaveData'
    BY DEF DataOK, EnvelopesHaveData, Provisioned
  <1>4. Building(op)' => Provisioned
    <2>1. ASSUME Building(op)' PROVE op.flow \in {"createHA", "migrate"}
      <3>1. op'.flow \in {"createHA", "migrate"} /\ op'.pc # "idle"
        BY <2>1 DEF Building, MemberSteps
      <3>2. op'.actor # "none"
        BY <3>1 DEF FlowOK, InFlow
      <3> QED
        BY <3>1, <3>2 DEF Continues
    <2> QED
      BY <2>1 DEF DataOK, HasData, Building
  <1>5. HasData(op)' /\ HasRemoved(op)'
    BY <1>2, <1>4 DEF HasData, HasRemoved, SetupSteps, MemberSteps
  <1> QED
    BY <1>1, <1>3, <1>5 DEF DataOK, StillDeletable, HoldsConfig

(* Where the steps on one member lead. *)
LEMMA MemberGoes ==
  ASSUME OperationOK(op), FlowOK
  PROVE  /\ Idle.pc = "idle" /\ Recovery.pc = "startCheck"
         /\ \A step : Goto(step).pc = step
         /\ NextMember.pc \in {"createMember", "createWait"}
         /\ Reconciled.pc \in {"memberWait", "createMember", "createWait"}
         /\ AfterStart.pc \in {"idle", "memberWait", "createMember", "createWait"}
         /\ AfterFailedStart.pc \in {"idle", "startCheck"}
         /\ \A flag \in BOOLEAN : /\ AfterStop(flag).pc \in {"idle", "startCheck"}
                                  /\ AfterFailedStop(flag).pc \in {"idle", "startCheck"}
         /\ AfterRun.pc \in {"memberWait", "createMember", "createWait", "startWait"}
  <1> USE DEF OperationOK, Operations
  <1>1. Idle.pc = "idle" /\ Recovery.pc = "startCheck"
    BY DEF Idle, Recovery
  <1>2. \A step : Goto(step).pc = step
    BY DEF Goto
  <1>3. NextMember.pc \in {"createMember", "createWait"}
    BY DEF NextMember
  <1>4. Reconciled.pc \in {"memberWait", "createMember", "createWait"}
    BY <1>2, <1>3 DEF Reconciled
  <1>5. AfterStart.pc \in {"idle", "memberWait", "createMember", "createWait"}
    BY <1>1, <1>4 DEF AfterStart
  <1>6. AfterFailedStart.pc \in {"idle", "startCheck"}
    BY <1>1 DEF AfterFailedStart
  <1>7. ASSUME NEW flag \in BOOLEAN
        PROVE  AfterStop(flag).pc \in {"idle", "startCheck"} /\ AfterFailedStop(flag).pc \in {"idle", "startCheck"}
    BY <1>1 DEF AfterStop, AfterFailedStop
  <1>8. AfterRun.pc \in {"memberWait", "createMember", "createWait", "startWait"}
    BY <1>2, <1>4 DEF AfterRun
  <1> QED
    BY <1>1, <1>2, <1>3, <1>4, <1>5, <1>6, <1>7, <1>8

LEMMA MemberStepKeepsData == TypeOK /\ FlowOK /\ DataOK /\ MemberStep => DataOK'
  <1> SUFFICES ASSUME TypeOK, FlowOK, DataOK, MemberStep PROVE DataOK'
    OBVIOUS
  <1>1. OperationOK(op) /\ vm \in [Members -> VMStates]
    BY DEF TypeOK, RuntimeTypeOK
  <1>2. op.pc \in MemberSteps /\ op.target \in Members
    BY <1>1 DEF MemberStep, PersistMemberIntent, RestartCheck, StopCheck, OfflineCheck, RepairCheck,
       StopApply, StopWait, StartCheck, DeleteEnvelope, RunEnvelope, StartWait, MemberWait, At,
       MemberSteps, OperationOK
  <1>3. FlowOK' /\ Continues(op')
    BY MemberStepInFlow, MemberStepContinues
  <1> DEFINE Next1 == MemberSteps \cup {"createMember", "createWait", "idle"}
  <1>4. SUFFICES /\ op'.pc \in Next1
                 /\ op'.pc \in {"deleteEnvelope", "runEnvelope"} => Provisioned
                 /\ \A m \in Members : vm'[m] # "missing" => vm[m] # "missing" \/ Provisioned
                 /\ UNCHANGED <<volumes, network, files>>
    BY <1>2, <1>3, MemberDataStays
  <1>0. /\ Idle.pc = "idle" /\ \A step : Goto(step).pc = step
        /\ {AfterStart.pc, AfterFailedStart.pc, AfterStop(TRUE).pc, AfterStop(FALSE).pc,
            AfterFailedStop(FALSE).pc, AfterRun.pc, NextMember.pc}
             \subseteq {"idle", "startCheck", "memberWait", "createMember", "createWait", "startWait"}
    BY <1>1, MemberGoes
  <1> USE <1>0, <1>1 DEF MemberSteps
  <1>5. CASE PersistMemberIntent \/ RestartCheck \/ StopCheck \/ OfflineCheck
    <2>1. UNCHANGED <<vm, volumes, network, files>>
      BY <1>5 DEF PersistMemberIntent, RestartCheck, StopCheck, OfflineCheck, runtimeVars, hostVars,
         fileVars
    <2>2. CASE PersistMemberIntent
      <3>1. op' = Idle \/ \E step \in {"stopCheck", "startCheck", "restartCheck"} : op' = Goto(step)
        BY <2>2 DEF PersistMemberIntent
      <3> QED
        BY <2>1, <3>1
    <2>3. CASE StopCheck
      <3>1. op' \in {Goto("stopApply"), AfterStop(FALSE), AfterFailedStop(FALSE)}
        BY <2>3 DEF StopCheck
      <3> QED
        BY <2>1, <3>1
    <2> QED
      BY <1>5, <2>1, <2>2, <2>3 DEF RestartCheck, OfflineCheck
  <1>6. CASE RepairCheck
    <2>1. op'.pc \in {"stopApply", "idle"}
      BY <1>6 DEF RepairCheck, OperationOK, Operations
    <2> QED
      BY <1>6, <2>1 DEF RepairCheck, runtimeVars, fileVars
  <1>7. CASE StopApply
    BY <1>7 DEF StopApply, Stopped, Running, RunningStates, hostVars, fileVars
  <1>8. CASE StopWait \/ StartWait \/ MemberWait
    BY <1>8 DEF StopWait, StartWait, MemberWait, runtimeVars, hostVars, fileVars
  <1>9. CASE StartCheck
    <2>1. op'.pc \in Next1 /\ UNCHANGED <<vm, volumes, network, files>>
      <3>1. \/ op' \in {AfterStart, AfterFailedStart}
            \/ \E step \in {"startWait", "deleteEnvelope", "runEnvelope"} : op' = Goto(step)
        BY <1>2, <1>9 DEF StartCheck, Running, RunningStates, VMStates
      <3> QED
        BY <1>9, <3>1 DEF StartCheck, runtimeVars, fileVars
    <2>2. op'.pc \in {"deleteEnvelope", "runEnvelope"} => Topology({op.target})
      BY <1>9 DEF StartCheck
    <2> QED
      BY <1>2, <2>1, <2>2, TopologyProvisioned DEF DataOK
  <1>10. CASE DeleteEnvelope
    BY <1>10 DEF DeleteEnvelope, Deleted, DataOK, HasData, At, hostVars, fileVars
  <1>11. CASE RunEnvelope
    BY <1>11 DEF RunEnvelope, Launched, DataOK, HasData, At, hostVars, fileVars
  <1> QED
    BY <1>5, <1>6, <1>7, <1>8, <1>9, <1>10, <1>11 DEF MemberStep

LEMMA OnlyIdleBegins == OperatorStep \/ SuperviseStep => op.pc = "idle"
  <1>1. OperatorStep => op = Idle
    BY DEF OperatorStep, IssueMemberCommand, IssueCreate, IssueStart, IssueStop, IssueDelete,
       IssueKeepDelete, Issue
  <1>2. SuperviseStep => op = Idle
    BY DEF SuperviseStep, SuperviseStop, SuperviseOffline, SuperviseRejoin, SuperviseAllReady,
       SuperviseStartAll, SuperviseStartOne, SuperviseRepair, Tick, Ticks
  <1>3. Idle.pc = "idle"
    BY DEF Idle
  <1> QED
    BY <1>1, <1>2, <1>3

(* A step of a creation. *)
LEMMA CreateStepKeepsData == TypeOK /\ FlowOK /\ DataOK /\ CreateStep => DataOK'
  <1> SUFFICES ASSUME TypeOK, FlowOK, DataOK, CreateStep PROVE DataOK'
    OBVIOUS
  <1>1. OperationOK(op) /\ volumes \subseteq Members /\ op \in Operations
    BY DEF TypeOK, RuntimeTypeOK, OperationOK
  <1>2. EnvelopesHaveData /\ StillDeletable /\ HoldsConfig(op) /\ HasData(op)
    BY DEF DataOK
  <1> USE <1>1 DEF Operations
  <1>3. CASE PersistRunning
    <2>1. op'.pc = "createCheck" /\ UNCHANGED <<vm, volumes, network, files, journalSafe>>
      BY <1>3 DEF PersistRunning, Goto, runtimeVars
    <2>2. "config" \in files'
      BY <1>2, <1>3, <2>1 DEF PersistRunning, At, HoldsConfig
    <2> QED
      BY <1>2, <2>1, <2>2 DEF DataOK, EnvelopesHaveData, StillDeletable, HoldsConfig, HasData,
         HasRemoved, Building, SetupSteps, MemberSteps
  <1>4. CASE CreateCheck
    <2>1. CASE MayCreate
      <3>1. /\ op'.pc = "saveConfig" /\ op'.fresh = (volumes = {})
            /\ files' = files \cup {"token"}
            /\ UNCHANGED <<vm, volumes, network, journalSafe, desired>>
        BY <1>4, <2>1 DEF CreateCheck, runtimeVars
      <3>2. volumes # {} => volumes = Members
        BY <2>1 DEF MayCreate
      <3>3. volumes = {} => Gone
        BY <1>2 DEF EnvelopesHaveData, Gone
      <3>4. EnvelopesHaveData' /\ StillDeletable'
        BY <1>2, <3>1 DEF EnvelopesHaveData, StillDeletable
      <3>5. HasData(op)'
        BY <3>1, <3>2, <3>3 DEF HasData, Gone, Building, MemberSteps
      <3> QED
        BY <3>1, <3>4, <3>5 DEF DataOK, HoldsConfig, HasRemoved
    <2>2. CASE ~MayCreate
      <3>1. EnvelopesStay /\ op' = Idle /\ UNCHANGED <<volumes, network, files, journalSafe, desired>>
        BY <1>4, <2>2 DEF CreateCheck, runtimeVars, EnvelopesStay
      <3> QED
        BY <3>1, DataStays
    <2> QED
      BY <2>1, <2>2
  <1>5. CASE SaveConfig \/ MarkRunning
    <2>1. /\ op.pc \in SetupSteps \ {"createVolume"} /\ op'.pc \in {"markRunning", "createNetwork"}
          /\ op'.fresh = op.fresh /\ "config" \in files' /\ files \subseteq files'
          /\ UNCHANGED <<vm, volumes, network>>
      BY <1>2, <1>5 DEF SaveConfig, MarkRunning, Goto, At, HoldsConfig, runtimeVars, SetupSteps
    <2>2. EnvelopesHaveData' /\ StillDeletable'
      BY <1>2, <2>1 DEF EnvelopesHaveData, StillDeletable
    <2>3. HasData(op)'
      BY <1>2, <2>1 DEF HasData, Gone, Building, MemberSteps
    <2> QED
      BY <2>1, <2>2, <2>3 DEF DataOK, HoldsConfig, HasRemoved
  <1>6. CASE CreateNetwork
    <2>0. /\ op.pc = "createNetwork"
          /\ op'.pc = IF volumes = Members THEN "createMember" ELSE "createVolume"
      BY <1>6 DEF CreateNetwork, At
    <2>1. /\ op.pc = "createNetwork" /\ op'.pc = IF op.fresh THEN "createVolume" ELSE "createMember"
          /\ op'.fresh = op.fresh /\ op'.target = 1 /\ network'
          /\ UNCHANGED <<vm, volumes, files>>
      <3>1. IF op.fresh THEN volumes = {} ELSE volumes = Members
        BY <1>2, <2>0 DEF HasData, SetupSteps
      <3>2. volumes = {} => volumes # Members
        BY MemberCountAssumption DEF Members
      <3> QED
        BY <1>6, <2>0, <3>1, <3>2 DEF CreateNetwork, hostVars, fileVars
    <2>2. "config" \in files /\ "token" \in files /\ (op.fresh => Gone) /\ (~op.fresh => volumes = Members)
      BY <1>2, <2>1 DEF HoldsConfig, HasData, SetupSteps
    <2>3. EnvelopesHaveData' /\ StillDeletable'
      BY <1>2, <2>1, <2>2 DEF EnvelopesHaveData, StillDeletable
    <2>4. HasData(op)'
      BY <2>1, <2>2 DEF HasData, Gone, Building, MemberSteps, SetupSteps, Provisioned
    <2> QED
      BY <2>1, <2>2, <2>3, <2>4 DEF DataOK, HoldsConfig, HasRemoved
  <1>7. CASE CreateVolume
    <2>1. /\ op.pc = "createVolume" /\ op.fresh /\ op'.fresh /\ volumes' = volumes \cup {op.target}
          /\ op.target \in Members /\ UNCHANGED <<vm, network, files>>
      BY <1>2, <1>7 DEF CreateVolume, At, HasData, hostVars, fileVars, OperationOK
    <2>2. /\ "config" \in files /\ "token" \in files /\ Gone /\ network
          /\ 1..(op.target - 1) \subseteq volumes
      BY <1>2, <2>1 DEF HoldsConfig, HasData, SetupSteps
    <2>3. EnvelopesHaveData' /\ StillDeletable' /\ Gone'
      <3> HIDE DEF Operations
      <3>1. Gone' /\ "config" \in files'
        BY <2>1, <2>2 DEF Gone
      <3> QED
        BY <3>1 DEF EnvelopesHaveData, StillDeletable, Gone
    <2>4. CASE op.target = MemberCount
      <3>1. op'.pc = "createMember" /\ volumes' = Members
        BY <1>7, <2>1, <2>2, <2>4, MemberCountAssumption DEF CreateVolume, Members
      <3> QED
        BY <2>1, <2>2, <2>3, <3>1
        DEF DataOK, HoldsConfig, HasData, HasRemoved, Building, SetupSteps, Provisioned
    <2>5. CASE op.target # MemberCount
      <3>1. op'.pc = "createVolume" /\ op'.target = op.target + 1
        BY <1>7, <2>1, <2>5 DEF CreateVolume
      <3>2. 1..(op'.target - 1) \subseteq volumes'
        BY <2>1, <2>2, <3>1, MemberCountAssumption DEF Members
      <3> QED
        BY <2>1, <2>2, <2>3, <3>1, <3>2
        DEF DataOK, HoldsConfig, HasData, HasRemoved, Building, SetupSteps, MemberSteps
    <2> QED
      BY <2>4, <2>5
  <1>8. CASE CreateMember \/ CreateWait
    <2>1. /\ op.pc \in {"createMember", "createWait"}
          /\ UNCHANGED <<vm, volumes, network, files>>
      BY <1>8 DEF CreateMember, CreateWait, At, runtimeVars, hostVars, fileVars
    <2>2. FlowOK' /\ Continues(op')
      BY <2>1, CreateStepInFlow, StepContinues, OnlyIdleBegins DEF Next, OperationStep
    <2>3. op.flow = "createHA"
      BY <2>1 DEF FlowOK, InFlow, StepsOf, Flows, MemberCommands, StartSteps, StopSteps, SetupSteps
    <2>4. Provisioned
      BY <1>2, <2>1, <2>3 DEF HasData, Building
    <2>5. op'.pc \in MemberSteps \cup {"createMember", "createWait", "idle"}
      <3>1. CASE CreateWait
        BY <3>1 DEF CreateWait, Idle
      <3>2. CASE CreateMember
        <4>1. op.seen[op.target] \in {"missing", "stopped", "running"}
          BY <2>1 DEF OperationOK
        <4>2. \/ op' = Reconciled \/ op' \in {Goto("deleteEnvelope"), Goto("runEnvelope")}
              \/ op' = [op EXCEPT !.flow = "migrate", !.pc = "stopCheck"]
          BY <3>2, <4>1 DEF CreateMember
        <4>3. Reconciled.pc \in {"memberWait", "createMember", "createWait"}
          BY MemberGoes
        <4> QED
          BY <4>2, <4>3 DEF MemberSteps, Goto
      <3> QED
        BY <1>8, <3>1, <3>2
    <2> QED
      BY <2>1, <2>2, <2>4, <2>5, MemberDataStays
  <1> QED
    BY <1>3, <1>4, <1>5, <1>6, <1>7, <1>8 DEF CreateStep

(* A step of a stop or a deletion. *)
LEMMA RemoveStepKeepsData == TypeOK /\ FlowOK /\ LookOK /\ DataOK /\ RemoveStep => DataOK'
  <1> SUFFICES ASSUME TypeOK, FlowOK, LookOK, DataOK, RemoveStep PROVE DataOK'
    OBVIOUS
  <1>1. /\ op \in Operations /\ op.pc \in StepsOf[op.flow] /\ vm \in [Members -> VMStates]
        /\ volumes \subseteq Members /\ OperationOK(op)
    BY DEF TypeOK, RuntimeTypeOK, OperationOK, FlowOK, InFlow
  <1>2. EnvelopesHaveData /\ StillDeletable /\ HoldsConfig(op) /\ HasRemoved(op)
    BY DEF DataOK
  <1>3. "config" \in files
    BY <1>2 DEF HoldsConfig, RemoveStep, PersistStopped, ClusterPreflight, ClusterStop,
       ClusterDelete, DeleteVolume, DeleteNetwork, RemoveFile, At
  <1>4. ASSUME NEW pc, pc \in {"clusterPreflight", "clusterStop", "clusterDelete",
                               "deleteVolume", "deleteNetwork", "removeFile"}, op'.pc = pc
        PROVE  HasData(op)'
    BY <1>4 DEF HasData, Building, SetupSteps, MemberSteps
  <1>5. ASSUME op' = Idle PROVE HasData(op)' /\ HasRemoved(op)' /\ HoldsConfig(op)'
    BY <1>5 DEF HasData, HasRemoved, HoldsConfig, Idle, Building, SetupSteps, MemberSteps
  <1>6. CASE PersistStopped \/ ClusterPreflight
    <2>1. /\ UNCHANGED <<vm, volumes, network, files>> /\ op'.pc \in {"clusterPreflight", "clusterStop"}
          /\ op'.pc = "clusterStop" => op'.target = MemberCount
      BY <1>1, <1>6 DEF PersistStopped, ClusterPreflight, Goto, runtimeVars, hostVars, fileVars,
         Operations
    <2>2. EnvelopesHaveData' /\ StillDeletable' /\ HoldsConfig(op)'
      BY <1>2, <1>3, <2>1 DEF EnvelopesHaveData, StillDeletable, HoldsConfig
    <2>3. HasRemoved(op)'
      BY <2>1, MemberCountAssumption DEF HasRemoved, Members
    <2> QED
      BY <1>4, <2>1, <2>2, <2>3 DEF DataOK
  <1>7. CASE ClusterStop \/ ClusterDelete
    <2>1. /\ op.pc \in {"clusterStop", "clusterDelete"} /\ op.target \in Members
          /\ UNCHANGED <<volumes, network, files>>
      BY <1>1, <1>7 DEF ClusterStop, ClusterDelete, At, hostVars, fileVars, OperationOK
    <2>2. \A m \in Members : vm'[m] # "missing" => vm[m] # "missing"
      BY <1>1, <1>7 DEF ClusterStop, ClusterDelete, Stopped, Deleted, Running, RunningStates
    <2>3. EnvelopesHaveData' /\ StillDeletable'
      BY <1>2, <1>3, <2>1, <2>2 DEF EnvelopesHaveData, StillDeletable
    <2>4. op.flow = "deleteHA" => \A m \in Members : m > op.target => vm'[m] = "missing"
      BY <1>2, <2>1, <2>2 DEF HasRemoved
    <2>5. ASSUME op' = PreviousMember, op.flow = "deleteHA" => vm'[op.target] = "missing"
          PROVE  DataOK'
      <3>1. CASE op.target > 1
        <4>1. op'.pc = "clusterStop" /\ op'.target = op.target - 1 /\ op'.flow = op.flow
          BY <1>1, <2>5, <3>1 DEF PreviousMember, Operations
        <4>2. op.flow = "deleteHA" => \A m \in Members : m > op'.target => vm'[m] = "missing"
          BY <2>1, <2>4, <2>5, <4>1, MemberCountAssumption DEF Members
        <4>3. HasRemoved(op)' /\ HoldsConfig(op)'
          BY <1>3, <2>1, <4>1, <4>2 DEF HasRemoved, HoldsConfig
        <4> QED
          BY <1>4, <2>3, <4>1, <4>3 DEF DataOK
      <3>2. CASE op.target = 1 /\ op.flow = "deleteHA"
        <4>1. op'.pc = "deleteVolume" /\ op'.target = MemberCount
          <5>1. PreviousMember = [op EXCEPT !.pc = "deleteVolume", !.target = MemberCount]
            BY <3>2 DEF PreviousMember, In
          <5> QED
            BY <1>1, <2>5, <5>1 DEF Operations
        <4>2. Gone'
          BY <2>4, <2>5, <3>2, MemberCountAssumption DEF Gone, Members
        <4>3. HasRemoved(op)' /\ HoldsConfig(op)'
          BY <1>1, <1>3, <2>1, <4>1, <4>2 DEF HasRemoved, HoldsConfig, Members
        <4> QED
          BY <1>4, <2>3, <4>1, <4>3 DEF DataOK
      <3>3. CASE op.target = 1 /\ op.flow # "deleteHA"
        <4>1. op' = Idle
          BY <2>5, <3>3 DEF PreviousMember, In
        <4> QED
          BY <1>5, <2>3, <4>1 DEF DataOK
      <3> QED
        BY <2>1, <3>1, <3>2, <3>3, MemberCountAssumption DEF Members
    <2>6. CASE ClusterStop
      <3>1. CASE op.seen[op.target] = "missing" \/ In({"stopHA"})
        <4>1. op.seen[op.target] = "missing" => vm[op.target] = "missing"
          <5>1. op.target \in PendingOf(op)
            BY <2>1, <2>6, MemberCountAssumption
            DEF ClusterStop, At, PendingOf, SetupSteps, MemberSteps, Members
          <5> QED
            BY <5>1 DEF LookOK, StillAsSeen
        <4>2. op' = PreviousMember
          BY <2>6, <3>1 DEF ClusterStop
        <4> QED
          BY <2>1, <2>2, <2>5, <3>1, <4>1, <4>2 DEF In
      <3>2. CASE ~(op.seen[op.target] = "missing" \/ In({"stopHA"}))
        <4>1. op'.pc = "clusterDelete" /\ op'.target = op.target /\ op'.flow = op.flow
          BY <1>1, <2>6, <3>2 DEF ClusterStop, Goto, Operations
        <4>2. HasRemoved(op)' /\ HoldsConfig(op)'
          BY <1>3, <2>1, <2>4, <4>1 DEF HasRemoved, HoldsConfig
        <4> QED
          BY <1>4, <2>3, <4>1, <4>2 DEF DataOK
      <3> QED
        BY <3>1, <3>2
    <2>7. CASE ClusterDelete
      BY <1>1, <2>1, <2>5, <2>7 DEF ClusterDelete, Deleted
    <2> QED
      BY <1>7, <2>6, <2>7
  <1>8. CASE DeleteVolume
    <2>1. /\ op.pc = "deleteVolume" /\ op.target \in Members /\ volumes' = volumes \ {op.target}
          /\ UNCHANGED <<vm, network, files>>
      BY <1>1, <1>8 DEF DeleteVolume, At, hostVars, fileVars, OperationOK
    <2>2. Gone /\ volumes \subseteq 1..op.target
      BY <1>2, <2>1 DEF HasRemoved
    <2>3. EnvelopesHaveData' /\ StillDeletable' /\ Gone'
      BY <1>3, <2>1, <2>2 DEF EnvelopesHaveData, StillDeletable, Gone
    <2>4. \/ op'.pc = "deleteVolume" /\ op'.target = op.target - 1 /\ op.target > 1
          \/ op'.pc = "deleteNetwork" /\ op.target = 1
      BY <1>1, <1>8, <2>1, MemberCountAssumption DEF DeleteVolume, Goto, Operations, Members
    <2>5. HasRemoved(op)' /\ HoldsConfig(op)'
      <3>1. CASE op.target > 1
        <4>1. op'.pc = "deleteVolume" /\ op'.target = op.target - 1
          BY <2>4, <3>1
        <4>2. volumes' \subseteq 1..op'.target
          <5>1. ASSUME NEW v \in volumes' PROVE v \in 1..(op.target - 1)
            <6>1. v \in 1..op.target /\ v # op.target /\ op.target \in Nat
              BY <2>1, <2>2, <5>1, MemberCountAssumption DEF Members
            <6> QED
              BY <6>1
          <5> QED
            BY <4>1, <5>1
        <4> QED
          BY <1>3, <2>1, <2>3, <4>1, <4>2 DEF HasRemoved, HoldsConfig
      <3>2. CASE op.target = 1
        <4>1. op'.pc = "deleteNetwork" /\ volumes' = {}
          BY <2>1, <2>2, <2>4, <3>2
        <4> QED
          BY <1>3, <2>1, <2>3, <4>1 DEF HasRemoved, HoldsConfig
      <3> QED
        BY <2>4, <3>1, <3>2
    <2> QED
      BY <1>4, <2>3, <2>4, <2>5 DEF DataOK
  <1>9. CASE DeleteNetwork
    <2>1. /\ op.pc = "deleteNetwork" /\ op'.pc = "removeFile" /\ op'.target = 1 /\ ~network'
          /\ UNCHANGED <<vm, volumes, files>>
      BY <1>1, <1>9 DEF DeleteNetwork, At, hostVars, fileVars, Operations
    <2>2. Gone /\ volumes = {}
      BY <1>2, <2>1 DEF HasRemoved
    <2>3. EnvelopesHaveData' /\ StillDeletable' /\ Gone'
      BY <1>3, <2>1, <2>2 DEF EnvelopesHaveData, StillDeletable, Gone
    <2>4. HasRemoved(op)' /\ HoldsConfig(op)'
      BY <1>3, <2>1, <2>2, <2>3 DEF HasRemoved, HoldsConfig
    <2> QED
      BY <1>4, <2>1, <2>3, <2>4 DEF DataOK
  <1>10. CASE RemoveFile
    <2>1. /\ op.pc = "removeFile" /\ op.target \in 1..4 /\ UNCHANGED <<vm, volumes, network>>
          /\ files' = files \ {RemovalOrder[op.target]}
      BY <1>1, <1>10 DEF RemoveFile, At, OperationOK, RemovalOrder, runtimeVars
    <2>2. Gone /\ volumes = {} /\ ~network
      BY <1>2, <2>1 DEF HasRemoved
    <2>3. EnvelopesHaveData' /\ Gone'
      BY <2>1, <2>2 DEF EnvelopesHaveData, Gone
    <2>4. /\ op.target > 2 => journalSafe
          /\ op.target > 3 => desired = DefaultDesired
      BY <1>2, <2>1 DEF HasRemoved
    <2>5. /\ op.target = 2 \/ journalSafe => journalSafe'
          /\ op.target = 3 => desired' = DefaultDesired
          /\ op.target # 3 => desired' = desired
      <3>1. /\ journalSafe' = (journalSafe \/ RemovalOrder[op.target] = "journal")
            /\ desired' = IF RemovalOrder[op.target] = "desired" THEN DefaultDesired ELSE desired
        BY <1>10 DEF RemoveFile
      <3>2. /\ RemovalOrder[1] = "token" /\ RemovalOrder[2] = "journal"
            /\ RemovalOrder[3] = "desired" /\ RemovalOrder[4] = "config"
        BY DEF RemovalOrder
      <3>3. CASE op.target = 3
        BY <3>1, <3>2, <3>3
      <3>4. CASE op.target = 2
        BY <3>1, <3>2, <3>4
      <3>5. CASE op.target = 1 \/ op.target = 4
        BY <3>1, <3>2, <3>5
      <3> QED
        BY <2>1, <3>3, <3>4, <3>5
    <2>6. CASE op.target < 4
      <3>1. op'.pc = "removeFile" /\ op'.target = op.target + 1 /\ "config" \in files'
        BY <1>1, <1>3, <1>10, <2>1, <2>6 DEF RemoveFile, RemovalOrder, Operations
      <3>2. HasRemoved(op)' /\ HoldsConfig(op)' /\ StillDeletable'
        BY <2>1, <2>2, <2>3, <2>4, <2>5, <2>6, <3>1 DEF HasRemoved, HoldsConfig, StillDeletable
      <3> QED
        BY <1>4, <2>3, <3>1, <3>2 DEF DataOK
    <2>7. CASE op.target = 4
      <3>1. op' = Idle
        BY <1>10, <2>7 DEF RemoveFile, RemovalOrder
      <3>2. StillDeletable'
        BY <2>1, <2>2, <2>3, <2>4, <2>5, <2>7 DEF StillDeletable, Gone
      <3> QED
        BY <1>5, <2>3, <3>1, <3>2 DEF DataOK
    <2> QED
      BY <2>1, <2>6, <2>7
  <1> QED
    BY <1>6, <1>7, <1>8, <1>9, <1>10 DEF RemoveStep

(* A failure or a deadline. *)
LEMMA FaultStepKeepsData ==
  TypeOK /\ FlowOK /\ DataOK /\ (FaultStep \/ WaitTimesOut) => DataOK'
  <1> SUFFICES ASSUME TypeOK, FlowOK, DataOK, FaultStep \/ WaitTimesOut PROVE DataOK'
    OBVIOUS
  <1>1. OperationOK(op) /\ vm \in [Members -> VMStates]
    BY DEF TypeOK, RuntimeTypeOK
  <1>2. FlowOK'
    BY FaultStepInFlow
  <1>3. ASSUME op.pc \in MemberSteps, op' \in {Idle, AfterFailedStart, AfterFailedStop(TRUE)},
               \A m \in Members : vm'[m] # "missing" => vm[m] # "missing" \/ Provisioned,
               UNCHANGED <<volumes, network, files>>
        PROVE  DataOK'
    <2>1. op'.pc \in {"idle", "startCheck"}
      BY <1>1, <1>3, MemberGoes
    <2>2. Continues(op')
      BY <1>1, <1>2, <1>3, OnlyIdleBegins, StepContinues
      DEF Next, OperationStep, MemberSteps
    <2> QED
      BY <1>2, <1>3, <2>1, <2>2, MemberDataStays DEF MemberSteps
  <1>4. CASE Lost
    BY <1>4, DataStays DEF Lost, EnvelopesStay, runtimeVars, fileVars
  <1>5. CASE StopFails
    <2>1. \A m \in Members : vm'[m] # "missing" => vm[m] # "missing"
      BY <1>1, <1>5 DEF StopFails, Stopped, Running, RunningStates
    <2> QED
      BY <1>3, <1>5, <2>1 DEF StopFails, At, MemberSteps, hostVars, fileVars
  <1>6. CASE RunFails
    <2>1. op.pc = "runEnvelope" /\ Provisioned
      BY <1>6 DEF RunFails, At, DataOK, HasData
    <2> QED
      BY <1>3, <1>6, <2>1 DEF RunFails, MemberSteps, fileVars
  <1>7. CASE StepFails
    BY <1>3, <1>7 DEF StepFails, At, MemberSteps, runtimeVars, fileVars
  <1>8. CASE WaitTimesOut
    <2>1. CASE op.pc = "createWait"
      <3>1. op' = Idle
        BY <1>1, <1>8, <2>1 DEF WaitTimesOut, At, FlowOK, InFlow, StepsOf, Flows, MemberCommands,
           StartSteps, StopSteps, OperationOK, Operations
      <3> QED
        BY <1>8, <3>1, DataStays DEF WaitTimesOut, EnvelopesStay, runtimeVars, fileVars
    <2>2. CASE op.pc # "createWait"
      BY <1>3, <1>8, <2>2 DEF WaitTimesOut, MemberSteps, runtimeVars, fileVars
    <2> QED
      BY <2>1, <2>2
  <1>9. CASE VMFails
    <2>1. EnvelopesStay
      BY <1>1, <1>9 DEF VMFails, Exits, Wedges, AllExit, EnvelopesStay, Running, RunningStates
    <2>2. op' \in {op, Idle} /\ UNCHANGED <<volumes, network, files, journalSafe, desired>>
      BY <1>9 DEF VMFails, Exits, Wedges, AllExit, fileVars
    <2> QED
      BY <2>1, <2>2, DataStays
  <1>10. CASE RollBackVolumes
    <2>1. op' = Idle /\ UNCHANGED <<vm, files, journalSafe, desired>> /\ op.pc = "createVolume"
      BY <1>10 DEF RollBackVolumes, At, hostVars, fileVars
    <2>2. Gone /\ "config" \in files
      BY <2>1 DEF DataOK, HasData, HoldsConfig, SetupSteps
    <2>3. EnvelopesHaveData' /\ StillDeletable'
      BY <2>1, <2>2 DEF EnvelopesHaveData, StillDeletable, Gone
    <2>4. op'.pc = "idle"
      BY <2>1 DEF Idle
    <2> QED
      BY <2>3, <2>4 DEF DataOK, HoldsConfig, HasData, HasRemoved, Building, SetupSteps, MemberSteps
  <1> QED
    BY <1>4, <1>5, <1>6, <1>7, <1>8, <1>9, <1>10 DEF FaultStep

(* An operation that takes the lock. *)
LEMMA BeginKeepsData ==
  TypeOK /\ DataOK /\ (OperatorStep \/ SuperviseStep) => DataOK'
  <1> SUFFICES ASSUME TypeOK, DataOK, OperatorStep \/ SuperviseStep PROVE DataOK'
    OBVIOUS
  <1> USE BegunInFlow
  <1>1. ASSUME UNCHANGED <<vm, volumes, network, files, journalSafe, desired>>,
               "config" \in files \/ op'.pc = "createCheck",
               \/ op'.pc \in {"createCheck", "persistRunning", "persistStopped", "clusterPreflight"}
               \/ op'.pc \in MemberSteps /\ op'.flow \notin {"createHA", "migrate"},
               op'.pc \in {"deleteEnvelope", "runEnvelope"} => Provisioned
        PROVE  DataOK'
    <2>1. EnvelopesHaveData' /\ StillDeletable'
      BY <1>1 DEF DataOK, EnvelopesHaveData, StillDeletable
    <2>2. HoldsConfig(op)'
      BY <1>1 DEF HoldsConfig
    <2>3. ~Building(op)'
      BY <1>1 DEF Building, MemberSteps
    <2>4. HasData(op)' /\ HasRemoved(op)'
      BY <1>1, <2>3 DEF HasData, HasRemoved, Provisioned, SetupSteps, MemberSteps
    <2> QED
      BY <2>1, <2>2, <2>4 DEF DataOK
  <1>2. CASE OperatorStep
    <2>1. UNCHANGED <<vm, volumes, network, files, journalSafe, desired>>
      BY <1>2 DEF OperatorStep, IssueMemberCommand, IssueCreate, IssueStart, IssueStop,
         IssueDelete, IssueKeepDelete, Issue, runtimeVars, hostVars, fileVars
    <2>2. CASE IssueMemberCommand
      <3>1. PICK c \in MemberCommands, id \in Members : Issue(c, c, "persistIntent", id)
        BY <2>2 DEF IssueMemberCommand
      <3>2. /\ op'.pc = "persistIntent" /\ op'.flow \in MemberCommands
            /\ "config" \in files
        BY <3>1 DEF Issue, MemberCommands
      <3> QED
        BY <1>1, <2>1, <3>2 DEF MemberSteps, MemberCommands
    <2>3. CASE IssueCreate
      <3>1. op'.pc = "createCheck"
        BY <2>3 DEF IssueCreate, Issue
      <3> QED
        BY <1>1, <2>1, <3>1
    <2>4. CASE IssueStart \/ IssueStop \/ IssueDelete \/ IssueKeepDelete
      <3>1. /\ op'.pc \in {"persistRunning", "persistStopped", "clusterPreflight"}
            /\ "config" \in files
        BY <2>4 DEF IssueStart, IssueStop, IssueDelete, IssueKeepDelete, Issue
      <3> QED
        BY <1>1, <2>1, <3>1
    <2> QED
      BY <1>2, <2>2, <2>3, <2>4 DEF OperatorStep
  <1>3. CASE SuperviseAllReady
    <2>1. EnvelopesStay /\ op' = op /\ UNCHANGED <<volumes, network, files, journalSafe, desired>>
      BY <1>3 DEF SuperviseAllReady, runtimeVars, fileVars, EnvelopesStay
    <2> QED
      BY <2>1, DataStays
  <1>4. CASE SuperviseRejoin
    <2>1. PICK t \in Members :
            /\ Topology({t})
            /\ Tick("rejoin", IF vm[t] = "stopped" THEN "deleteEnvelope" ELSE "runEnvelope", t)
      BY <1>4 DEF SuperviseRejoin
    <2>2. Provisioned
      BY <2>1, TopologyProvisioned DEF DataOK
    <2>3. /\ op'.flow = "rejoin" /\ op'.pc \in {"deleteEnvelope", "runEnvelope"} /\ "config" \in files
          /\ UNCHANGED <<vm, volumes, network, files, journalSafe, desired>>
      BY <2>1 DEF Tick, Ticks, runtimeVars, fileVars
    <2> QED
      BY <1>1, <2>2, <2>3 DEF MemberSteps
  <1>5. CASE \/ SuperviseStop \/ SuperviseOffline \/ SuperviseStartAll
             \/ SuperviseStartOne \/ SuperviseRepair
    <2>1. PICK flow \in {"stopHA", "stopMember", "createHA", "startMember", "repair"},
               step \in {"persistStopped", "stopCheck", "offlineCheck", "persistRunning",
                         "startCheck", "repairCheck"}, t \in {1} \cup Members :
            /\ Tick(flow, step, t)
            /\ flow = "createHA" => step = "persistRunning"
      BY <1>5 DEF SuperviseStop, SuperviseOffline, SuperviseStartAll, SuperviseStartOne,
         SuperviseRepair, TypeOK, DesiredStates
    <2>2. /\ op'.flow = flow /\ op'.pc = step /\ "config" \in files
          /\ UNCHANGED <<vm, volumes, network, files, journalSafe, desired>>
      BY <2>1 DEF Tick, Ticks, runtimeVars, fileVars
    <2> QED
      BY <1>1, <2>1, <2>2 DEF MemberSteps
  <1> QED
    BY <1>2, <1>3, <1>4, <1>5 DEF SuperviseStep

LEMMA NextKeepsData == TypeOK /\ FlowOK /\ LookOK /\ DataOK /\ [Next]_vars => DataOK'
  <1> SUFFICES ASSUME TypeOK, FlowOK, LookOK, DataOK, [Next]_vars PROVE DataOK'
    OBVIOUS
  <1>1. CASE UNCHANGED vars \/ K3sStep \/ \E m \in Members : QuietEnds(m)
    <2>1. vm \in [Members -> VMStates]
      BY DEF TypeOK, RuntimeTypeOK
    <2>2. EnvelopesStay /\ op' = op /\ UNCHANGED <<volumes, network, files, journalSafe, desired>>
      <3>1. CASE K3sStep
        BY <2>1, <3>1 DEF K3sStep, Unattended, BecomesReady, LosesQuorum, EnvelopesStay, hostVars, fileVars
      <3>2. CASE UNCHANGED vars \/ \E m \in Members : QuietEnds(m)
        BY <3>2 DEF vars, QuietEnds, EnvelopesStay, runtimeVars, hostVars, fileVars
      <3> QED
        BY <1>1, <3>1, <3>2
    <2> QED
      BY <2>2, DataStays
  <1> QED
    BY <1>1, MemberStepKeepsData, CreateStepKeepsData, RemoveStepKeepsData, FaultStepKeepsData,
       BeginKeepsData
    DEF Next, OperationStep

LEMMA DataInvariant ==
  /\ Init => TypeOK /\ FlowOK /\ LookOK /\ DataOK
  /\ TypeOK /\ FlowOK /\ LookOK /\ DataOK /\ [Next]_vars => (TypeOK /\ FlowOK /\ LookOK /\ DataOK)'
  <1>1. Init => LookOK
    BY NothingPending DEF Init, Idle, LookOK, StillAsSeen, NeverReplacesRunningVM, At
  <1>2. Init => DataOK
    BY DEF Init, Idle, DataOK, EnvelopesHaveData, StillDeletable, HoldsConfig, HasData, HasRemoved,
       Building, SetupSteps, MemberSteps
  <1> QED
    BY <1>1, <1>2, InitTyped, InitInFlow, NextTyped, NextInFlow, NextLooks, NextKeepsData

(* Volumes are created only by a create that found none. *)
LEMMA CreatesVolumesInTurn ==
  ASSUME TypeOK, FlowOK, [Next]_vars, op'.pc = "createVolume"
  PROVE  op' = op \/ CreateNetwork \/ CreateVolume
  <1>0. OperationOK(op) /\ op \in Operations /\ op.pc \in StepsOf[op.flow] /\ op.flow \in Flows
    BY DEF TypeOK, OperationOK, Operations, FlowOK, InFlow
  <1> DEFINE Creates(o) == o.pc = "createVolume"
  <1>1. /\ ~Creates(Idle) /\ ~Creates(Recovery) /\ ~Creates(NextMember) /\ ~Creates(Reconciled)
        /\ \A flag \in BOOLEAN : ~Creates(AfterStop(flag)) /\ ~Creates(AfterFailedStop(flag))
        /\ ~Creates(AfterStart) /\ ~Creates(AfterFailedStart)
        /\ op.pc = "runEnvelope" => ~Creates(AfterRun)
        /\ \A step : Goto(step).pc = step
    BY <1>0, MemberGoes DEF AfterRun, Goto, Operations
  <1>2. CASE MemberStep
    <2>1. CASE PersistMemberIntent \/ RestartCheck \/ StopWait \/ DeleteEnvelope \/ StopApply
      BY <1>1, <2>1 DEF PersistMemberIntent, RestartCheck, StopWait, DeleteEnvelope, StopApply
    <2>2. CASE StopCheck \/ OfflineCheck
      BY <1>1, <2>2 DEF StopCheck, OfflineCheck
    <2>3. CASE RepairCheck
      BY <1>0, <1>1, <2>3 DEF RepairCheck, Operations
    <2>4. CASE StartCheck
      <3>1. \/ op' \in {AfterStart, AfterFailedStart}
            \/ op' \in {Goto("startWait"), Goto("deleteEnvelope"), Goto("runEnvelope")}
        BY <1>0, <2>4 DEF StartCheck, TypeOK, OperationOK, RuntimeTypeOK, VMStates, Running,
           RunningStates, At
      <3> QED
        BY <1>1, <3>1
    <2>5. CASE RunEnvelope
      <3>1. op'.pc = AfterRun.pc /\ op.pc = "runEnvelope"
        BY <1>0, <2>5, ContinuationsInFlow DEF RunEnvelope, At, Operations
      <3> QED
        BY <1>1, <3>1
    <2>6. CASE StartWait \/ MemberWait
      BY <1>1, <2>6 DEF StartWait, MemberWait
    <2> QED
      BY <1>2, <2>1, <2>2, <2>3, <2>4, <2>5, <2>6 DEF MemberStep
  <1>3. CASE CreateStep
    <2>1. CASE CreateMember
      <3>1. op.seen[op.target] \in {"missing", "stopped", "running"}
        BY <1>0, <2>1 DEF CreateMember, At, OperationOK, Operations
      <3>2. \/ op' = Reconciled \/ op' \in {Goto("deleteEnvelope"), Goto("runEnvelope")}
            \/ op' = [op EXCEPT !.flow = "migrate", !.pc = "stopCheck"]
        BY <2>1, <3>1 DEF CreateMember
      <3>3. CASE op' = [op EXCEPT !.flow = "migrate", !.pc = "stopCheck"]
        BY <1>0, <3>3 DEF Operations
      <3> QED
        BY <1>1, <3>2, <3>3
    <2>2. CASE CreateCheck
      BY <1>0, <1>1, <2>2 DEF CreateCheck, Operations
    <2> QED
      BY <1>1, <1>3, <2>1, <2>2 DEF CreateStep, PersistRunning, SaveConfig, MarkRunning, CreateWait
  <1>4. CASE RemoveStep
    <2>1. PreviousMember.pc \in {"clusterStop", "deleteVolume", "idle"}
      BY <1>0 DEF PreviousMember, Idle, Operations
    <2>2. CASE PersistStopped \/ ClusterStop \/ ClusterDelete
      BY <1>1, <2>1, <2>2 DEF PersistStopped, ClusterStop, ClusterDelete
    <2>3. CASE ClusterPreflight \/ DeleteNetwork
      BY <1>0, <1>1, <2>3 DEF ClusterPreflight, DeleteNetwork, At, Operations
    <2>4. CASE DeleteVolume
      <3> DEFINE next == op.target - 1
      <3>1. op' \in {[op EXCEPT !.target = next], Goto("deleteNetwork")} /\ op.pc = "deleteVolume"
        BY <2>4 DEF DeleteVolume, At
      <3> HIDE DEF next
      <3> QED
        BY <1>0, <1>1, <3>1 DEF Operations
    <2>5. CASE RemoveFile
      BY <1>0, <1>1, <2>5 DEF RemoveFile, At, Operations
    <2> QED
      BY <1>4, <2>2, <2>3, <2>4, <2>5 DEF RemoveStep
  <1>5. CASE FaultStep \/ WaitTimesOut
    BY <1>1, <1>5 DEF FaultStep, Lost, StopFails, RunFails, StepFails, VMFails,
       RollBackVolumes, WaitTimesOut
  <1>6. CASE OperatorStep
    BY <1>6, BegunInFlow DEF OperatorStep, IssueMemberCommand, IssueCreate, IssueStart,
       IssueStop, IssueDelete, IssueKeepDelete, Issue
  <1>7. CASE SuperviseStep
    <2>1. CASE SuperviseRejoin
      <3>1. PICK step \in {"deleteEnvelope", "runEnvelope"}, t \in Members : Tick("rejoin", step, t)
        BY <2>1 DEF SuperviseRejoin
      <3>2. op'.pc = step
        BY <3>1, BegunInFlow DEF Tick
      <3> QED
        BY <3>2
    <2> QED
      BY <1>7, <2>1, BegunInFlow DEF SuperviseStep, SuperviseStop, SuperviseOffline,
         SuperviseAllReady, SuperviseStartAll, SuperviseStartOne, SuperviseRepair, Tick
  <1>8. CASE K3sStep \/ UNCHANGED vars \/ \E k \in Members : QuietEnds(k)
    BY <1>8 DEF K3sStep, Unattended, vars, QuietEnds
  <1> QED
    BY <1>2, <1>3, <1>4, <1>5, <1>6, <1>7, <1>8 DEF Next, OperationStep

(* A create that makes volumes began when there were none, and so no etcd    *)
(* data; its members are not launched before the last volume is made.       *)
VotesOK ==
  /\ volumes = {} => voters = {}
  /\ op.pc = "createVolume" => voters = {}

LEMMA NextKeepsVotes ==
  ASSUME TypeOK, FlowOK, DataOK, VotesOK, [Next]_vars
  PROVE  VotesOK' /\ (volumes' \subseteq volumes \/ voters = {})
  <1>1. EnvelopesHaveData /\ HasData(op) /\ OperationOK(op)
    BY DEF DataOK, TypeOK
  <1>2. CASE CreateVolume
    <2>1. /\ op.pc = "createVolume" /\ op.target \in Members
          /\ volumes' = volumes \cup {op.target} /\ voters' = voters
      BY <1>1, <1>2 DEF CreateVolume, At, OperationOK
    <2> QED
      BY <2>1 DEF VotesOK
  <1>3. CASE RollBackVolumes
    BY <1>3 DEF RollBackVolumes, At, VotesOK
  <1>4. CASE DeleteVolume
    <2>1. /\ volumes' = volumes \ {op.target} /\ (volumes' = {} => voters' = {})
          /\ op.pc = "deleteVolume"
      BY <1>4 DEF DeleteVolume, At
    <2>2. op'.pc # "createVolume"
      <3>1. CASE op' = op
        BY <2>1, <3>1
      <3>2. CASE op' # op
        BY <1>4, <2>1, <3>2, CreatesVolumesInTurn DEF CreateNetwork, CreateVolume, At
      <3> QED
        BY <3>1, <3>2
    <2> QED
      BY <2>1, <2>2 DEF VotesOK
  <1>5. CASE \E m \in Members : BecomesReady(m) /\ Unattended
    <2>1. PICK m \in Members : BecomesReady(m) /\ Unattended
      BY <1>5
    <2>2. vm[m] # "missing" /\ UNCHANGED <<volumes, op>>
      BY <2>1 DEF BecomesReady, Unattended
    <2>3. volumes # {} /\ op.pc # "createVolume"
      BY <1>1, <2>2 DEF EnvelopesHaveData, HasData, Gone, SetupSteps
    <2> QED
      BY <2>2, <2>3 DEF VotesOK
  <1>6. CASE UNCHANGED <<volumes, voters>>
    <2>1. CASE op' = op \/ CreateVolume \/ op'.pc # "createVolume"
      BY <1>2, <1>6, <2>1 DEF VotesOK
    <2>2. CASE CreateNetwork /\ op'.pc = "createVolume"
      <3>1. op.pc = "createNetwork" /\ volumes # Members
        BY <1>1, <2>2 DEF CreateNetwork, At, OperationOK, Operations
      <3>2. volumes = {}
        BY <1>1, <3>1 DEF HasData, SetupSteps
      <3> QED
        BY <1>6, <3>2 DEF VotesOK
    <2> QED
      BY <2>1, <2>2, CreatesVolumesInTurn
  <1>7. \/ CreateVolume \/ RollBackVolumes \/ DeleteVolume
        \/ \E m \in Members : BecomesReady(m) /\ Unattended
        \/ UNCHANGED <<volumes, voters>>
    <2>1. CASE MemberStep \/ WaitTimesOut
      BY <2>1 DEF MemberStep, PersistMemberIntent, RestartCheck, StopCheck, OfflineCheck,
         RepairCheck, StopApply, StopWait, StartCheck, DeleteEnvelope, RunEnvelope, StartWait,
         MemberWait, WaitTimesOut, runtimeVars
    <2>2. CASE CreateStep
      BY <2>2 DEF CreateStep, PersistRunning, CreateCheck, SaveConfig, MarkRunning,
         CreateNetwork, CreateMember, CreateWait, runtimeVars
    <2>3. CASE RemoveStep
      BY <2>3 DEF RemoveStep, PersistStopped, ClusterPreflight, ClusterStop, ClusterDelete,
         DeleteNetwork, RemoveFile, runtimeVars
    <2>4. CASE OperatorStep \/ SuperviseStep
      BY <2>4 DEF OperatorStep, IssueMemberCommand, IssueCreate, IssueStart, IssueStop,
         IssueDelete, IssueKeepDelete, Issue, SuperviseStep, SuperviseStop, SuperviseOffline,
         SuperviseRejoin, SuperviseAllReady, SuperviseStartAll, SuperviseStartOne,
         SuperviseRepair, Tick, runtimeVars
    <2>5. CASE K3sStep
      BY <2>5 DEF K3sStep, LosesQuorum
    <2>6. CASE FaultStep
      BY <2>6 DEF FaultStep, Lost, StopFails, RunFails, StepFails, VMFails, Exits, Wedges,
         AllExit, runtimeVars
    <2>7. CASE UNCHANGED vars \/ \E m \in Members : QuietEnds(m)
      BY <2>7 DEF vars, QuietEnds, runtimeVars
    <2> QED
      BY <2>1, <2>2, <2>3, <2>4, <2>5, <2>6, <2>7 DEF Next, OperationStep
  <1> QED
    BY <1>2, <1>3, <1>4, <1>5, <1>6, <1>7 DEF VotesOK

(* No envelope outlives, or is launched without, its member volume, the      *)
(* network and the token, and no empty volume is ever made beside volumes    *)
(* that hold etcd data, wherever a create, a rollback or a delete is         *)
(* interrupted and whatever is created on what that leaves (preflightHA,     *)
(* ensureHAToken, createHALocked, deleteHALocked).                           *)
THEOREM EnvelopesKeepData == Spec => DataWhole
  <1> DEFINE IInv == TypeOK /\ FlowOK /\ LookOK /\ DataOK /\ VotesOK
             Unmixed == volumes' \subseteq volumes \/ voters = {}
  <1>1. Init => IInv
    BY DataInvariant DEF Init, Idle, VotesOK
  <1>2. IInv /\ [Next]_vars => IInv' /\ [Unmixed]_vars
    <2> SUFFICES ASSUME IInv, [Next]_vars PROVE IInv' /\ Unmixed
      OBVIOUS
    <2>1. (TypeOK /\ FlowOK /\ LookOK /\ DataOK)'
      BY DataInvariant
    <2> QED
      BY <2>1, NextKeepsVotes
  <1>3. IInv => EnvelopesHaveData
    BY DEF DataOK
  <1> QED
    BY <1>1, <1>2, <1>3, PTL DEF Spec, DataWhole, NeverMixesVolumes

(* Whatever of a cluster exists, its config does too, so that a create or a  *)
(* delete that was interrupted can be continued or cleaned up (ha.go:804,    *)
(* ha.go:1417): the config is written first and removed last.                *)
THEOREM RemainsDeletable == Spec => []StillDeletable
  <1> USE DataInvariant
  <1>1. DataOK => StillDeletable
    BY DEF DataOK
  <1> QED
    BY <1>1, PTL DEF Spec
-----------------------------------------------------------------------------
(* HonoursIntent *)

Up         == {m \in Members : Running(m)}
PeersRun(t) == \A m \in Members \ {t} : Running(m)

SearchSteps  == {"persistRunning", "createCheck", "saveConfig", "markRunning"}
MemberStarts == {"startMember", "restartMember"}

(* How far operation o has brought the intent d it is for. *)
IntentBy(o, d) ==
  /\ o.flow \in {"repair", "rejoin"} => o.actor = "supervisor"
  /\ o.flow \in MemberStarts /\ o.pc # "persistIntent" => o.target \notin d.stopped
  /\ o.flow = "migrate" => d = DefaultDesired
  /\ o.flow = "createHA" /\ o.pc \notin SearchSteps => d = DefaultDesired
  /\ o.flow \in {"stopHA", "deleteKeepData"} /\ o.pc # "persistStopped" => d.cluster = "Stopped"

IntentFirst == IntentBy(op, desired)

(* What an operation that works on one member knows of the others. *)
OthersUp ==
  calm => /\ op.pc \in {"stopApply", "stopWait"} => PeersRun(op.target)
          /\ op.pc \in {"deleteEnvelope", "runEnvelope"} /\ op.flow \in MemberStarts
               => PeersRun(op.target)

(* However a member's operation continues, the intent stays the one it is for. *)
LEMMA ContinuationsIntend ==
  ASSUME OperationOK(op), FlowOK, IntentFirst,
         op.pc \in (MemberSteps \cup {"createMember"}) \ {"persistIntent"}
  PROVE  /\ IntentBy(Idle, desired) /\ IntentBy(Recovery, desired)
         /\ \A step \in MemberSteps \cup {"createWait"} : IntentBy(Goto(step), desired)
         /\ op.flow \in {"createHA", "migrate"} =>
              IntentBy(NextMember, desired) /\ IntentBy(Reconciled, desired)
         /\ \A flag \in BOOLEAN :
              IntentBy(AfterStop(flag), desired) /\ IntentBy(AfterFailedStop(flag), desired)
         /\ IntentBy(AfterStart, desired) /\ IntentBy(AfterFailedStart, desired)
         /\ op.pc = "runEnvelope" => IntentBy(AfterRun, desired)
  <1>0. /\ op.flow \in {"stopMember", "startMember", "restartMember", "repair", "rejoin",
                        "migrate", "createHA"}
        /\ op.pc \notin SearchSteps \cup {"persistIntent", "persistStopped"}
        /\ op \in Operations
    BY DEF FlowOK, InFlow, StepsOf, OperationOK, Operations, Flows, MemberCommands, MemberSteps,
       SearchSteps, StartSteps, StopSteps, SetupSteps
  <1> USE <1>0 DEF IntentFirst
  <1>1. IntentBy(Idle, desired)
    BY DEF IntentBy, Idle, MemberStarts
  <1>2. ASSUME NEW o, o.actor = op.actor, o.flow = op.flow, o.target = op.target
        PROVE  IntentBy(o, desired)
    BY <1>2 DEF IntentBy, MemberStarts
  <1>3. IntentBy(Recovery, desired)
    BY <1>2 DEF Recovery, Operations
  <1>4. ASSUME NEW step PROVE IntentBy(Goto(step), desired)
    BY <1>2 DEF Goto, Operations
  <1>5. ASSUME op.flow \in {"createHA", "migrate"} PROVE IntentBy(NextMember, desired)
    <2>1. NextMember.flow = "createHA" /\ desired = DefaultDesired
      BY <1>5 DEF NextMember, Operations, IntentBy
    <2> QED
      BY <2>1 DEF IntentBy, MemberStarts
  <1>6. ASSUME op.flow \in {"createHA", "migrate"} PROVE IntentBy(Reconciled, desired)
    BY <1>4, <1>5, <1>6 DEF Reconciled
  <1>7. ASSUME NEW flag \in BOOLEAN
        PROVE  IntentBy(AfterStop(flag), desired) /\ IntentBy(AfterFailedStop(flag), desired)
    <2>1. ASSUME ~In({"stopMember"})
          PROVE  /\ AfterStop(flag).actor = op.actor /\ AfterStop(flag).flow = op.flow
                 /\ AfterStop(flag).target = op.target
      BY <2>1 DEF AfterStop, Operations
    <2>2. IntentBy(AfterStop(flag), desired)
      <3>1. CASE In({"stopMember"})
        BY <1>1, <3>1 DEF AfterStop
      <3>2. CASE ~In({"stopMember"})
        BY <1>2, <2>1, <3>2
      <3> QED
        BY <3>1, <3>2
    <2> QED
      BY <1>1, <1>3, <2>2 DEF AfterFailedStop
  <1>8. IntentBy(AfterStart, desired) /\ IntentBy(AfterFailedStart, desired)
    BY <1>1, <1>3, <1>6 DEF AfterStart, AfterFailedStart, In
  <1>9. IntentBy(AfterRun, desired)
    BY <1>4, <1>6 DEF AfterRun, In
  <1> QED
    BY <1>1, <1>3, <1>4, <1>5, <1>6, <1>7, <1>8, <1>9

(* The steps on one member, however they are reached, keep the intent ahead of them. *)
LEMMA MemberStepIntends == TypeOK /\ FlowOK /\ IntentFirst /\ MemberStep => IntentFirst'
  <1> SUFFICES ASSUME TypeOK, FlowOK, IntentFirst, MemberStep PROVE IntentBy(op', desired')
    BY DEF IntentFirst
  <1>0. OperationOK(op) /\ op \in Operations /\ op.pc \in StepsOf[op.flow] /\ op.flow \in Flows
    BY DEF TypeOK, OperationOK, Operations, FlowOK, InFlow
  <1>1. CASE PersistMemberIntent
    <2> DEFINE d == WithMemberIntent(desired, op.target, In({"stopMember"}))
    <2>1. op.flow \in MemberCommands /\ op.pc = "persistIntent" /\ desired \in DesiredStates
      BY <1>0, <1>1 DEF PersistMemberIntent, At, StepsOf, Flows, MemberCommands, StartSteps,
         StopSteps, SetupSteps, TypeOK
    <2>2. In(MemberStarts) => op.target \notin d.stopped
      BY <2>1 DEF WithMemberIntent, In, MemberStarts, DesiredStates
    <2>3. CASE ValidDesired(d)
      <3>1. /\ desired' = d
            /\ \E step : op' = Goto(step)
        BY <1>1, <2>3 DEF PersistMemberIntent
      <3>2. op'.flow = op.flow /\ op'.target = op.target
        BY <1>0, <3>1 DEF Goto, Operations
      <3> HIDE DEF d
      <3> QED
        BY <2>1, <2>2, <3>1, <3>2 DEF IntentBy, In, MemberCommands, MemberStarts
    <2>4. CASE ~ValidDesired(d)
      <3>1. op' = Idle
        BY <1>1, <2>4 DEF PersistMemberIntent
      <3> QED
        BY <3>1 DEF IntentBy, Idle, MemberStarts
    <2> QED
      BY <2>3, <2>4
  <1>2. CASE ~PersistMemberIntent
    <2>1. desired' = desired /\ op.pc \in MemberSteps \ {"persistIntent"}
      BY <1>2
      DEF MemberStep, PersistMemberIntent, RestartCheck, StopCheck, OfflineCheck, RepairCheck,
          StopApply, StopWait, StartCheck, DeleteEnvelope, RunEnvelope, StartWait, MemberWait, At,
          MemberSteps, hostVars, fileVars
    <2> USE <1>0, <2>1, ContinuationsIntend DEF MemberSteps
    <2>2. CASE RestartCheck \/ StopApply \/ StopWait \/ DeleteEnvelope
      BY <2>2 DEF RestartCheck, StopApply, StopWait, DeleteEnvelope
    <2>3. CASE StopCheck \/ OfflineCheck
      BY <2>3 DEF StopCheck, OfflineCheck
    <2>4. CASE RepairCheck
      <3> DEFINE stopping == [op EXCEPT !.pc = "stopApply", !.mustRestart = TRUE]
      <3>1. /\ stopping.actor = op.actor /\ stopping.flow = op.flow /\ stopping.target = op.target
            /\ op.flow = "repair"
        BY <2>4 DEF Operations, RepairCheck, At, StepsOf, Flows, MemberCommands, StartSteps,
           StopSteps, SetupSteps
      <3>2. op' \in {stopping, Idle}
        BY <2>4 DEF RepairCheck
      <3> HIDE DEF stopping
      <3> QED
        BY <3>1, <3>2 DEF IntentBy, IntentFirst, MemberStarts
    <2>5. CASE StartCheck
      <3>1. \/ op' \in {AfterStart, AfterFailedStart}
            \/ op' \in {Goto("startWait"), Goto("deleteEnvelope"), Goto("runEnvelope")}
        BY <2>5 DEF StartCheck, TypeOK, OperationOK, RuntimeTypeOK, VMStates, Running,
           RunningStates, At
      <3> QED
        BY <3>1
    <2>6. CASE RunEnvelope
      <3>1. op' = AfterRun /\ op.pc = "runEnvelope"
        BY <2>6 DEF RunEnvelope, At
      <3> QED
        BY <3>1
    <2>7. CASE StartWait
      BY <2>7 DEF StartWait
    <2>8. CASE MemberWait
      <3>1. op.flow \in {"rejoin", "createHA", "migrate"}
        BY <2>8 DEF MemberWait, At, StepsOf, Flows, MemberCommands, StartSteps, StopSteps, SetupSteps
      <3> QED
        BY <2>8, <3>1 DEF MemberWait, In
    <2> QED
      BY <1>2, <2>2, <2>3, <2>4, <2>5, <2>6, <2>7, <2>8 DEF MemberStep
  <1> QED
    BY <1>1, <1>2

(* So does every other step: no operation mutates for an intent it has not stored. *)
LEMMA NextIntends == TypeOK /\ FlowOK /\ IntentFirst /\ IntentOK /\ [Next]_vars => IntentFirst'
  <1> SUFFICES ASSUME TypeOK, FlowOK, IntentFirst, IntentOK, [Next]_vars PROVE IntentBy(op', desired')
    BY DEF IntentFirst
  <1>0. OperationOK(op) /\ op \in Operations /\ op.pc \in StepsOf[op.flow] /\ op.flow \in Flows
    BY DEF TypeOK, OperationOK, Operations, FlowOK, InFlow
  <1> USE <1>0
  <1>1. op' = Idle => IntentBy(op', desired')
    BY DEF IntentBy, Idle, MemberStarts
  <1>2. op' = op /\ desired' = desired => IntentBy(op', desired')
    BY DEF IntentFirst
  <1>3. CASE MemberStep
    BY <1>3, MemberStepIntends DEF IntentFirst
  <1>4. CASE CreateStep
    <2>1. op.flow = "createHA"
      BY <1>4 DEF CreateStep, PersistRunning, CreateCheck, SaveConfig, MarkRunning, CreateNetwork,
         CreateVolume, CreateMember, CreateWait, At, StepsOf, Flows, MemberCommands, StartSteps,
         StopSteps
    <2>2. ASSUME op'.flow = "createHA",
                 op'.pc \in SearchSteps \/ desired' = DefaultDesired
          PROVE  IntentBy(op', desired')
      BY <2>2 DEF IntentBy, MemberStarts
    <2>3. \A step : Goto(step).flow = "createHA" /\ Goto(step).pc = step
      BY <2>1 DEF Goto, Operations
    <2>4. CASE PersistRunning \/ SaveConfig
      BY <2>2, <2>3, <2>4 DEF PersistRunning, SaveConfig, SearchSteps
    <2>5. CASE MarkRunning
      BY <2>2, <2>3, <2>5 DEF MarkRunning, MarkedRunning, DefaultDesired
    <2>6. CASE CreateCheck
      <3>1. op' = Idle \/ (op'.flow = "createHA" /\ op'.pc = "saveConfig")
        BY <2>1, <2>6 DEF CreateCheck, Operations
      <3> QED
        BY <1>1, <2>2, <3>1 DEF SearchSteps
    <2>7. CASE CreateNetwork \/ CreateVolume
      <3>1. op'.flow = "createHA"
        BY <2>1, <2>7 DEF CreateNetwork, CreateVolume, Operations
      <3>2. desired' = desired /\ desired = DefaultDesired
        BY <2>1, <2>7 DEF CreateNetwork, CreateVolume, hostVars, fileVars, At, IntentFirst, IntentBy,
           SearchSteps
      <3> QED
        BY <2>2, <3>1, <3>2
    <2>8. CASE CreateMember
      <3>1. op.seen[op.target] \in {"missing", "stopped", "running"} /\ op.pc = "createMember"
        BY <2>8 DEF CreateMember, At, OperationOK, Operations
      <3>2. \/ op' = Reconciled \/ op' \in {Goto("deleteEnvelope"), Goto("runEnvelope")}
            \/ op' = [op EXCEPT !.flow = "migrate", !.pc = "stopCheck"]
        BY <2>8, <3>1 DEF CreateMember
      <3>3. desired' = desired /\ desired = DefaultDesired
        BY <2>1, <2>8, <3>1 DEF CreateMember, hostVars, fileVars, IntentFirst, IntentBy, SearchSteps
      <3>4. CASE op' = [op EXCEPT !.flow = "migrate", !.pc = "stopCheck"]
        <4>1. op'.flow = "migrate"
          BY <3>4 DEF Operations
        <4> QED
          BY <3>3, <4>1 DEF IntentBy, MemberStarts
      <3> QED
        BY <2>1, <3>1, <3>2, <3>3, <3>4, ContinuationsIntend DEF MemberSteps
    <2>9. CASE CreateWait
      BY <1>1, <2>9 DEF CreateWait
    <2> QED
      BY <1>4, <2>4, <2>5, <2>6, <2>7, <2>8, <2>9 DEF CreateStep
  <1>5. CASE RemoveStep
    <2>1. op.flow \in DownFlows /\ (op.pc \notin {"clusterPreflight", "persistStopped", "clusterStop",
                                                   "clusterDelete"} => op.flow = "deleteHA")
      BY <1>5 DEF RemoveStep, PersistStopped, ClusterPreflight, ClusterStop, ClusterDelete,
         DeleteVolume, DeleteNetwork, RemoveFile, At, StepsOf, Flows, DownFlows, MemberCommands,
         StartSteps, StopSteps, SetupSteps
    <2>2. ASSUME op' = Idle \/ op'.flow = op.flow,
                 op.flow # "deleteHA" => desired'.cluster = "Stopped"
          PROVE  IntentBy(op', desired')
      BY <1>1, <2>1, <2>2 DEF IntentBy, MemberStarts, DownFlows
    <2>3. PreviousMember = Idle \/ PreviousMember.flow = op.flow
      BY DEF PreviousMember, Operations
    <2>4. CASE PersistStopped
      <3>1. op'.flow = op.flow
        BY <2>4 DEF PersistStopped, Goto, Operations
      <3>2. desired'.cluster = "Stopped"
        BY <2>4 DEF PersistStopped, MarkedStopped, TypeOK, DesiredStates
      <3> QED
        BY <2>2, <3>1, <3>2
    <2>5. CASE ClusterPreflight \/ ClusterStop \/ ClusterDelete
      <3>1. op' = Idle \/ op'.flow = op.flow
        BY <2>3, <2>5 DEF ClusterPreflight, ClusterStop, ClusterDelete, Goto, Operations
      <3>2. op.pc # "persistStopped" /\ desired' = desired
        BY <2>5 DEF ClusterPreflight, ClusterStop, ClusterDelete, At, hostVars, fileVars
      <3> QED
        BY <2>1, <2>2, <3>1, <3>2 DEF IntentFirst, IntentBy, DownFlows
    <2>6. CASE DeleteVolume \/ DeleteNetwork \/ RemoveFile
      <3>1. op.flow = "deleteHA"
        BY <2>1, <2>6 DEF DeleteVolume, DeleteNetwork, RemoveFile, At
      <3>2. op' = Idle \/ op'.flow = op.flow
        BY <2>6 DEF DeleteVolume, DeleteNetwork, RemoveFile, Goto, Operations
      <3> QED
        BY <2>2, <3>1, <3>2
    <2> QED
      BY <1>5, <2>4, <2>5, <2>6 DEF RemoveStep
  <1>6. CASE WaitTimesOut \/ FaultStep
    <2>1. desired' = desired
      BY <1>6 DEF WaitTimesOut, FaultStep, Lost, StopFails, RunFails, StepFails, VMFails,
         RollBackVolumes, fileVars, hostVars
    <2>2. CASE Lost \/ VMFails \/ RollBackVolumes
      BY <1>1, <1>2, <2>1, <2>2 DEF Lost, VMFails, RollBackVolumes
    <2>3. CASE ~(Lost \/ VMFails \/ RollBackVolumes)
      <3>1. op.pc \in MemberSteps \ {"persistIntent"} \/ op.pc = "createWait"
        BY <1>6, <2>3 DEF WaitTimesOut, FaultStep, StopFails, RunFails, StepFails, At, MemberSteps
      <3>2. op' \in {Idle, AfterFailedStop(TRUE), AfterFailedStart}
        BY <1>6, <2>3 DEF WaitTimesOut, FaultStep, StopFails, RunFails, StepFails
      <3>3. op.pc = "createWait" => op' = Idle
        BY <1>6, <2>3 DEF WaitTimesOut, FaultStep, StopFails, RunFails, StepFails, At
      <3> QED
        BY <1>1, <2>1, <3>1, <3>2, <3>3, ContinuationsIntend
    <2> QED
      BY <2>2, <2>3
  <1>7. CASE OperatorStep
    <2> USE BegunInFlow DEF Issue, IntentBy, MemberStarts, SearchSteps
    <2>1. CASE IssueMemberCommand
      <3>1. PICK c \in MemberCommands, id \in Members : Issue(c, c, "persistIntent", id)
        BY <2>1 DEF IssueMemberCommand
      <3>2. op'.flow = c /\ op'.pc = "persistIntent"
        BY <3>1
      <3> QED
        BY <3>2 DEF MemberCommands
    <2>2. CASE IssueCreate
      BY <2>2 DEF IssueCreate
    <2>3. CASE IssueStart
      BY <2>3 DEF IssueStart
    <2>4. CASE IssueStop
      BY <2>4 DEF IssueStop
    <2>5. CASE IssueDelete
      BY <2>5 DEF IssueDelete
    <2>6. CASE IssueKeepDelete
      BY <2>6 DEF IssueKeepDelete
    <2> QED
      BY <1>7, <2>1, <2>2, <2>3, <2>4, <2>5, <2>6 DEF OperatorStep
  <1>8. CASE SuperviseStep
    <2> USE BegunInFlow DEF Tick, IntentBy, MemberStarts, SearchSteps
    <2>1. CASE SuperviseStop
      BY <2>1 DEF SuperviseStop
    <2>2. CASE SuperviseOffline
      BY <2>2 DEF SuperviseOffline
    <2>3. CASE SuperviseRejoin
      <3>1. op'.flow = "rejoin" /\ op'.actor = "supervisor"
        BY <2>3 DEF SuperviseRejoin
      <3> QED
        BY <3>1
    <2>4. CASE SuperviseAllReady
      BY <1>2, <2>4 DEF SuperviseAllReady, fileVars
    <2>5. CASE SuperviseStartAll
      BY <2>5 DEF SuperviseStartAll
    <2>6. CASE SuperviseStartOne
      BY <2>6 DEF SuperviseStartOne, AllWanted, fileVars
    <2>7. CASE SuperviseRepair
      BY <2>7 DEF SuperviseRepair
    <2> QED
      BY <1>8, <2>1, <2>2, <2>3, <2>4, <2>5, <2>6, <2>7 DEF SuperviseStep
  <1>9. CASE K3sStep \/ UNCHANGED vars \/ \E m \in Members : QuietEnds(m)
    BY <1>2, <1>9 DEF K3sStep, Unattended, vars, QuietEnds, fileVars, hostVars
  <1> QED
    BY <1>3, <1>4, <1>5, <1>6, <1>7, <1>8, <1>9 DEF Next, OperationStep

-----------------------------------------------------------------------------
(* VMs come up and go down one at a time, but for those that fail. *)
LEMMA UpMoves ==
  ASSUME TypeOK, FlowOK, LookOK, [Next]_vars, ~VMFails
  PROVE  /\ calm' = calm
         /\ \/ Up' = Up
            \/ /\ op.pc = "runEnvelope" /\ desired' = desired
               /\ op.target \in Members \ Up /\ Up' = Up \cup {op.target}
            \/ /\ op.pc \in {"stopApply", "clusterStop"} /\ desired' = desired
               /\ op.target \in Up /\ Up' = Up \ {op.target}
  <1> DEFINE Same == Up' = Up
             Rises == /\ op.pc = "runEnvelope" /\ desired' = desired
                      /\ op.target \in Members \ Up /\ Up' = Up \cup {op.target}
             Falls == /\ op.pc \in {"stopApply", "clusterStop"} /\ desired' = desired
                      /\ op.target \in Up /\ Up' = Up \ {op.target}
  <1>0. /\ vm \in [Members -> VMStates]
        /\ op.pc # "removeFile" => op.target \in Members
    BY DEF TypeOK, RuntimeTypeOK, OperationOK
  <1> USE DEF runtimeVars, hostVars, fileVars
  <1>1. vm' = vm => Same
    BY DEF Up, Running
  <1>2. ASSUME NEW t \in Members, ~Running(t), NEW s \in VMStates \ RunningStates,
               vm' = [vm EXCEPT ![t] = s]
        PROVE  Same
    BY <1>0, <1>2 DEF Up, Running, RunningStates
  <1>3. ASSUME NEW t \in Members, t = op.target, vm' = Stopped(t), desired' = desired,
               op.pc \in {"stopApply", "clusterStop"}
        PROVE  Same \/ Falls
    BY <1>0, <1>3 DEF Up, Running, RunningStates, Stopped
  <1>4. ASSUME NEW t \in Members, t = op.target, ~Running(t), desired' = desired,
               op.pc = "runEnvelope", vm' = [vm EXCEPT ![t] = "starting"]
        PROVE  Rises
    BY <1>0, <1>4 DEF Up, Running, RunningStates
  <1>5. CASE MemberStep
    <2>0. calm' = calm
      BY <1>5
      DEF MemberStep, PersistMemberIntent, RestartCheck, StopCheck, OfflineCheck, RepairCheck,
          StopApply, StopWait, StartCheck, DeleteEnvelope, RunEnvelope, StartWait, MemberWait,
          historyVars
    <2>1. CASE StopApply
      BY <1>0, <1>3, <2>0, <2>1 DEF StopApply, At
    <2>2. CASE DeleteEnvelope
      <3>1. vm[op.target] = "stopped" /\ vm' = Deleted(op.target) /\ op.target \in Members
        BY <1>0, <2>2 DEF DeleteEnvelope, At, LookOK, NeverReplacesRunningVM
      <3> QED
        BY <1>2, <2>0, <3>1 DEF Deleted, Running, RunningStates, VMStates
    <2>3. CASE RunEnvelope
      <3>1. vm[op.target] = "missing" /\ vm' = Launched(op.target) /\ op.target \in Members
        BY <1>0, <2>3 DEF RunEnvelope, At, LookOK, NeverReplacesRunningVM
      <3> QED
        BY <1>4, <2>0, <2>3, <3>1 DEF Launched, Running, RunningStates, RunEnvelope, At
    <2>4. CASE ~(StopApply \/ DeleteEnvelope \/ RunEnvelope)
      <3>1. vm' = vm
        BY <1>5, <2>4
        DEF MemberStep, PersistMemberIntent, RestartCheck, StopCheck, OfflineCheck, RepairCheck,
            StopWait, StartCheck, StartWait, MemberWait
      <3> QED
        BY <1>1, <2>0, <3>1
    <2> QED
      BY <2>1, <2>2, <2>3, <2>4
  <1>6. CASE CreateStep
    <2>1. vm' = vm /\ calm' = calm
      BY <1>6 DEF CreateStep, PersistRunning, CreateCheck, SaveConfig, MarkRunning,
         CreateNetwork, CreateVolume, CreateMember, CreateWait, historyVars
    <2> QED
      BY <1>1, <2>1
  <1>7. CASE RemoveStep
    <2>0. calm' = calm
      BY <1>7 DEF RemoveStep, PersistStopped, ClusterPreflight, ClusterStop, ClusterDelete,
         DeleteVolume, DeleteNetwork, RemoveFile, historyVars
    <2>1. CASE ClusterStop
      <3>1. op.target \in Members /\ (vm' = vm \/ vm' = Stopped(op.target))
        BY <1>0, <2>1 DEF ClusterStop, At
      <3> QED
        BY <1>1, <1>3, <2>0, <2>1, <3>1 DEF ClusterStop, At
    <2>2. CASE ClusterDelete
      <3>1. ~Running(op.target) /\ vm' = Deleted(op.target) /\ op.target \in Members
        BY <1>0, <2>2 DEF ClusterDelete, At, LookOK, NeverReplacesRunningVM
      <3> QED
        BY <1>2, <2>0, <3>1 DEF Deleted, RunningStates, VMStates
    <2>3. CASE ~(ClusterStop \/ ClusterDelete)
      <3>1. vm' = vm
        BY <1>7, <2>3 DEF RemoveStep, PersistStopped, ClusterPreflight, DeleteVolume,
           DeleteNetwork, RemoveFile
      <3> QED
        BY <1>1, <2>0, <3>1
    <2> QED
      BY <2>1, <2>2, <2>3
  <1>8. CASE K3sStep
    <2>1. calm' = calm
      BY <1>8 DEF K3sStep, Unattended, historyVars
    <2>2. PICK m \in Members : BecomesReady(m) \/ LosesQuorum(m)
      BY <1>8 DEF K3sStep
    <2>3. Running(m) /\ \E s \in RunningStates : vm' = [vm EXCEPT ![m] = s]
      BY <2>2 DEF BecomesReady, LosesQuorum, Running, RunningStates
    <2>4. Same
      BY <1>0, <2>3 DEF Up, Running
    <2> QED
      BY <2>1, <2>4
  <1>9. CASE FaultStep
    <2>1. CASE Lost \/ RollBackVolumes \/ StepFails
      BY <1>1, <2>1 DEF Lost, RollBackVolumes, StepFails
    <2>2. CASE StopFails
      <3>1. /\ op.target \in Members /\ op.pc = "stopApply"
            /\ vm' = vm \/ vm' = Stopped(op.target)
            /\ calm' = calm /\ desired' = desired
        BY <1>0, <2>2 DEF StopFails, At
      <3> QED
        BY <1>1, <1>3, <3>1
    <2>3. CASE RunFails
      <3>1. /\ op.target \in Members /\ op.pc = "runEnvelope"
            /\ vm[op.target] = "missing"
            /\ calm' = calm /\ desired' = desired
        BY <1>0, <2>3 DEF RunFails, At, LookOK, NeverReplacesRunningVM
      <3>2. PICK s \in {"missing", "stopped", "starting"} : vm' = [vm EXCEPT ![op.target] = s]
        BY <2>3 DEF RunFails
      <3>3. ~Running(op.target)
        BY <3>1 DEF Running, RunningStates
      <3>4. CASE s = "starting"
        BY <1>4, <3>1, <3>2, <3>3, <3>4
      <3>5. CASE s # "starting"
        <4>1. s \in VMStates \ RunningStates
          BY <3>5 DEF VMStates, RunningStates
        <4> QED
          BY <1>2, <3>1, <3>2, <3>3, <4>1
      <3> QED
        BY <3>4, <3>5
    <2> QED
      BY <1>9, <2>1, <2>2, <2>3 DEF FaultStep
  <1>10. CASE OperatorStep \/ SuperviseStep
    <2>1. vm' = vm /\ calm' = calm
      BY <1>10 DEF OperatorStep, IssueMemberCommand, IssueCreate, IssueStart, IssueStop,
         IssueDelete, IssueKeepDelete, Issue, SuperviseStep, SuperviseStop, SuperviseOffline,
         SuperviseRejoin, SuperviseAllReady, SuperviseStartAll, SuperviseStartOne, SuperviseRepair,
         Tick, historyVars
    <2> QED
      BY <1>1, <2>1
  <1>11. CASE WaitTimesOut \/ UNCHANGED vars \/ \E k \in Members : QuietEnds(k)
    BY <1>1, <1>11 DEF WaitTimesOut, vars, QuietEnds, historyVars
  <1> QED
    BY <1>5, <1>6, <1>7, <1>8, <1>9, <1>10, <1>11 DEF Next, OperationStep

(* A member's own start replaces or launches an envelope after a look at its peers. *)
LEMMA StartsAfterLook ==
  ASSUME TypeOK, FlowOK, [Next]_vars, op'.flow \in MemberStarts,
         op'.pc \in {"deleteEnvelope", "runEnvelope"}
  PROVE  /\ op'.target = op.target /\ op'.flow = op.flow
         /\ \/ op.pc \in {"deleteEnvelope", "runEnvelope"}
            \/ OthersReady(op.target) /\ vm' = vm
  <1> DEFINE Starts(o) == o.pc \in {"deleteEnvelope", "runEnvelope"}
  <1>0. OperationOK(op) /\ op \in Operations /\ op.pc \in StepsOf[op.flow] /\ op.flow \in Flows
    BY DEF TypeOK, OperationOK, Operations, FlowOK, InFlow
  <1>1. /\ ~Starts(Idle) /\ ~Starts(Recovery) /\ ~Starts(NextMember) /\ ~Starts(Reconciled)
        /\ \A flag \in BOOLEAN : ~Starts(AfterStop(flag)) /\ ~Starts(AfterFailedStop(flag))
        /\ ~Starts(AfterStart) /\ ~Starts(AfterFailedStart)
        /\ op.pc = "runEnvelope" => ~Starts(AfterRun)
        /\ \A step : Goto(step).pc = step
    BY <1>0, ContinuationsSettled DEF Settled
  <1>2. \A step : Goto(step).target = op.target /\ Goto(step).flow = op.flow
    BY <1>0 DEF Goto, Operations
  <1>3. CASE op' = op
    BY <1>3
  <1>4. CASE MemberStep
    <2>1. CASE PersistMemberIntent
      <3>1. op' = Idle \/ op'.pc \in {"stopCheck", "startCheck", "restartCheck"}
        <4>1. In({"stopMember"}) \/ In({"startMember"}) \/ In({"restartMember"})
          BY <1>0, <2>1 DEF PersistMemberIntent, At, In, StepsOf, Flows, MemberCommands,
             StartSteps, StopSteps, SetupSteps
        <4> QED
          BY <1>1, <2>1, <4>1 DEF PersistMemberIntent
      <3> QED
        BY <1>1, <3>1
    <2>2. CASE RestartCheck \/ StopCheck \/ OfflineCheck \/ StopApply \/ StopWait
      BY <1>1, <2>2 DEF RestartCheck, StopCheck, OfflineCheck, StopApply, StopWait
    <2>3. CASE RepairCheck
      BY <1>0, <1>1, <2>3 DEF RepairCheck, Operations
    <2>4. CASE StartCheck
      <3>1. \/ op' \in {AfterStart, AfterFailedStart}
            \/ /\ op' \in {Goto("startWait"), Goto("deleteEnvelope"), Goto("runEnvelope")}
               /\ OthersReady(op.target) /\ vm' = vm
        BY <1>0, <2>4 DEF StartCheck, TypeOK, OperationOK, RuntimeTypeOK, VMStates, Running,
           RunningStates, At, MayStart, runtimeVars
      <3> QED
        BY <1>1, <1>2, <3>1
    <2>5. CASE DeleteEnvelope
      BY <1>2, <2>5 DEF DeleteEnvelope, At
    <2>6. CASE RunEnvelope
      <3>1. op'.pc = AfterRun.pc /\ op.pc = "runEnvelope"
        BY <1>0, <2>6, ContinuationsInFlow DEF RunEnvelope, At, Operations
      <3> QED
        BY <1>1, <3>1
    <2>7. CASE StartWait \/ MemberWait
      BY <1>1, <2>7 DEF StartWait, MemberWait
    <2> QED
      BY <1>4, <2>1, <2>2, <2>3, <2>4, <2>5, <2>6, <2>7 DEF MemberStep
  <1>5. CASE CreateStep
    <2>1. op.flow = "createHA"
      BY <1>0, <1>5 DEF CreateStep, PersistRunning, CreateCheck, SaveConfig, MarkRunning,
         CreateNetwork, CreateVolume, CreateMember, CreateWait, At, StepsOf, Flows, MemberCommands,
         StartSteps, StopSteps
    <2>2. Continues(op')
      BY <1>5, StepContinues, OnlyIdleBegins DEF Continues, CreateStep, PersistRunning, CreateCheck,
         SaveConfig, MarkRunning, CreateNetwork, CreateVolume, CreateMember, CreateWait, At
    <2>3. op'.actor # "none"
      BY NextInFlow DEF FlowOK, InFlow, MemberStarts
    <2> QED
      BY <2>1, <2>2, <2>3 DEF Continues, MemberStarts
  <1>6. CASE RemoveStep
    <2>1. op.flow \in DownFlows /\ op.pc # "idle"
      BY <1>0, <1>6 DEF RemoveStep, PersistStopped, ClusterPreflight, ClusterStop, ClusterDelete,
         DeleteVolume, DeleteNetwork, RemoveFile, At, StepsOf, Flows, DownFlows, MemberCommands,
         StartSteps, StopSteps, SetupSteps
    <2>2. Continues(op')
      BY <2>1, StepContinues, OnlyIdleBegins
    <2>3. op'.actor # "none"
      BY NextInFlow DEF FlowOK, InFlow, MemberStarts
    <2> QED
      BY <2>1, <2>2, <2>3 DEF Continues, MemberStarts, DownFlows
  <1>7. CASE FaultStep \/ WaitTimesOut
    BY <1>1, <1>3, <1>7 DEF FaultStep, Lost, StopFails, RunFails, StepFails, VMFails,
       RollBackVolumes, WaitTimesOut
  <1>8. CASE OperatorStep
    BY <1>8, BegunInFlow DEF OperatorStep, IssueMemberCommand, IssueCreate, IssueStart,
       IssueStop, IssueDelete, IssueKeepDelete, Issue
  <1>9. CASE SuperviseStep
    <2>1. CASE SuperviseRejoin
      <3>1. op'.flow = "rejoin"
        BY <2>1, BegunInFlow DEF SuperviseRejoin, Tick
      <3> QED
        BY <3>1 DEF MemberStarts
    <2> QED
      BY <1>3, <1>9, <2>1, BegunInFlow DEF SuperviseStep, SuperviseStop, SuperviseOffline,
         SuperviseAllReady, SuperviseStartAll, SuperviseStartOne, SuperviseRepair, Tick
  <1>10. CASE K3sStep \/ UNCHANGED vars \/ \E k \in Members : QuietEnds(k)
    BY <1>3, <1>10 DEF K3sStep, Unattended, vars, QuietEnds
  <1> QED
    BY <1>4, <1>5, <1>6, <1>7, <1>8, <1>9, <1>10 DEF Next, OperationStep

(* The peers that a look found Ready keep running while no VM fails. *)
LEMMA NextKeepsPeers ==
  TypeOK /\ FlowOK /\ LookOK /\ OthersUp /\ [Next]_vars => OthersUp'
  <1> SUFFICES ASSUME TypeOK, FlowOK, LookOK, OthersUp, [Next]_vars, calm',
                      \/ op'.pc \in {"stopApply", "stopWait"}
                      \/ op'.pc \in {"deleteEnvelope", "runEnvelope"} /\ op'.flow \in MemberStarts
               PROVE  \A m \in Members \ {op'.target} : m \in Up'
    BY DEF OthersUp, PeersRun, Up
  <1>1. ~VMFails /\ calm
    BY UpMoves DEF VMFails
  <1>2. \A m \in Up : m \in Up' \/ (op.pc \in {"stopApply", "clusterStop"} /\ m = op.target)
    BY <1>1, UpMoves
  <1>3. ASSUME OthersReady(op.target), vm' = vm, op'.target = op.target
        PROVE  \A m \in Members \ {op'.target} : m \in Up'
    BY <1>3 DEF OthersReady, Unready, Up, Running, RunningStates
  <1>4. CASE op'.pc \in {"stopApply", "stopWait"}
    <2>1. CASE op.pc \in {"stopApply", "stopWait"}
      BY <1>1, <1>2, <1>4, <2>1, StopsAfterLook DEF OthersUp, PeersRun, Up
    <2> QED
      BY <1>3, <1>4, <2>1, StopsAfterLook
  <1>5. CASE op'.pc \in {"deleteEnvelope", "runEnvelope"} /\ op'.flow \in MemberStarts
    <2>1. CASE op.pc \in {"deleteEnvelope", "runEnvelope"}
      BY <1>1, <1>2, <1>5, <2>1, StartsAfterLook DEF OthersUp, PeersRun, Up
    <2> QED
      BY <1>3, <1>5, <2>1, StartsAfterLook
  <1> QED
    BY <1>4, <1>5

-----------------------------------------------------------------------------
(* Turns begin when nobody has one, and end. *)
LEMMA TurnMoves ==
  ASSUME TypeOK, FlowOK, [Next]_vars, ~VMFails
  PROVE  \/ Turn' \in {Turn, "none"}
         \/ /\ Turn = "none" /\ Turn' \in Intent!Actors
            /\ Up' = Up /\ desired' = desired /\ calm' = calm
  <1>0. op.actor \in {"none", "operator", "supervisor"} /\ (op.flow = "none" <=> op.actor = "none")
    BY DEF TypeOK, OperationOK, Operations, FlowOK, InFlow
  <1>1. CASE OperatorStep \/ SuperviseStep
    <2>1. op.pc = "idle" /\ Turn = "none"
      <3>1. op.pc = "idle" /\ op.flow = "none"
        BY <1>0, <1>1, OnlyIdleBegins DEF FlowOK, InFlow, TypeOK, OperationOK, Operations, StepsOf,
           Flows, MemberCommands, StartSteps, StopSteps, SetupSteps
      <3> QED
        BY <1>0, <3>1 DEF Turn
    <2>2. Up' = Up /\ desired' = desired /\ calm' = calm
      BY <1>1 DEF OperatorStep, IssueMemberCommand, IssueCreate, IssueStart, IssueStop,
         IssueDelete, IssueKeepDelete, Issue, SuperviseStep, SuperviseStop, SuperviseOffline,
         SuperviseRejoin, SuperviseAllReady, SuperviseStartAll, SuperviseStartOne, SuperviseRepair,
         Tick, historyVars, runtimeVars, hostVars, fileVars, Up, Running
    <2>3. op' = op \/ op'.actor \in {"operator", "supervisor"}
      <3>1. CASE OperatorStep
        BY <3>1, BegunInFlow DEF OperatorStep, IssueMemberCommand, IssueCreate, IssueStart,
           IssueStop, IssueDelete, IssueKeepDelete, Issue
      <3>2. ASSUME NEW flow, NEW step, NEW id, Tick(flow, step, id)
            PROVE  op'.actor = "supervisor"
        BY <3>2, BegunInFlow DEF Tick
      <3>3. CASE SuperviseStep
        BY <3>2, <3>3 DEF SuperviseStep, SuperviseStop, SuperviseOffline, SuperviseRejoin,
           SuperviseAllReady, SuperviseStartAll, SuperviseStartOne, SuperviseRepair
      <3> QED
        BY <1>1, <3>1, <3>3
    <2> QED
      BY <2>1, <2>2, <2>3 DEF Turn, Intent!Actors
  <1>2. CASE ~OperatorStep /\ ~SuperviseStep
    <2>1. Continues(op')
      BY <1>2, StepContinues
    <2>2. op'.flow = "none" <=> op'.actor = "none"
      BY NextInFlow DEF FlowOK, InFlow
    <2> QED
      BY <1>0, <2>1, <2>2 DEF Continues, Turn
  <1> QED
    BY <1>1, <1>2

(* The steps that change the stored intent, and those who take them. *)
LEMMA IntentMoves ==
  ASSUME TypeOK, FlowOK, IntentOK, DataOK, [Next]_vars, desired' # desired
  PROVE  /\ Up' = Up /\ calm' = calm /\ Turn' = Turn
         /\ \/ Turn = "operator" /\ desired' \in Intent!Orders
            \/ Turn = "deletion" /\ Up = {} /\ desired' = DefaultDesired
  <1>0. /\ op \in Operations /\ op.pc \in StepsOf[op.flow] /\ op.flow \in Flows
        /\ op.flow = "none" <=> op.actor = "none"
        /\ op.pc # "removeFile" => op.target \in Members
        /\ desired \in DesiredStates
    BY DEF TypeOK, OperationOK, Operations, FlowOK, InFlow
  <1> USE <1>0 DEF fileVars, hostVars
  <1>1. op.actor # "supervisor"
    BY SupervisorStepHonours
  <1>2. op.flow \notin {"none", "deleteHA"} => Turn = "operator"
    BY <1>1 DEF Turn, Operations
  <1>3. vm' = vm => Up' = Up
    BY DEF Up, Running
  <1>4. \A step : (op' = Goto(step)) => Turn' = Turn
    BY DEF Goto, Turn, Operations
  <1>5. CASE PersistMemberIntent
    <2> DEFINE stop == In({"stopMember"})
               d    == WithMemberIntent(desired, op.target, stop)
    <2>1. /\ ValidDesired(d) /\ desired' = d
          /\ vm' = vm /\ calm' = calm
          /\ \E step : op' = Goto(step)
      BY <1>5 DEF PersistMemberIntent, runtimeVars, historyVars
    <2>2. op.flow \in MemberCommands /\ op.target \in Members
      BY <1>5 DEF PersistMemberIntent, At, StepsOf, Flows, MemberCommands, StartSteps,
         StopSteps, SetupSteps
    <2>3. d \in Intent!Orders
      <3>1. stop \in BOOLEAN
        BY DEF In
      <3> HIDE DEF stop
      <3>5. \A x : ValidDesired(x) => Intent!ValidDesired(x)
        BY DEF Intent!ValidDesired, ValidDesired, Cardinality, Intent!Cardinality, IsFiniteSet, Intent!IsFiniteSet
      <3>2. d = Intent!WithMemberIntent(desired, op.target, stop)
        BY DEF Intent!WithMemberIntent, WithMemberIntent
      <3>4. Intent!ValidDesired(d)
        BY <2>1, <3>5
      <3>3. op.target \in Intent!Members
        BY <2>2 DEF Intent!Members, Members
      <3> HIDE DEF d
      <3> QED
        BY <3>1, <3>2, <3>3, <3>4 DEF Intent!Orders
    <2> QED
      BY <1>2, <1>3, <1>4, <2>1, <2>2, <2>3 DEF MemberCommands
  <1>6. CASE PersistRunning \/ MarkRunning
    <2>1. op.flow = "createHA"
      BY <1>6 DEF PersistRunning, MarkRunning, At, StepsOf, Flows, MemberCommands, StartSteps,
         StopSteps, SetupSteps
    <2>2. /\ desired' = MarkedRunning(desired) /\ vm' = vm /\ calm' = calm
          /\ \E step : op' = Goto(step)
      BY <1>6 DEF PersistRunning, MarkRunning, runtimeVars, historyVars
    <2>3. desired' \in Intent!Orders
      BY <2>2 DEF MarkedRunning, Intent!MarkedRunning, Intent!Orders
    <2> QED
      BY <1>2, <1>3, <1>4, <2>1, <2>2, <2>3
  <1>7. CASE PersistStopped
    <2>1. op.flow \in {"stopHA", "deleteKeepData"}
      BY <1>7 DEF PersistStopped, At, StepsOf, Flows, MemberCommands, StartSteps,
         StopSteps, SetupSteps
    <2>2. /\ desired' = MarkedStopped(desired) /\ vm' = vm /\ calm' = calm
          /\ op' = Goto("clusterPreflight")
      BY <1>7 DEF PersistStopped, runtimeVars, historyVars
    <2>3. desired' \in Intent!Orders
      BY <2>2 DEF MarkedStopped, Intent!MarkedStopped, Intent!Orders
    <2> QED
      BY <1>2, <1>3, <1>4, <2>1, <2>2, <2>3
  <1>8. CASE RemoveFile
    <2>1. op.flow = "deleteHA" /\ op.pc = "removeFile"
      BY <1>8 DEF RemoveFile, At, StepsOf, Flows, MemberCommands, StartSteps,
         StopSteps, SetupSteps
    <2>2. op.target = 3
      <3>1. op.target \in 1..4 /\ RemovalOrder[op.target] = "desired"
        BY <1>8, <2>1 DEF RemoveFile, TypeOK, OperationOK, RemovalOrder
      <3> QED
        BY <3>1 DEF RemovalOrder
    <2>3. desired' = DefaultDesired /\ vm' = vm /\ calm' = calm
      BY <1>8 DEF RemoveFile, runtimeVars, historyVars
    <2>4. op'.flow = op.flow /\ op'.actor = op.actor
      <3>1. op' = [op EXCEPT !.target = 4]
        BY <1>8, <2>2 DEF RemoveFile, RemovalOrder
      <3> QED
        BY <3>1 DEF Operations
    <2>5. Up = {}
      BY <2>1 DEF DataOK, HasRemoved, Gone, Up, Running, RunningStates
    <2> QED
      BY <1>3, <2>1, <2>3, <2>4, <2>5 DEF Turn
  <1>9. CASE ~(PersistMemberIntent \/ PersistRunning \/ MarkRunning \/ PersistStopped \/ RemoveFile)
    <2>1. ~MemberStep
      BY <1>9
      DEF MemberStep, RestartCheck, StopCheck, OfflineCheck, RepairCheck, StopApply, StopWait,
          StartCheck, DeleteEnvelope, RunEnvelope, StartWait, MemberWait
    <2>2. ~CreateStep
      BY <1>9 DEF CreateStep, CreateCheck, SaveConfig, CreateNetwork, CreateVolume, CreateMember,
         CreateWait
    <2>3. ~RemoveStep
      BY <1>9 DEF RemoveStep, ClusterPreflight, ClusterStop, ClusterDelete, DeleteVolume,
         DeleteNetwork
    <2>4. ~(FaultStep \/ K3sStep \/ WaitTimesOut)
      BY DEF FaultStep, Lost, StopFails, RunFails, StepFails, VMFails, RollBackVolumes,
         K3sStep, Unattended, WaitTimesOut
    <2>5. ~(UNCHANGED vars \/ \E k \in Members : QuietEnds(k))
      BY DEF vars, QuietEnds
    <2>6. ~(OperatorStep \/ SuperviseStep)
      BY DEF OperatorStep, IssueMemberCommand, IssueCreate, IssueStart, IssueStop,
         IssueDelete, IssueKeepDelete, Issue, SuperviseStep, SuperviseStop, SuperviseOffline,
         SuperviseRejoin, SuperviseAllReady, SuperviseStartAll, SuperviseStartOne, SuperviseRepair,
         Tick
    <2> QED
      BY <2>1, <2>2, <2>3, <2>4, <2>5, <2>6 DEF Next, OperationStep
  <1> QED
    BY <1>5, <1>6, <1>7, <1>8, <1>9

(* A member is launched only if the intent, stored before, wants it. *)
LEMMA LaunchIsWanted ==
  ASSUME TypeOK, FlowOK, IntentOK, IntentFirst, OthersUp, op.pc = "runEnvelope"
  PROVE  /\ op.target \notin desired.stopped
         /\ \/ Turn \in {"operator", "supervisor"} /\ desired.cluster = "Running"
            \/ Turn = "operator" /\ (calm => PeersRun(op.target))
  <1>1. /\ op.flow \in {"createHA", "migrate", "startMember", "restartMember", "repair", "rejoin"}
        /\ op.actor \in {"operator", "supervisor"}
        /\ op.actor = "supervisor" => op.flow # "restartMember"
    BY DEF TypeOK, OperationOK, Operations, FlowOK, InFlow, StepsOf, Flows, MemberCommands,
       StartSteps, StopSteps, SetupSteps
  <1>2. Turn = op.actor
    BY <1>1 DEF Turn
  <1>3. CASE op.actor = "supervisor"
    BY <1>1, <1>2, <1>3 DEF IntentOK, AllWanted, WantsRunning
  <1>4. CASE op.actor = "operator"
    <2>1. op.flow \notin {"repair", "rejoin"}
      BY <1>4 DEF IntentFirst, IntentBy
    <2>2. CASE op.flow \in {"createHA", "migrate"}
      BY <1>2, <1>4, <2>2 DEF IntentFirst, IntentBy, SearchSteps, DefaultDesired
    <2>3. CASE op.flow \in MemberStarts
      BY <1>2, <1>4, <2>3 DEF IntentFirst, IntentBy, OthersUp
    <2> QED
      BY <1>1, <2>1, <2>2, <2>3 DEF MemberStarts
  <1> QED
    BY <1>1, <1>3, <1>4

(* A VM that fails only ever stops running. *)
LEMMA VMFailsOnlyStops ==
  ASSUME TypeOK, VMFails
  PROVE  \A m \in Members : Running(m)' => Running(m)
  <1>0. vm \in [Members -> VMStates]
    BY DEF TypeOK, RuntimeTypeOK
  <1> QED
    BY <1>0 DEF VMFails, Exits, Wedges, AllExit, Running, RunningStates

(* Every step is one that HAIntent allows, or none of its concern. *)
LEMMA StepHonoursIntent ==
  TypeOK /\ FlowOK /\ LookOK /\ IntentOK /\ DataOK /\ IntentFirst /\ OthersUp /\ [Next]_vars
    => [Intent!Next]_Intent!vars
  <1> SUFFICES ASSUME TypeOK, FlowOK, LookOK, IntentOK, DataOK, IntentFirst, OthersUp, [Next]_vars
               PROVE  [Intent!Next]_<<desired, Up, Turn, calm>>
    BY DEF Intent!vars, Up
  <1>0. /\ Members = Intent!Members /\ DefaultDesired = Intent!DefaultDesired
        /\ Up \subseteq Members /\ calm \in BOOLEAN
    BY DEF Members, Intent!Members, DefaultDesired, Intent!DefaultDesired, Up, TypeOK
  <1>1. CASE VMFails
    <2>1. /\ calm' = FALSE /\ desired' = desired
          /\ op' = op \/ op' = Idle
      BY <1>1 DEF VMFails, fileVars
    <2>2. Up' \subseteq Up
      BY <1>1, VMFailsOnlyStops DEF Up
    <2>3. Turn' \in {Turn, "none"}
      BY <2>1 DEF Turn, Idle
    <2>4. Intent!Fail
      BY <2>1, <2>2, <2>3 DEF Intent!Fail, Intent!MayEnd, Up
    <2> QED
      BY <2>4 DEF Intent!Next
  <1>2. CASE ~VMFails /\ desired' # desired
    <2>1. Intent!Order \/ Intent!Forget
      BY <1>0, <1>2, IntentMoves DEF Intent!Order, Intent!Forget, Up
    <2> QED
      BY <2>1 DEF Intent!Next
  <1>3. CASE ~VMFails /\ desired' = desired /\ Up' = Up
    <2>1. calm' = calm
      BY <1>3, UpMoves
    <2>2. CASE Turn' = Turn
      BY <1>3, <2>1, <2>2
    <2>3. CASE Turn' = "none"
      <3>1. Intent!Leave
        BY <1>3, <2>1, <2>3 DEF Intent!Leave, Up
      <3> QED
        BY <3>1 DEF Intent!Next
    <2>4. CASE Turn = "none" /\ Turn' \in Intent!Actors
      <3>1. Intent!Take(Turn')
        BY <1>3, <2>1, <2>4 DEF Intent!Take, Up
      <3> QED
        BY <2>4, <3>1 DEF Intent!Next
    <2> QED
      BY <1>3, <2>2, <2>3, <2>4, TurnMoves
  <1>4. CASE ~VMFails /\ desired' = desired /\ Up' # Up
    <2> DEFINE t == op.target
    <2>1. /\ calm' = calm /\ t \in Members
          /\ \/ op.pc = "runEnvelope" /\ t \notin Up /\ Up' = Up \cup {t}
             \/ op.pc \in {"stopApply", "clusterStop"} /\ t \in Up /\ Up' = Up \ {t}
      BY <1>0, <1>4, UpMoves
    <2>2. Turn' \in {Turn, "none"}
      BY <1>4, TurnMoves
    <2>3. PeersRun(t) => Intent!Members \ {t} \subseteq Up
      BY <1>0 DEF PeersRun, Up
    <2>4. CASE op.pc = "runEnvelope"
      <3>1. Up' = Up \cup {t} /\ t \notin Up
        BY <2>1, <2>4
      <3>2. Intent!Launch(t)
        BY <1>4, <2>1, <2>2, <2>3, <2>4, <3>1, LaunchIsWanted
        DEF Intent!Launch, Intent!MayEnd, Intent!PeersUp, Up
      <3> QED
        BY <1>0, <2>1, <3>2 DEF Intent!Next
    <2>5. CASE op.pc \in {"stopApply", "clusterStop"}
      <3>1. Up' = Up \ {t} /\ t \in Up
        BY <2>1, <2>5
      <3>2. /\ op.pc = "stopApply" => op.flow \notin DownFlows
            /\ op.pc = "clusterStop" => op.flow \in DownFlows
            /\ op.actor \in {"operator", "supervisor"}
        BY <2>5 DEF TypeOK, OperationOK, Operations, FlowOK, InFlow, StepsOf, Flows, DownFlows,
           MemberCommands, StartSteps, StopSteps, SetupSteps
      <3>3. CASE ~calm
        <4>1. Intent!Fail
          BY <1>0, <1>4, <2>1, <2>2, <3>1, <3>3 DEF Intent!Fail, Intent!MayEnd, Up
        <4> QED
          BY <4>1 DEF Intent!Next
      <3>4. CASE calm
        <4>1. \/ Turn = "deletion"
              \/ Turn \in {"operator", "supervisor"} /\ desired.cluster = "Stopped"
              \/ Turn \in {"operator", "supervisor"} /\ PeersRun(t)
          <5>1. CASE op.pc = "stopApply"
            BY <3>2, <3>4, <5>1 DEF OthersUp, Turn, DownFlows
          <5>2. CASE op.pc = "clusterStop"
            BY <3>2, <5>2 DEF IntentFirst, IntentBy, Turn, DownFlows
          <5> QED
            BY <2>5, <5>1, <5>2
        <4>2. Intent!TakeDown(t)
          BY <1>4, <2>1, <2>2, <2>3, <3>1, <4>1
          DEF Intent!TakeDown, Intent!MayEnd, Intent!PeersUp, Up
        <4> QED
          BY <1>0, <2>1, <4>2 DEF Intent!Next
      <3> QED
        BY <3>3, <3>4
    <2> QED
      BY <2>1, <2>4, <2>5
  <1> QED
    BY <1>1, <1>2, <1>3, <1>4

(* Whatever commands, passes, failures and deaths make up the life of the    *)
(* cluster, it honours the intent as HAIntent says: only operators change    *)
(* the intent, nobody launches what it keeps down, and in a cluster that is  *)
(* to run a member is taken down only beside running peers                   *)
(* (docs/k3s-ha.md:213, ha_members.go, reconcileSupervisedHAAfterService).   *)
THEOREM IntentHonoured == Spec => HonoursIntent
  <1> DEFINE IInv == /\ TypeOK /\ FlowOK /\ LookOK /\ IntentOK /\ DataOK
                     /\ IntentFirst /\ OthersUp
  <1>1. Init => IInv /\ Intent!Init
    <2>1. Init => IntentOK /\ IntentFirst /\ OthersUp
      BY DEF Init, Idle, IntentOK, IntentFirst, IntentBy, OthersUp, MemberStarts
    <2>2. Init => Intent!Init
      <3> SUFFICES ASSUME Init PROVE Intent!Init
        OBVIOUS
      <3>1. Up \in {{}, Members} /\ Turn = "none"
        BY DEF Init, Up, Running, RunningStates, Turn, Idle
      <3> QED
        BY <3>1 DEF Init, Intent!Init, Intent!DefaultDesired, DefaultDesired, Intent!Members,
           Members, Up
    <2> QED
      BY <2>1, <2>2, DataInvariant
  <1>2. IInv /\ [Next]_vars => IInv'
    BY DataInvariant, NextKeepsIntent, NextIntends, NextKeepsPeers
  <1>3. IInv /\ [Next]_vars => [Intent!Next]_Intent!vars
    BY StepHonoursIntent
  <1> HIDE DEF IInv
  <1> QED
    BY <1>1, <1>2, <1>3, PTL DEF Spec, HonoursIntent, Intent!Spec
=============================================================================
