----------------------------- MODULE HARecovery -----------------------------
(***************************************************************************)
(* RestoreHA and RecoverHA: a destructive restore of all member volumes    *)
(* from an etcd snapshot, its journal, the recovery that answers a failed  *)
(* restore, reruns after failures and dead processes, and the supervisor   *)
(* that the journal keeps away.                                            *)
(*                                                                         *)
(* What a volume holds is data[m]:                                         *)
(*   "absent"  no volume            "empty"  a volume without etcd data    *)
(*   "old"     the etcd data of the cluster as it was before the reset     *)
(*   "snap"    data of the cluster that the reset of member 1 founded      *)
(*   "torn"    data of which nobody knows how far it was rewritten         *)
(*   "fresh"   data of an empty cluster that a server founded by itself    *)
(* A file save is atomic, but may be reported as failed after the rename.  *)
(* op is the operation holding the operation lock, with its progress,      *)
(* which is kept in memory only.                                           *)
(***************************************************************************)
EXTENDS HADesiredState

CONSTANTS Commands,    (* the operator commands that are issued            *)
          Hosts,       (* the hosts they are issued on                     *)
          MaxFaults    (* bound: faults in a behaviour                     *)

ASSUME RecoveryAssumption ==
  /\ Commands \subseteq {"restore", "recover"}
  /\ Hosts \subseteq {"intact", "damaged", "empty"}
  /\ MaxFaults \in Nat

VARIABLES
  vm, data, network,       (* envelopes, member volumes, network           *)
  config, token, desired,  (* the config and token exist; stored intent    *)
  journal,                 (* ha-recovery.json                             *)
  op,                      (* the operation holding the lock               *)
  forgotten,               (* history: an attempt began over volumes that  *)
                           (* an earlier one left half rewritten, without  *)
                           (* a word of that in what it knows              *)
  faults

files == <<config, token, desired>>
vars  == <<vm, data, network, files, journal, op, forgotten, faults>>

Seed  == 1
Peers == Members \ {Seed}

-----------------------------------------------------------------------------
(* The journal. *)

PhaseOf == [enterStopping |-> "stopping-members", enterReset  |-> "resetting-member-1",
            enterStart    |-> "starting-member-1", enterRejoin |-> "rejoining-peers",
            enterVerify   |-> "verifying"]

Phases == {"none", "validated", "failed", "completed"} \cup {PhaseOf[s] : s \in DOMAIN PhaseOf}

(* prov: VolumeProvenance is there; new: its NewMemberIDs. *)
Journals == [phase : Phases, prov : BOOLEAN, new : SUBSET Members,
             succeeded : BOOLEAN, completedAt : BOOLEAN]

NoJournal == [phase |-> "none", prov |-> FALSE, new |-> {},
              succeeded |-> FALSE, completedAt |-> FALSE]

(* validateHARecoveryState, as far as a saved journal can fail it. *)
Readable(j) == ~(j.phase = "failed" /\ j.completedAt)

(* haRecoveryJournalRuntimeSafe *)
RuntimeSafe(j) == Readable(j) /\ j.succeeded /\ j.phase \in {"completed", "failed"}

(* haRecoveryJournalRequiresRecover *)
RequiresRecover(j) == ~RuntimeSafe(j) /\ j.new # {}

AllowsSupervision == journal.phase = "none" \/ RuntimeSafe(journal)

(* Mutant: only a journal that is runtime-safe may be overwritten. *)
AllowsRestore_SafeOnly == AllowsSupervision

(* ensureHARecoveryJournalAllowsRestore *)
AllowsRestore == Readable(journal) /\ ~RequiresRecover(journal)

Absent == {m \in Members : data[m] = "absent"}

(* Mutant: a volume that exists by now counts as preexisting. *)
MergedNew_Present(prior) == Absent

(* mergeHARecoveryVolumeProvenance: once new, for ever new. *)
MergedNew(prior) == prior \cup Absent

-----------------------------------------------------------------------------
(* Operations. *)

Preparing  == {"markStopped", "saveValidated", "installToken", "saveConfig", "createNetwork",
               "createVolume", "preflight", "saveJournal", "markRunning", "enterStopping"}
Restoring  == {"stopMember", "enterReset", "deleteSeed", "reset", "enterStart", "startSeed",
               "waitSeed", "enterRejoin", "clearPeer", "startPeer", "waitPeer",
               "enterVerify", "waitCluster", "complete"}
Recovering == {"protectMark", "protectStop", "startIntact", "saveFailed"}

(* reset and cleared are haRestoreProgress; failed says that the recovery    *)
(* has met an error, completedAt that the state in memory was completed.     *)
Operations == [pc : Preparing \cup Restoring \cup Recovering \cup {"idle"}, target : Members,
               prov : BOOLEAN, new : SUBSET Members, reset : {"no", "attempted", "complete"},
               cleared : SUBSET Peers, recovering : BOOLEAN, failed : BOOLEAN,
               completedAt : BOOLEAN]

Idle == [pc |-> "idle", target |-> Seed, prov |-> FALSE, new |-> {}, reset |-> "no",
         cleared |-> {}, recovering |-> FALSE, failed |-> FALSE, completedAt |-> FALSE]

TypeOK ==
  /\ vm \in [Members -> {"missing", "stopped", "running"}]
  /\ data \in [Members -> {"absent", "empty", "old", "snap", "torn", "fresh"}]
  /\ network \in BOOLEAN /\ config \in BOOLEAN /\ token \in BOOLEAN
  /\ desired \in DesiredStates
  /\ journal \in Journals /\ op \in Operations
  /\ forgotten \in BOOLEAN /\ faults \in 0..MaxFaults

(* A running cluster; one that was stopped and has lost VMs, volumes or its  *)
(* token; or nothing at all.                                                 *)
Init ==
  /\ \/ /\ "intact" \in Hosts
        /\ vm = [m \in Members |-> "running"] /\ data = [m \in Members |-> "old"]
        /\ network = TRUE /\ config = TRUE /\ token = TRUE /\ desired = DefaultDesired
     \/ /\ "damaged" \in Hosts
        /\ vm = [m \in Members |-> "missing"] /\ data \in [Members -> {"absent", "old"}]
        /\ network = TRUE /\ config = TRUE /\ token \in BOOLEAN
        /\ desired = MarkedStopped(DefaultDesired)
     \/ /\ "empty" \in Hosts
        /\ vm = [m \in Members |-> "missing"] /\ data = [m \in Members |-> "absent"]
        /\ network = FALSE /\ config = FALSE /\ token = FALSE /\ desired = DefaultDesired
  /\ journal = NoJournal /\ op = Idle /\ forgotten = FALSE /\ faults = 0

-----------------------------------------------------------------------------
(* The servers (external). *)

Up == {m \in Members : vm[m] = "running"}

(* Old data knows all members as voters, newer data those that joined it. *)
Serving(m) ==
  LET alike  == {n \in Members : data[n] = data[m]}
      voters == IF data[m] = "old" THEN Members ELSE alike
  IN /\ m \in Up /\ data[m] \in {"old", "snap", "fresh"}
     /\ 2 * Cardinality(alike \cap Up) > Cardinality(voters)

AllServing == \A m \in Members : Serving(m)

(* A server without data joins the seed, or founds a cluster if it is it. *)
CanFound(m) == m \in Up /\ data[m] = "empty" /\ (m = Seed \/ Serving(Seed))

Founds(m) ==
  /\ CanFound(m)
  /\ data' = [data EXCEPT ![m] = IF m = Seed THEN "fresh" ELSE data[Seed]]
  /\ UNCHANGED <<vm, network, files, journal, op, forgotten, faults>>

-----------------------------------------------------------------------------
(* How an operation continues. *)

At(step)   == op.pc = step
Goto(step) == [op EXCEPT !.pc = step]

Launched(m) == [vm EXCEPT ![m] = "running"]
Halted(m)   == [vm EXCEPT ![m] = IF @ = "running" THEN "stopped" ELSE @]
Deleted(m)  == [vm EXCEPT ![m] = "missing"]

(* The reset founds a new cluster: what any peer holds is old from then on. *)
SeedReset ==
  [m \in Members |-> CASE m = Seed -> "snap"
                       [] m # Seed /\ data[m] = "snap" -> "old"
                       [] OTHER -> data[m]]

(* Mutant: the peers are cleared before member 1 is reset. *)
AfterStopping_Rejoin == "enterRejoin"

AfterStopping == "enterReset"

(* Mutant: member 1 is cleared, too. *)
FirstPeer_Seed(o) == [o EXCEPT !.pc = "clearPeer", !.target = Seed]

FirstPeer(o) == [o EXCEPT !.pc = "clearPeer", !.target = 2]

NextPeer(o) ==
  CASE o.target < MemberCount       -> [o EXCEPT !.pc = "clearPeer", !.target = @ + 1]
    [] o.target = MemberCount /\ ~o.recovering -> [o EXCEPT !.pc = "enterVerify"]
    [] OTHER -> [o EXCEPT !.pc = IF o.failed THEN "saveFailed" ELSE "waitCluster"]

NextIntact(o) ==
  CASE o.target < MemberCount -> [o EXCEPT !.target = @ + 1]
    [] OTHER -> [o EXCEPT !.pc = IF o.failed THEN "saveFailed" ELSE "waitCluster"]

(* Mutant: an attempted reset counts as none. *)
Recovery_ForgetsAttempt(o) ==
  CASE o.reset # "complete" /\ o.new # {} ->
         [o EXCEPT !.pc = "protectMark", !.failed = TRUE]
    [] o.reset # "complete" /\ o.new = {} -> [o EXCEPT !.pc = "startIntact", !.target = Seed]
    [] OTHER -> [o EXCEPT !.pc = "startSeed"]

(* recoverFailedHARestore, by what the progress in memory says. *)
Recovery(o) ==
  CASE o.reset = "attempted" -> [o EXCEPT !.pc = "saveFailed", !.failed = TRUE]
    [] o.reset = "no" /\ o.new # {} ->
         [o EXCEPT !.pc = "protectMark", !.failed = TRUE]
    [] o.reset = "no" /\ o.new = {} -> [o EXCEPT !.pc = "startIntact", !.target = Seed]
    [] o.reset = "complete" -> [o EXCEPT !.pc = "startSeed"]

(* A failed step returns before the first mutation, is answered by the       *)
(* deferred recovery after it, and is noted by the recovery itself, which    *)
(* goes on with the next member where there is one.                          *)
AfterFailure ==
  LET o == [op EXCEPT !.failed = TRUE]
  IN CASE op.pc \in Preparing \cup {"saveFailed"} -> Idle
       [] op.pc \notin Preparing /\ ~op.recovering ->
            Recovery([op EXCEPT !.recovering = TRUE, !.completedAt = At("complete")])
       [] At("protectMark") -> Goto("protectStop")
       [] At("startIntact") -> NextIntact(o)
       [] op.recovering /\ op.pc \in {"clearPeer", "startPeer", "waitPeer"} -> NextPeer(o)
       [] OTHER -> [o EXCEPT !.pc = "saveFailed"]

(* What the step at hand saves as the journal. *)
Saves == op.pc \in DOMAIN PhaseOf \cup {"saveValidated", "saveJournal", "complete", "saveFailed"}

Saved ==
  LET j == [NoJournal EXCEPT !.prov = op.prov, !.new = op.new]
  IN CASE op.pc \in {"saveValidated", "saveJournal"} -> [j EXCEPT !.phase = "validated"]
       [] op.pc \in DOMAIN PhaseOf -> [j EXCEPT !.phase = PhaseOf[op.pc]]
       [] At("complete") -> [j EXCEPT !.phase = "completed", !.succeeded = TRUE,
                                      !.completedAt = TRUE]
       [] At("saveFailed") -> [j EXCEPT !.phase = "failed", !.succeeded = ~op.failed,
                                        !.completedAt = op.completedAt]

-----------------------------------------------------------------------------
(* RestoreHA and RecoverHA take the lock and check.  A refusal is no action. *)

(* The volumes all hold the data of one cluster, or none. *)
OneCluster == (\A m \in Members : data[m] \in {"absent", "old"}) \/ (\A m \in Members : data[m] = "snap")

Begin(step, prov, new) ==
  /\ op' = [Idle EXCEPT !.pc = step, !.prov = prov, !.new = new]
  /\ forgotten' = (forgotten \/ (new = {} /\ ~OneCluster))
  /\ UNCHANGED <<vm, data, network, files, journal, faults>>

MayRestore == config /\ token /\ network /\ Absent = {} /\ AllowsRestore

BeginRestore ==
  /\ op = Idle /\ "restore" \in Commands
  /\ MayRestore
  /\ Begin("saveJournal", FALSE, {})

Interrupted == journal.phase # "none" /\ ~RuntimeSafe(journal)

(* What RecoverHA takes for new volumes. *)
RecoveryNew == MergedNew(IF Interrupted THEN journal.new ELSE {})

(* validateHARecoveryRetryState and the provenance it needs *)
MayRetry ==
  /\ Readable(journal)
  /\ Interrupted => journal.prov /\ (config \/ desired.cluster = "Stopped")
  /\ journal.phase # "none" /\ ~Interrupted => config

EnvelopesComplete == (\A m \in Members : vm[m] = "missing") \/ (network /\ Absent = {})

NothingThere == ~token /\ ~network /\ Absent = Members /\ \A m \in Members : vm[m] = "missing"

MayRecover == MayRetry /\ EnvelopesComplete /\ (config \/ Interrupted \/ NothingThere)

BeginRecover ==
  /\ op = Idle /\ "recover" \in Commands
  /\ MayRecover
  /\ Begin("markStopped", TRUE, RecoveryNew)

(* Envelopes without all volumes: refused, once the journal knows of them. *)
RejectRecover ==
  /\ op = Idle /\ "recover" \in Commands
  /\ MayRetry /\ ~EnvelopesComplete /\ Interrupted
  /\ journal.new # RecoveryNew
  /\ journal' = [journal EXCEPT !.new = RecoveryNew]
  /\ UNCHANGED <<vm, data, network, files, op, forgotten, faults>>

-----------------------------------------------------------------------------
(* RecoverHA prepares files, network and volumes. *)

MarkStopped ==
  /\ op.pc \in {"markStopped", "protectMark"}
  /\ desired' = MarkedStopped(desired)
  /\ op' = Goto(IF At("markStopped") THEN "saveValidated" ELSE "protectStop")
  /\ UNCHANGED <<vm, data, network, config, token, journal, forgotten, faults>>

InstallToken ==
  /\ At("installToken")
  /\ token' = TRUE
  /\ op' = Goto("saveConfig")
  /\ UNCHANGED <<vm, data, network, config, desired, journal, forgotten, faults>>

SaveConfig ==
  /\ At("saveConfig")
  /\ config' = TRUE
  /\ op' = Goto("createNetwork")
  /\ UNCHANGED <<vm, data, network, token, desired, journal, forgotten, faults>>

CreateNetwork ==
  /\ At("createNetwork")
  /\ network' = TRUE
  /\ op' = Goto("createVolume")
  /\ UNCHANGED <<vm, data, files, journal, forgotten, faults>>

VolumeMade == [data EXCEPT ![op.target] = IF @ = "absent" THEN "empty" ELSE @]

CreateVolume ==
  /\ At("createVolume")
  /\ data' = VolumeMade
  /\ op' = IF op.target < MemberCount
           THEN [op EXCEPT !.target = @ + 1]
           ELSE Goto("preflight")
  /\ UNCHANGED <<vm, network, files, journal, forgotten, faults>>

FinalPreflight ==
  /\ At("preflight")
  /\ op' = IF network /\ Absent = {} THEN Goto("saveJournal") ELSE Idle
  /\ UNCHANGED <<vm, data, network, files, journal, forgotten, faults>>

-----------------------------------------------------------------------------
(* restoreHAValidatedLocked *)

(* Every save of the journal, and where the restore goes from there. *)
SaveJournal ==
  /\ Saves
  /\ journal' = Saved
  /\ op' = CASE At("saveValidated") -> Goto("installToken")
             [] At("saveJournal")   -> Goto("markRunning")
             [] At("enterStopping") -> [op EXCEPT !.pc = "stopMember", !.target = MemberCount]
             [] At("enterReset")    -> Goto("deleteSeed")
             [] At("enterStart")    -> Goto("startSeed")
             [] At("enterRejoin")   -> FirstPeer(op)
             [] At("enterVerify")   -> Goto("waitCluster")
             [] OTHER               -> Idle
  /\ UNCHANGED <<vm, data, network, files, forgotten, faults>>

MarkRunning ==
  /\ At("markRunning")
  /\ desired' = MarkedRunning(desired)
  /\ op' = Goto("enterStopping")
  /\ UNCHANGED <<vm, data, network, config, token, journal, forgotten, faults>>

StopMember ==
  /\ At("stopMember")
  /\ vm' = Halted(op.target)
  /\ op' = IF op.target > 1 THEN [op EXCEPT !.target = @ - 1] ELSE Goto(AfterStopping)
  /\ UNCHANGED <<data, network, files, journal, forgotten, faults>>

(* resetAttempted is set when the envelope is gone. *)
DeleteSeed ==
  /\ At("deleteSeed") /\ Seed \notin Up
  /\ vm' = Deleted(Seed)
  /\ op' = [op EXCEPT !.pc = "reset", !.reset = "attempted"]
  /\ forgotten' = FALSE
  /\ UNCHANGED <<data, network, files, journal, faults>>

(* runHARestoreReset; a collision of addresses retries before K3s runs. *)
RunReset ==
  /\ At("reset")
  /\ data' = SeedReset
  /\ op' = [op EXCEPT !.pc = "enterStart", !.reset = "complete", !.target = Seed]
  /\ UNCHANGED <<vm, network, files, journal, forgotten, faults>>

(* startHAMemberForRecovery leaves a running member alone. *)
Starting == IF At("startSeed") THEN Seed ELSE op.target

StartMember ==
  /\ op.pc \in {"startSeed", "startPeer", "startIntact"}
  /\ vm' = Launched(Starting)
  /\ op' = CASE At("startSeed")   -> Goto("waitSeed")
             [] At("startPeer")   -> Goto("waitPeer")
             [] At("startIntact") -> NextIntact(op)
  /\ UNCHANGED <<data, network, files, journal, forgotten, faults>>

WaitSeed ==
  /\ At("waitSeed") /\ Serving(Seed)
  /\ op' = IF op.recovering THEN FirstPeer(op) ELSE Goto("enterRejoin")
  /\ UNCHANGED <<vm, data, network, files, journal, forgotten, faults>>

(* clearHAPeerDataForRecovery; the recovery clears what is not yet cleared. *)
PeerCleared == [data EXCEPT ![op.target] = "empty"]

ClearPeer ==
  /\ At("clearPeer")
  /\ IF op.target \in op.cleared
     THEN op' = Goto("startPeer") /\ UNCHANGED <<vm, data>>
     ELSE /\ op.target \notin Up
          /\ vm' = Deleted(op.target) /\ data' = PeerCleared
          /\ op' = [op EXCEPT !.pc = "startPeer", !.cleared = @ \cup {op.target}]
  /\ UNCHANGED <<network, files, journal, forgotten, faults>>

WaitPeer ==
  /\ At("waitPeer") /\ Serving(op.target)
  /\ op' = NextPeer(op)
  /\ UNCHANGED <<vm, data, network, files, journal, forgotten, faults>>

(* waitHAClusterReady asks every member about itself. *)
WaitCluster ==
  /\ At("waitCluster") /\ AllServing
  /\ op' = Goto(IF op.recovering THEN "saveFailed" ELSE "complete")
  /\ UNCHANGED <<vm, data, network, files, journal, forgotten, faults>>

(* stopExactHARecoveryServerEnvelopes *)
ProtectStop ==
  /\ At("protectStop")
  /\ vm' = [m \in Members |-> IF m \in Up THEN "stopped" ELSE vm[m]]
  /\ op' = Goto("saveFailed")
  /\ UNCHANGED <<data, network, files, journal, forgotten, faults>>

(* A check refuses, or a wait for what cannot come about ends. *)
Refused ==
  \/ At("deleteSeed") /\ Seed \in Up
  \/ At("clearPeer") /\ op.target \notin op.cleared /\ op.target \in Up
  \/ /\ ~\E m \in Members : CanFound(m)
     /\ \/ At("waitSeed") /\ ~Serving(Seed)
        \/ At("waitPeer") /\ ~Serving(op.target)
        \/ At("waitCluster") /\ ~AllServing

StepRefused ==
  /\ Refused
  /\ op' = AfterFailure
  /\ UNCHANGED <<vm, data, network, files, journal, forgotten, faults>>

-----------------------------------------------------------------------------
(* The supervisor, as far as the journal decides about it: each of these is  *)
(* the end of one of HALifecycle's operations.  (A cluster that has lost all *)
(* of its volumes is founded anew there; here it is one the operator         *)
(* stopped.)                                                                 *)

Supervised == op = Idle /\ config /\ AllowsSupervision

SuperviseStart == \E m \in Members \ Up :
  /\ Supervised /\ desired.cluster = "Running"
  /\ network /\ token /\ Absent = {}
  /\ vm' = Launched(m)
  /\ UNCHANGED <<data, network, files, journal, op, forgotten, faults>>

SuperviseStop == \E m \in Up :
  /\ Supervised /\ desired.cluster = "Stopped"
  /\ vm' = Halted(m)
  /\ UNCHANGED <<data, network, files, journal, op, forgotten, faults>>

-----------------------------------------------------------------------------
(* Faults.  A step that fails, or in which the process dies, may have had    *)
(* its effect, or part of it.  (Where a failure after the effect is the same *)
(* as death before the next step it is left to that: the steps that save the *)
(* intent, token and config or create the network.)                          *)

Torn(m) == [data EXCEPT ![m] = "torn"]

PartOfStep ==
  /\ CASE At("reset")                -> vm' = vm /\ data' \in {data, Torn(Seed), SeedReset}
       [] At("createVolume")         -> vm' = vm /\ data' \in {data, VolumeMade}
       [] At("stopMember")           -> vm' \in {vm, Halted(op.target)} /\ data' = data
       [] At("deleteSeed") /\ Seed \notin Up -> vm' \in {vm, Deleted(Seed)} /\ data' = data
       [] op.pc \in {"startSeed", "startPeer", "startIntact"} /\ Starting \notin Up ->
            vm' \in {vm, Deleted(Starting), Launched(Starting)} /\ data' = data
       [] At("clearPeer") /\ op.target \notin op.cleared \cup Up ->
            vm' = Deleted(op.target) /\ data' \in {data, Torn(op.target), PeerCleared}
       [] At("protectStop")          ->
            /\ \E left \in SUBSET Up :
                 vm' = [m \in Members |-> IF m \in Up \ left THEN "stopped" ELSE vm[m]]
            /\ data' = data
       [] OTHER                      -> vm' = vm /\ data' = data
  /\ IF Saves THEN journal' \in {journal, Saved} ELSE journal' = journal
  /\ UNCHANGED <<network, files>>

Fault == faults < MaxFaults /\ faults' = faults + 1

StepFails ==
  /\ Fault /\ op # Idle
  /\ PartOfStep
  /\ op' = AfterFailure
  /\ UNCHANGED forgotten

ProcessDies ==
  /\ Fault /\ op # Idle
  /\ PartOfStep
  /\ op' = Idle
  /\ UNCHANGED forgotten

(* A helper left behind is an error to the recovery, which goes on.          *)
CleanupFails ==
  /\ Fault
  /\ op.recovering /\ op.pc \in {"startIntact", "startSeed"}
  /\ op' = [op EXCEPT !.failed = TRUE]
  /\ UNCHANGED <<vm, data, network, files, journal, forgotten>>

VMExits == \E m \in Up :
  /\ Fault
  /\ vm' = Halted(m)
  /\ UNCHANGED <<data, network, files, journal, op, forgotten>>

(* Somebody deletes a volume while a restore is interrupted. *)
VolumeLost == \E m \in Members \ Absent :
  /\ Fault
  /\ op = Idle /\ ~AllowsSupervision /\ m \notin Up
  /\ data' = [data EXCEPT ![m] = "absent"]
  /\ UNCHANGED <<vm, network, files, journal, op, forgotten>>

-----------------------------------------------------------------------------
PrepareStep == \/ MarkStopped \/ InstallToken \/ SaveConfig \/ CreateNetwork
               \/ CreateVolume \/ FinalPreflight

RestoreStep == \/ SaveJournal \/ MarkRunning \/ StopMember \/ DeleteSeed \/ RunReset
               \/ StartMember \/ WaitSeed \/ ClearPeer \/ WaitPeer \/ WaitCluster
               \/ ProtectStop \/ StepRefused

BeginStep     == BeginRestore \/ BeginRecover
OperationStep == PrepareStep \/ RestoreStep
SuperviseStep == SuperviseStart \/ SuperviseStop
FaultStep     == StepFails \/ ProcessDies \/ CleanupFails \/ VMExits \/ VolumeLost

Next == \/ BeginStep \/ RejectRecover \/ OperationStep \/ SuperviseStep \/ FaultStep
        \/ \E m \in Members : Founds(m)

Spec == Init /\ [][Next]_vars

(* The process goes on, servers without data join, and an operator whose     *)
(* journal is not runtime-safe runs a command again.                         *)
Fairness ==
  /\ WF_vars(OperationStep)
  /\ \A m \in Members : WF_vars(Founds(m))
  /\ WF_vars(BeginRestore /\ ~AllowsSupervision)
  /\ WF_vars(BeginRecover /\ ~AllowsSupervision)

FairSpec == Spec /\ Fairness

-----------------------------------------------------------------------------
(* Properties. *)

(* "Automatic reconciliation resumes only after a completed successful      *)
(* restore or a failed restore whose recorded automatic recovery            *)
(* successfully returned the original cluster to a runtime-safe state"      *)
(* (docs/k3s-ha.md:297): wherever the journal lets the supervisor in, the   *)
(* volumes hold one cluster.                                                *)
ResumesOnlySafe == op = Idle /\ AllowsSupervision => OneCluster

(* The same, but for attempts that began over half rewritten volumes and    *)
(* failed before their own reset: however often an operator retries, and    *)
(* whichever step fails or dies.                                            *)
ResumesUnlessForgotten == AllowsSupervision /\ ~forgotten => OneCluster

(* No server ever founds an empty cluster on the volumes that RecoverHA     *)
(* created, or that were lost (recoverFailedHARestore, "would manufacture a *)
(* different empty cluster").                                               *)
NoManufacturedCluster == \A m \in Members : data[m] # "fresh"

(* Restore rewrites member 1 only while no server runs at all, a peer only  *)
(* while its own server does not, and a peer's data is given up only when   *)
(* the snapshot is on member 1 (restoreHAValidatedLocked).                  *)
RewritesAtRest ==
  [][/\ At("reset") /\ data' # data => Up = {}
     /\ \A p \in Peers \ Absent : data'[p] # data[p] /\ data'[p] \in {"empty", "torn"}
          => p \notin Up /\ data[Seed] = "snap"]_vars

(* The restores the code leaves to more than a rerun: a volume is missing   *)
(* beside an envelope or without provenance, or the journal is unreadable.  *)
BeyondRerun == \/ Absent # {} /\ ~(EnvelopesComplete /\ journal.prov)
               \/ ~Readable(journal)

(* "rerun the same explicit restore or recover command" (docs/k3s-ha.md:    *)
(* 301) ends with a journal that lets the supervisor in again.              *)
RerunsReopen == []<>(AllowsSupervision \/ BeyondRerun)
=============================================================================
