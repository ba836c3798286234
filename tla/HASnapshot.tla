----------------------------- MODULE HASnapshot -----------------------------
(***************************************************************************)
(* SnapshotHA: K3s writes an etcd snapshot into the volume of the source   *)
(* member, the member is stopped, a helper VM with that volume copies the  *)
(* snapshot and the token into a temporary directory of the host, the      *)
(* member is started again, and the directory is renamed to the output.    *)
(* Deferred functions undo what a failure leaves.  The operation holds the *)
(* operation lock throughout; a pass of the supervisor needs it too and is *)
(* one step here.  The process or the whole host may die at any point.     *)
(*                                                                         *)
(* What is known of a file of the package:                                 *)
(*   "none"     not there               "cached"   in buffers of the helper *)
(*   "written"  in buffers of the host  "synced"   on its disk              *)
(*   "torn"     anything else                                              *)
(***************************************************************************)
EXTENDS Naturals, FiniteSets

CONSTANTS Outputs,         (* the output directories that are asked for      *)
          Supervised,      (* whether a supervisor runs                      *)
          MaxFaults        (* bound: failing calls and deaths                *)

ASSUME SupervisedAssumption == Supervised \in BOOLEAN
ASSUME OutputsAssumption == IsFiniteSet(Outputs) /\ Outputs # {}
ASSUME BoundsAssumption  == MaxFaults \in Nat

VARIABLES
  shared,    (* whether the runtime lets two VMs mount one volume: no        *)
             (* document of it says, so it is chosen once and for all        *)
  source,    (* the VM of the source member                                 *)
  helper,    (* the helper VM                                               *)
  guest,     (* the snapshot of this operation is in the member's volume    *)
  package,   (* the files of the temporary directory                        *)
  flushed,   (* whether that directory was flushed                          *)
  out,       (* for each output, what is there                              *)
  promised,  (* history: the outputs that were returned as a success        *)
  op,        (* the operation and what its deferred functions look at       *)
  died,      (* history: the source died since the operation began          *)
  excused,   (* history: a helper was left behind by a death or, reported,  *)
             (* by a cleanup that failed as well                            *)
  faults

files == <<package, flushed, out, promised>>
vms   == <<source, helper, guest>>
vars  == <<shared, vms, files, op, died, excused, faults>>

Files   == {"snapshot", "token", "manifest"}
Content == {"none", "torn", "cached", "written", "synced"}

NoPackage == [f \in Files |-> "none"]
NoOutput  == [state |-> "none", files |-> NoPackage, flushed |-> FALSE]
Running   == {"running", "ready"}

Steps    == {"save", "find", "mkdir", "stop", "helper", "copySnapshot", "copyToken", "flush",
             "drop", "secureSnapshot", "secureToken", "manifest", "start", "wait",
             "cluster", "syncPackage", "rename", "syncParent"}
Deferred == {"undoHelper", "undoStop", "undoWait", "removeTemp", "removeGuest", "release"}

(* known: the snapshot's name is known, so that its removal is deferred.     *)
Operations == [pc : Steps \cup Deferred \cup {"idle"}, out : Outputs, known : BOOLEAN,
               helperStarted : BOOLEAN, sourceStopped : BOOLEAN,
               err : BOOLEAN, undoErr : BOOLEAN, guestErr : BOOLEAN]

Idle == [pc |-> "idle", out |-> CHOOSE o \in Outputs : TRUE, known |-> FALSE,
         helperStarted |-> FALSE, sourceStopped |-> FALSE,
         err |-> FALSE, undoErr |-> FALSE, guestErr |-> FALSE]

TypeOK ==
  /\ shared \in BOOLEAN
  /\ source \in Running \cup {"stopped", "missing"}
  /\ helper \in {"none", "running", "stopped"}
  /\ guest \in BOOLEAN /\ flushed \in BOOLEAN /\ died \in BOOLEAN /\ excused \in BOOLEAN
  /\ package \in [Files -> Content]
  /\ out \in [Outputs -> [state : {"none", "named", "durable"}, files : [Files -> Content],
                          flushed : BOOLEAN]]
  /\ promised \subseteq Outputs
  /\ op \in Operations
  /\ op.helperStarted => op.sourceStopped
  /\ op.pc \in {"copySnapshot", "copyToken", "flush"} => op.helperStarted
  /\ faults \in 0..MaxFaults

(* A healthy cluster.                                                        *)
Init ==
  /\ shared \in BOOLEAN
  /\ source = "ready" /\ helper = "none" /\ guest = FALSE
  /\ package = NoPackage /\ flushed = FALSE /\ out = [o \in Outputs |-> NoOutput] /\ promised = {}
  /\ op = Idle /\ died = FALSE /\ excused = FALSE /\ faults = 0

-----------------------------------------------------------------------------
At(step)   == op.pc = step
Goto(step) == op' = [op EXCEPT !.pc = step]
Fault      == faults < MaxFaults /\ faults' = faults + 1
NoFault    == UNCHANGED faults

(* The first deferred function that has something to do: the last deferred   *)
(* is run first.                                                             *)
Unwind(r) ==
  IF r.err /\ r.helperStarted THEN "undoHelper"
  ELSE IF r.err /\ r.sourceStopped THEN "undoStop"
  ELSE IF r.known THEN "removeTemp" ELSE "release"

FailsWith(r) == LET e == [r EXCEPT !.err = TRUE] IN op' = [e EXCEPT !.pc = Unwind(e)]
Fails        == FailsWith(op)

(* The volume can be mounted by a VM while no other has it.                  *)
VolumeFree(other) == shared \/ other \notin Running

(* What the helper has not flushed is lost as it goes.                       *)
Lost(p) == [f \in Files |-> IF p[f] = "cached" THEN "torn" ELSE p[f]]

-----------------------------------------------------------------------------
(* The export *)

(* All members are Ready, the etcd topology is exact, and no helper is left. *)
Begin(o) ==
  /\ At("idle") /\ out[o].state = "none"
  /\ source = "ready" /\ helper = "none"
  /\ op' = [Idle EXCEPT !.pc = "save", !.out = o]
  /\ package' = NoPackage /\ flushed' = FALSE /\ guest' = FALSE
  /\ died' = FALSE /\ excused' = FALSE
  /\ UNCHANGED <<source, helper, out, promised, faults>>

(* A save that fails may have written the file all the same.                 *)
Save ==
  /\ At("save")
  /\ \/ source \in Running /\ guest' = TRUE /\ Goto("find") /\ NoFault
     \/ guest' \in BOOLEAN /\ Fails /\ (IF source \in Running THEN Fault ELSE NoFault)
  /\ UNCHANGED <<source, helper, files, died, excused>>

Find ==
  /\ At("find")
  /\ \/ source \in Running /\ op' = [op EXCEPT !.pc = "mkdir", !.known = TRUE] /\ NoFault
     \/ Fails /\ (IF source \in Running THEN Fault ELSE NoFault)
  /\ UNCHANGED <<vms, files, died, excused>>

MakeTemporary ==
  /\ At("mkdir")
  /\ \/ Goto("stop") /\ NoFault
     \/ Fails /\ Fault
  /\ UNCHANGED <<vms, files, died, excused>>

(* Mutant: the stop counts as applied once it is reported as done. *)
Stop_Reported ==
  /\ At("stop")
  /\ \/ /\ source' = "stopped" /\ op' = [op EXCEPT !.pc = "helper", !.sourceStopped = TRUE] /\ NoFault
     \/ /\ source' \in {source, "stopped"} /\ Fails /\ Fault
  /\ UNCHANGED <<helper, guest, files, died, excused>>

(* The stop counts as applied before it is issued: it may be, and yet fail.  *)
Stop ==
  /\ At("stop")
  /\ LET armed == [op EXCEPT !.sourceStopped = TRUE]
     IN \/ source' = "stopped" /\ op' = [armed EXCEPT !.pc = "helper"] /\ NoFault
        \/ source' \in {source, "stopped"} /\ FailsWith(armed) /\ Fault
  /\ UNCHANGED <<helper, guest, files, died, excused>>

(* Mutant: the helper counts as started once that is reported. *)
StartHelper_Reported ==
  /\ At("helper")
  /\ \/ /\ helper = "none" /\ VolumeFree(source) /\ helper' = "running"
        /\ op' = [op EXCEPT !.pc = "copySnapshot", !.helperStarted = TRUE] /\ NoFault
     \/ /\ helper' \in (IF VolumeFree(source) THEN {helper, "running"} ELSE {helper}) /\ Fails /\ Fault
  /\ UNCHANGED <<source, guest, files, died, excused>>

(* So does the start of the helper, which sleeps for five minutes.           *)
StartHelper ==
  /\ At("helper")
  /\ LET armed == [op EXCEPT !.helperStarted = TRUE]
     IN \/ /\ helper = "none" /\ VolumeFree(source)
           /\ helper' = "running" /\ op' = [armed EXCEPT !.pc = "copySnapshot"] /\ NoFault
        \/ /\ helper' \in (IF VolumeFree(source) THEN {helper, "running"} ELSE {helper})
           /\ FailsWith(armed) /\ Fault
  /\ UNCHANGED <<source, guest, files, died, excused>>

(* cp in the helper; one that fails may have written some of it.             *)
Copy(f, step, next) ==
  /\ At(step)
  /\ \/ helper = "running" /\ package' = [package EXCEPT ![f] = "cached"] /\ Goto(next) /\ NoFault
     \/ helper = "running" /\ package' = [package EXCEPT ![f] = "torn"] /\ Fails /\ Fault
     \/ helper # "running" /\ UNCHANGED <<package, faults>> /\ Fails
  /\ UNCHANGED <<vms, flushed, out, promised, died, excused>>

CopySnapshot == Copy("snapshot", "copySnapshot", "copyToken")
CopyToken    == Copy("token", "copyToken", "flush")

Flush ==
  /\ At("flush")
  /\ \/ /\ helper = "running" /\ Goto("drop") /\ NoFault
        /\ package' = [f \in Files |-> IF package[f] = "cached" THEN "written" ELSE package[f]]
     \/ helper = "running" /\ Fails /\ Fault /\ UNCHANGED package
     \/ helper # "running" /\ Fails /\ UNCHANGED <<package, faults>>
  /\ UNCHANGED <<vms, flushed, out, promised, died, excused>>

(* deleteHARecoveryHelper stops and deletes the helper and looks after each  *)
(* of the two whether it was.                                                *)
DeletesHelper == helper' = "none" /\ package' = Lost(package)
KeepsHelper   == /\ helper # "none" /\ helper' \in {helper, "stopped"}
                 /\ package' = IF helper' = "stopped" THEN Lost(package) ELSE package

DropHelper ==
  /\ At("drop")
  /\ \/ DeletesHelper /\ op' = [op EXCEPT !.pc = "secureSnapshot", !.helperStarted = FALSE] /\ NoFault
     \/ KeepsHelper /\ Fails /\ Fault
  /\ UNCHANGED <<source, guest, flushed, out, promised, died, excused>>

(* secureHAArtifact; the token is compared and both files are hashed next.   *)
Secure(f, step, next) ==
  /\ At(step)
  /\ \/ package[f] # "none" /\ Goto(next) /\ NoFault
        /\ package' = [package EXCEPT ![f] = IF @ = "written" THEN "synced" ELSE @]
     \/ Fails /\ Fault /\ UNCHANGED package
  /\ UNCHANGED <<vms, flushed, out, promised, died, excused>>

SecureSnapshot == Secure("snapshot", "secureSnapshot", "secureToken")
SecureToken    == Secure("token", "secureToken", "manifest")

WriteManifest ==
  /\ At("manifest")
  /\ \/ package' = [package EXCEPT !["manifest"] = "synced"] /\ Goto("start") /\ NoFault
     \/ package' \in {package, [package EXCEPT !["manifest"] = "synced"]} /\ Fails /\ Fault
  /\ UNCHANGED <<vms, flushed, out, promised, died, excused>>

(* startHAMemberForRecovery leaves a VM alone that runs, and deletes and     *)
(* launches another.                                                         *)
StartsSource ==
  IF source \in Running THEN UNCHANGED source
  ELSE VolumeFree(helper) /\ source' = "running"

StartFails ==
  IF VolumeFree(helper) THEN source' \in {source, "missing", "running"} /\ source \notin Running /\ Fault
  ELSE source' = "missing" /\ source \notin Running /\ NoFault

StartSource ==
  /\ At("start")
  /\ \/ StartsSource /\ Goto("wait") /\ NoFault
     \/ StartFails /\ Fails
  /\ UNCHANGED <<helper, guest, files, died, excused>>

(* The wait ends with a Ready member or with its time; the latter is no      *)
(* fault when the VM is not there.                                           *)
Waits(ok, failed) ==
  \/ source = "ready" /\ ok /\ NoFault
  \/ failed /\ (IF source \in Running THEN Fault ELSE NoFault)

WaitSource ==
  /\ At("wait")
  /\ Waits(op' = [op EXCEPT !.pc = "cluster", !.sourceStopped = FALSE], Fails)
  /\ UNCHANGED <<vms, files, died, excused>>

WaitCluster ==
  /\ At("cluster")
  /\ Waits(Goto("syncPackage"), Fails)
  /\ UNCHANGED <<vms, files, died, excused>>

(* Mutant: the temporary directory is not flushed before it gets its name. *)
SyncPackage_Not == /\ At("syncPackage") /\ Goto("rename")
                   /\ UNCHANGED <<vms, files, died, excused, faults>>

SyncPackage ==
  /\ At("syncPackage")
  /\ \/ flushed' = TRUE /\ Goto("rename") /\ NoFault
     \/ Fails /\ Fault /\ UNCHANGED flushed
  /\ UNCHANGED <<vms, package, out, promised, died, excused>>

Publish ==
  /\ At("rename")
  /\ \/ /\ out' = [out EXCEPT ![op.out] = 
                         [state |-> "named", files |-> package, flushed |-> flushed]]
        /\ Goto("syncParent") /\ NoFault
     \/ Fails /\ Fault /\ UNCHANGED out
  /\ UNCHANGED <<vms, package, flushed, promised, died, excused>>

(* Mutant: the directory of the output is not flushed. *)
SyncParent_Not == /\ At("syncParent") /\ Goto(Unwind(op))
                  /\ UNCHANGED <<vms, files, died, excused, faults>>

SyncParent ==
  /\ At("syncParent")
  /\ \/ out' = [out EXCEPT ![op.out].state = "durable"] /\ Goto(Unwind(op)) /\ NoFault
     \/ Fails /\ Fault /\ UNCHANGED out
  /\ UNCHANGED <<vms, package, flushed, promised, died, excused>>

-----------------------------------------------------------------------------
(* The deferred functions *)

UndoHelper ==
  /\ At("undoHelper")
  /\ \/ DeletesHelper /\ Goto("undoStop") /\ NoFault /\ UNCHANGED excused
     \/ KeepsHelper /\ op' = [op EXCEPT !.pc = "undoStop", !.undoErr = TRUE] /\ Fault /\ excused' = TRUE
  /\ UNCHANGED <<source, guest, flushed, out, promised, died>>

(* The source is started whether or not the helper is gone.                  *)
UndoStop ==
  /\ At("undoStop")
  /\ \/ StartsSource /\ Goto("undoWait") /\ NoFault
     \/ StartFails /\ op' = [op EXCEPT !.pc = "removeTemp", !.undoErr = TRUE]
  /\ UNCHANGED <<helper, guest, files, died, excused>>

UndoWait ==
  /\ At("undoWait")
  /\ Waits(Goto("removeTemp"), op' = [op EXCEPT !.pc = "removeTemp", !.undoErr = TRUE])
  /\ UNCHANGED <<vms, files, died, excused>>

RemoveTemporary ==
  /\ At("removeTemp") /\ Goto("removeGuest") /\ package' = NoPackage
  /\ UNCHANGED <<vms, flushed, out, promised, died, excused, faults>>

(* Mutant: the snapshot is left where an export fails. *)
RemoveGuest_OnSuccess ==
  /\ At("removeGuest")
  /\ \/ ~op.err /\ source \in Running /\ guest' = FALSE /\ Goto("release") /\ NoFault
     \/ op.err /\ UNCHANGED guest /\ Goto("release") /\ NoFault
     \/ /\ guest' \in {guest, FALSE} /\ op' = [op EXCEPT !.pc = "release", !.guestErr = TRUE]
        /\ IF source \in Running THEN Fault ELSE NoFault
  /\ UNCHANGED <<source, helper, files, died, excused>>

(* A removal that fails is a warning after a success, else a further error.  *)
RemoveGuest ==
  /\ At("removeGuest")
  /\ \/ source \in Running /\ guest' = FALSE /\ Goto("release") /\ NoFault
     \/ source \in Running /\ guest' \in BOOLEAN /\ (guest' => guest) /\ Fault
        /\ op' = [op EXCEPT !.pc = "release", !.guestErr = TRUE]
     \/ source \notin Running /\ UNCHANGED <<guest, faults>>
        /\ op' = [op EXCEPT !.pc = "release", !.guestErr = TRUE]
  /\ UNCHANGED <<source, helper, files, died, excused>>

Release ==
  /\ At("release") /\ op' = [op EXCEPT !.pc = "idle"]
  /\ promised' = IF op.err THEN promised ELSE promised \cup {op.out}
  /\ UNCHANGED <<vms, package, flushed, out, died, excused, faults>>

-----------------------------------------------------------------------------
(* The environment *)

(* Mutant: the helper sleeps until it is deleted. *)
HelperEnds_Never == FALSE /\ UNCHANGED vars

HelperEnds ==
  /\ helper = "running" /\ helper' = "stopped" /\ package' = Lost(package)
  /\ UNCHANGED <<source, guest, flushed, out, promised, op, died, excused, faults>>

(* A pass of the supervisor takes the lock and launches the source if that   *)
(* is down; the launch fails while the helper has the volume.                *)
Pass ==
  /\ Supervised /\ At("idle") /\ source \notin Running
  /\ source' = IF VolumeFree(helper) THEN "running" ELSE "missing"
  /\ source' # source
  /\ UNCHANGED <<helper, guest, files, op, died, excused, faults>>

(* The operator deletes what an interrupted snapshot left.                   *)
HelperRemoved ==
  /\ At("idle") /\ helper # "none" /\ helper' = "none" /\ package' = Lost(package)
  /\ UNCHANGED <<source, guest, flushed, out, promised, op, died, excused, faults>>

MemberReady ==
  /\ source = "running" /\ source' = "ready"
  /\ UNCHANGED <<helper, guest, files, op, died, excused, faults>>

MemberDies ==
  /\ source \in Running /\ source' = "stopped" /\ died' = TRUE /\ Fault
  /\ UNCHANGED <<helper, guest, files, op, excused>>

(* The kernel releases the lock of a process that dies; the rest stays.      *)
ProcessDies ==
  /\ ~At("idle") /\ Fault
  /\ op' = Idle /\ died' = FALSE
  /\ excused' = (excused \/ op.helperStarted)
  /\ package' = IF helper = "running" THEN package ELSE Lost(package)
  /\ UNCHANGED <<vms, flushed, out, promised>>

(* A host that goes down loses all that was not synced, and the name of a    *)
(* directory if its parent was not.                                          *)
Survives(p, dir) == [f \in Files |-> IF p[f] \in {"cached", "written"} THEN "torn"
                                     ELSE IF p[f] = "synced" /\ ~dir THEN "torn" ELSE p[f]]

HostDies ==
  /\ Fault
  /\ source' = (IF source \in Running THEN "stopped" ELSE source)
  /\ helper' = (IF helper = "running" THEN "stopped" ELSE helper)
  /\ package' = NoPackage /\ flushed' = FALSE
  /\ \E kept \in BOOLEAN :
       out' = [o \in Outputs |->
                 IF out[o].state # "named" THEN out[o]
                 ELSE IF kept THEN [out[o] EXCEPT !.state = "durable",
                                                  !.files = Survives(@, out[o].flushed)]
                 ELSE NoOutput]
  /\ op' = Idle /\ died' = FALSE /\ excused' = (excused \/ op.helperStarted)
  /\ UNCHANGED <<guest, promised>>

-----------------------------------------------------------------------------
Export == \/ \E o \in Outputs : Begin(o)
          \/ Save \/ Find \/ MakeTemporary \/ Stop \/ StartHelper \/ CopySnapshot \/ CopyToken
          \/ Flush \/ DropHelper \/ SecureSnapshot \/ SecureToken \/ WriteManifest
          \/ StartSource \/ WaitSource \/ WaitCluster \/ SyncPackage \/ Publish \/ SyncParent

Undo == UndoHelper \/ UndoStop \/ UndoWait \/ RemoveTemporary \/ RemoveGuest \/ Release

Next == /\ \/ Export \/ Undo \/ HelperEnds \/ HelperRemoved \/ Pass
           \/ MemberReady \/ MemberDies \/ ProcessDies \/ HostDies
        /\ UNCHANGED shared

Spec == Init /\ [][Next]_vars

(* An operation goes on, passes come, and five minutes pass.                 *)
FairSpec == /\ Spec /\ WF_vars(Export /\ ~At("idle") /\ UNCHANGED shared)
            /\ WF_vars(Undo /\ UNCHANGED shared) /\ WF_vars(Pass /\ UNCHANGED shared)
            /\ WF_vars(HelperEnds /\ UNCHANGED shared) /\ WF_vars(MemberReady /\ UNCHANGED shared)

-----------------------------------------------------------------------------
(* A directory of the output's name holds the three files whole, whatever    *)
(* died and when: SnapshotHA flushes each file and the directory before the  *)
(* rename, and the helper before it goes.                                    *)
PublishedIsWhole ==
  \A o \in Outputs : out[o].state # "none" =>
    \A f \in Files : out[o].files[f] \in {"written", "synced"}

(* What SnapshotHA returned as a success is there after the host went down.  *)
SuccessSurvives == \A o \in promised : out[o].state # "none"

(* The source and the helper never have the volume mounted together, though  *)
(* a stop or a launch may take effect and be reported as failed, unless a    *)
(* death or a cleanup that failed too left the helper behind.                *)
MountedOnce == helper = "running" /\ source \in Running => excused

(* SnapshotHA returns, with or without an error, with the source up again,   *)
(* unless it says so or the VM died by itself.                               *)
ReturnsSourceUp ==
  [][At("release") /\ op'.pc = "idle" /\ ~op.undoErr /\ ~died
       => source \in Running]_vars

(* An export that failed leaves no snapshot in the member's volume once its  *)
(* name was known, unless that is reported.                                  *)
NoSilentLeftover ==
  [][At("release") /\ op.known /\ ~op.guestErr => ~guest]_vars

(* Whatever an interrupted snapshot left, the source comes back: its helper  *)
(* ends by itself, and the supervisor launches the member then.              *)
SourceComesBack == (source # "ready") ~> (source = "ready")

(* What is published is whole, and stays once it was reported.               *)
OutputKept == PublishedIsWhole /\ SuccessSurvives

(* What SnapshotHA leaves behind of its own making it reports.               *)
ReportsLeftovers == ReturnsSourceUp /\ NoSilentLeftover
=============================================================================
