--------------------------- MODULE SingleServer ----------------------------
(***************************************************************************)
(* A cluster of one server: create, start, stop, delete, backup, restore,  *)
(* upgrade and the change of its network policy, as the operator runs them *)
(* one after the other, beside the supervisor that starts the server again *)
(* whenever it finds it down.  Nothing orders the two: there is no lock    *)
(* and no stored intent, only the container runtime and the saved files.   *)
(*                                                                         *)
(* Each of the two processes is a little stack machine: pc is the next     *)
(* step, stack the procedures it returns to, and every container command   *)
(* and every file is a step of its own.  An inspection is one step, so     *)
(* what it saw (seen) may be stale when the next command acts on it.  The  *)
(* settings of a server (its image and its network policy) are one value.  *)
(* The clusters modelled have no advertise address (refreshAdvertiseAddress *)
(* leaves their configuration alone); AgentNode models a moving address.   *)
(***************************************************************************)
EXTENDS Integers, Sequences, FiniteSets

CONSTANTS Settings,       (* values of the settings of a server              *)
          FirstSettings,  (* those a server may have at first                *)
          Commands,       (* the operator commands that are issued           *)
          FaultKinds,     (* faults that occur                               *)
          MaxCommands,    (* bound: commands, if there is no supervisor      *)
          MaxRaced,       (* bound: commands beside the supervisor           *)
          MaxWrites,      (* bound: later changes of the data, without one   *)
          MaxFaults                                               (* bound   *)

AllCommands == {"create", "start", "stop", "delete", "deleteKeep", "backup",
                "restore", "upgrade", "policy"}

ASSUME SettingsAssumption == Settings # {} /\ FirstSettings \subseteq Settings
ASSUME CommandsAssumption == Commands \subseteq AllCommands
ASSUME FaultsAssumption   == FaultKinds \subseteq {"fail", "die", "interrupt", "exit", "wedge"}
ASSUME BoundsAssumption   == {MaxCommands, MaxRaced, MaxWrites, MaxFaults} \subseteq Nat

VARIABLES
  vm,         (* the server envelope and the settings it was made with       *)
  volume,     (* what its data volume holds                                  *)
  helper,     (* the container that reads or writes the volume for a backup  *)
  config,     (* the saved configuration                                     *)
  kubeconfig, current,   (* whether the kubeconfig exists, whether the       *)
                         (* cluster is the current one                       *)
  archives,   (* the published backups                                       *)
  proc,       (* the two processes                                           *)
  works,      (* the settings with which a server can become Ready           *)
  shared,     (* whether the runtime lets two containers mount one volume    *)
  written,    (* history: the last version of the data the cluster accepted  *)
  givenUp,    (* history: the operator gave data up                          *)
  commands, faults

runtime == <<vm, volume, helper>>
files   == <<config, kubeconfig, current, archives>>
history == <<works, shared, written, givenUp, commands>>
vars    == <<runtime, files, proc, history, faults>>

-----------------------------------------------------------------------------
Processes == {"operator", "supervisor"}

(* A volume holds nothing a server could boot (torn), nothing at all, or a   *)
(* cluster's data; version 0 is a cluster just made on a blank volume.       *)
Volumes == [kind : {"none", "blank", "torn", "cluster"}, version : 0..MaxWrites + 1]
NoData(kind) == [kind |-> kind, version |-> 0]
Data(n)      == [kind |-> "cluster", version |-> n]

(* stable: the stable node address has been learnt. *)
Configs == [set : Settings, stable : BOOLEAN]
Files   == [state : {"absent", "torn", "whole"}, cfg : Configs]
Backups == [data : Volumes, cfg : Configs]

Running == vm.state \notin {"missing", "stopped"}

Seen == IF Running THEN "running" ELSE vm.state

(* What validateBackup accepts: what Publish renamed into place. *)
ValidBackups == archives

AnyConfig == [set |-> CHOOSE s \in Settings : TRUE, stable |-> TRUE]
AnyBackup == [data |-> NoData("none"), cfg |-> AnyConfig]

(* proc: in is the procedure whose step is shared with another one, goal and *)
(* copy what an upgrade moves to and returns to, resume that a backup        *)
(* stopped the server, failed its first error.                               *)
Idle == [cmd |-> "none", in |-> "none", pc |-> "idle", stack |-> <<>>, ok |-> TRUE,
         seen |-> "missing", cfg |-> AnyConfig, goal |-> AnyConfig, copy |-> AnyBackup,
         keep |-> FALSE, resume |-> FALSE, failed |-> FALSE, cancelled |-> FALSE,
         outcome |-> "none"]

CommandSteps ==        (* they run container commands *)
  {"ensureVolume", "look", "delete", "run", "waitReady", "readKubeconfig", "status",
   "stop", "deleteLook", "deleteStop", "deleteEnvelope", "deleteVolume", "backupLook",
   "backupVolume", "helperStart", "archive", "restoreLook", "clear", "extract",
   "helperDelete", "unchanged"}
OtherSteps ==
  {"idle", "returned", "createBegin", "startBegin", "saveKubeconfig", "truncateConfig",
   "writeConfig", "setCurrent", "truncateStable", "writeStable", "deleteBegin",
   "removeConfig", "removeKubeconfig", "clearCurrent", "backupBegin", "backupStopped",
   "publish", "backupEnd", "backupStarted", "restoreStopped", "truncateManifest",
   "writeManifest", "changeBegin", "backedUp", "removed", "recreated", "cleaned",
   "rolledBack"}

TypeOK ==
  /\ vm \in [state : {"missing", "stopped", "booting", "ready", "wedged"}, set : Settings]
  /\ volume \in Volumes
  /\ helper \in {"missing", "running", "stopped"}
  /\ config \in Files
  /\ kubeconfig \in BOOLEAN /\ current \in BOOLEAN
  /\ archives \subseteq Backups
  /\ \A p \in Processes :
       /\ proc[p].cmd \in Commands \cup {"none", "supervise"}
       /\ proc[p].pc \in CommandSteps \cup OtherSteps \cup {"off"}
       /\ Len(proc[p].stack) <= 3
       /\ \A i \in DOMAIN proc[p].stack : proc[p].stack[i] \in OtherSteps
       /\ proc[p].seen \in {"missing", "stopped", "running"}
       /\ proc[p].cfg \in Configs /\ proc[p].goal \in Configs /\ proc[p].copy \in Backups
       /\ \A f \in {"ok", "keep", "resume", "failed", "cancelled"} : proc[p][f] \in BOOLEAN
       /\ proc[p].outcome \in {"none", "changed", "restored"}
  /\ works \subseteq Settings /\ shared \in BOOLEAN
  /\ written \in 0..MaxWrites + 1 /\ givenUp \in BOOLEAN
  /\ commands \in Nat /\ faults \in 0..MaxFaults

(* Either nothing exists yet, or a Ready server with data and a saved        *)
(* configuration.  Some settings may not work on this machine, a supervisor  *)
(* may be installed, and nothing says whether the runtime mounts twice.      *)
Init ==
  /\ \E s \in FirstSettings :
       \/ /\ vm = [state |-> "missing", set |-> s] /\ volume = NoData("none")
          /\ config = [state |-> "absent", cfg |-> AnyConfig]
          /\ kubeconfig = FALSE /\ current = FALSE /\ written = 0
       \/ /\ vm = [state |-> "ready", set |-> s] /\ volume = Data(1)
          /\ config = [state |-> "whole", cfg |-> [set |-> s, stable |-> TRUE]]
          /\ kubeconfig = TRUE /\ current = TRUE /\ written = 1
  /\ works \in {S \in SUBSET Settings : vm.set \in S} /\ shared \in BOOLEAN
  /\ helper = "missing" /\ archives = {}
  /\ \E step \in {"idle", "off"} :
       proc = [operator |-> Idle, supervisor |-> [Idle EXCEPT !.pc = step]]
  /\ givenUp = FALSE /\ commands = 0 /\ faults = 0

-----------------------------------------------------------------------------
(* How a process continues. *)

At(p, step)   == proc[p].pc = step
Supervised    == ~At("supervisor", "off")
Becomes(p, r) == proc' = [proc EXCEPT ![p] = r]
Goto(p, step) == [proc[p] EXCEPT !.pc = step]

(* Call a procedure and continue at label when it returns. *)
Calling(r, callee, label) == [r EXCEPT !.pc = callee, !.stack = <<label>> \o r.stack]

(* A procedure returns, with an error or without. *)
Returning(r, ok) == [r EXCEPT !.pc = Head(r.stack), !.stack = Tail(r.stack), !.ok = ok]
Returns(p, ok)   == Returning(proc[p], ok)

(* Can a container mount the volume now?  other: one that mounts it runs.    *)
Mountable(other) == volume.kind # "none" /\ (shared \/ ~other)

(* What the container runtime needs for a command to succeed. *)
Possible(step) ==
  /\ step \in {"delete", "deleteEnvelope"} => vm.state = "stopped"
  /\ step = "run" => vm.state = "missing" /\ Mountable(helper = "running")
  /\ step \in {"waitReady", "readKubeconfig"} => vm.state = "ready"
  /\ step \in {"status", "unchanged"} => vm.state \in {"stopped", "ready"}
  /\ step \in {"stop", "deleteStop"} => vm.state # "missing"
  /\ step = "deleteVolume" => (vm.state = "missing" /\ helper = "missing") \/ volume.kind = "none"
  /\ step = "backupVolume" => volume.kind # "none"
  /\ step = "helperStart" => helper = "missing" /\ Mountable(Running)
  /\ step \in {"archive", "clear", "extract"} => helper = "running"

Bootable == vm.state = "booting" /\ vm.set \in works /\ volume.kind \in {"blank", "cluster"}

(* The step is a container command, and it succeeds. *)
Runs(p, step) == At(p, step) /\ Possible(step) /\ ~proc[p].cancelled

-----------------------------------------------------------------------------
(* Create and Start: make sure that the server runs, then write what is      *)
(* needed to reach it.                                                        *)

CreateBegin(p) ==
  /\ At(p, "createBegin")
  /\ Becomes(p, [Goto(p, "ensureVolume") EXCEPT !.in = "create"])
  /\ UNCHANGED <<runtime, files, history, faults>>

(* loadClusterConfig refuses a missing or a half-written file. *)
StartBegin(p) ==
  /\ At(p, "startBegin")
  /\ Becomes(p, IF config.state = "whole"
                THEN [Goto(p, "look") EXCEPT !.in = "start", !.cfg = config.cfg]
                ELSE Returns(p, FALSE))
  /\ UNCHANGED <<runtime, files, history, faults>>

EnsureVolume(p) ==
  /\ Runs(p, "ensureVolume")
  /\ volume' = IF volume.kind = "none" THEN NoData("blank") ELSE volume
  /\ Becomes(p, CASE proc[p].in = "create"  -> Goto(p, "look")
                  [] proc[p].in = "restore" -> Goto(p, "helperStart")
                  [] proc[p].in = "start"   ->
                       Goto(p, IF proc[p].seen = "stopped" THEN "delete" ELSE "run"))
  /\ UNCHANGED <<vm, helper, files, history, faults>>

(* Create takes a running envelope as it is, and a stopped one's stored settings. *)
Look(p) ==
  /\ Runs(p, "look")
  /\ LET creating == proc[p].in = "create"
         stored   == creating /\ Seen = "stopped" /\ config.state = "whole"
         next     == IF Seen = "running" THEN "waitReady"
                     ELSE IF ~creating   THEN "ensureVolume"
                     ELSE IF Seen = "stopped" THEN "delete" ELSE "run"
     IN Becomes(p, [Goto(p, next) EXCEPT !.seen = Seen,
                                         !.cfg = IF stored THEN config.cfg ELSE @])
  /\ UNCHANGED <<runtime, files, history, faults>>

DeleteStopped(p) ==
  /\ Runs(p, "delete")
  /\ vm' = [vm EXCEPT !.state = "missing"]
  /\ Becomes(p, Goto(p, "run"))
  /\ UNCHANGED <<volume, helper, files, history, faults>>

Run(p) ==
  /\ Runs(p, "run")
  /\ vm' = [state |-> "booting", set |-> proc[p].cfg.set]
  /\ Becomes(p, Goto(p, "waitReady"))
  /\ UNCHANGED <<volume, helper, files, history, faults>>

WaitReady(p) ==
  /\ Runs(p, "waitReady")
  /\ Becomes(p, Goto(p, "readKubeconfig"))
  /\ UNCHANGED <<runtime, files, history, faults>>

ReadKubeconfig(p) ==
  /\ Runs(p, "readKubeconfig")
  /\ Becomes(p, Goto(p, "saveKubeconfig"))
  /\ UNCHANGED <<runtime, files, history, faults>>

SaveKubeconfig(p) ==
  /\ At(p, "saveKubeconfig")
  /\ kubeconfig' = TRUE
  /\ Becomes(p, Goto(p, "truncateConfig"))
  /\ UNCHANGED <<runtime, config, current, archives, history, faults>>

(* writePrivateFile truncates the file and then writes it: saveClusterConfig *)
(* of the settings in use, again of the address learnt, or of a manifest.    *)
TruncateConfig(p) ==
  /\ proc[p].pc \in {"truncateConfig", "truncateStable", "truncateManifest"}
  /\ config' = [state |-> "torn", cfg |-> AnyConfig]
  /\ Becomes(p, Goto(p, CASE At(p, "truncateConfig")   -> "writeConfig"
                          [] At(p, "truncateStable")   -> "writeStable"
                          [] At(p, "truncateManifest") -> "writeManifest"))
  /\ UNCHANGED <<runtime, kubeconfig, current, archives, history, faults>>

WriteConfig(p) ==
  /\ proc[p].pc \in {"writeConfig", "writeStable", "writeManifest"}
  /\ config' = [state |-> "whole",
                cfg |-> IF At(p, "writeManifest") THEN proc[p].copy.cfg ELSE proc[p].cfg]
  /\ Becomes(p, CASE At(p, "writeStable")   -> Returns(p, TRUE)
                  [] At(p, "writeManifest") -> Goto(p, "startBegin")
                  [] At(p, "writeConfig")   ->
                       Goto(p, IF proc[p].in = "create" THEN "setCurrent" ELSE "status"))
  /\ UNCHANGED <<runtime, kubeconfig, current, archives, history, faults>>

(* The last step saves the node address once it has been learnt. *)
Finished(r) ==
  IF r.cfg.stable \/ ~(vm.state = "ready")
  THEN Returning(r, TRUE)
  ELSE [r EXCEPT !.pc = "truncateStable", !.cfg.stable = TRUE]

SetCurrent(p) ==
  /\ At(p, "setCurrent")
  /\ current' = TRUE
  /\ Becomes(p, IF proc[p].in = "create" THEN Goto(p, "status") ELSE Finished(proc[p]))
  /\ UNCHANGED <<runtime, config, kubeconfig, archives, history, faults>>

ReadStatus(p) ==
  /\ Runs(p, "status")
  /\ Becomes(p, IF proc[p].in = "create" THEN Finished(proc[p]) ELSE Goto(p, "setCurrent"))
  /\ UNCHANGED <<runtime, files, history, faults>>

-----------------------------------------------------------------------------
(* Stop and DeleteServer. *)

Stop(p) ==
  /\ Runs(p, "stop")
  /\ vm' = [vm EXCEPT !.state = "stopped"]
  /\ Becomes(p, Returns(p, TRUE))
  /\ UNCHANGED <<volume, helper, files, history, faults>>

(* serverConfigurationFiles refuses a half-written configuration. *)
DeleteBegin(p) ==
  /\ At(p, "deleteBegin")
  /\ Becomes(p, IF config.state = "torn" THEN Returns(p, FALSE) ELSE Goto(p, "deleteLook"))
  /\ UNCHANGED <<runtime, files, history, faults>>

(* Mutant: keeping the data is forgotten. *)
EnvelopeGone_DropsData(r) == [r EXCEPT !.pc = "deleteVolume"]

(* Mutant: the volume is left behind. *)
EnvelopeGone_KeepsData(r) == IF r.keep THEN Returning(r, TRUE) ELSE [r EXCEPT !.pc = "removeConfig"]

EnvelopeGone(r) == IF r.keep THEN Returning(r, TRUE) ELSE [r EXCEPT !.pc = "deleteVolume"]

DeleteLook(p) ==
  /\ Runs(p, "deleteLook")
  /\ Becomes(p, CASE Seen = "missing" -> EnvelopeGone(proc[p])
                  [] Seen = "stopped" -> Goto(p, "deleteEnvelope")
                  [] OTHER            -> Goto(p, "deleteStop"))
  /\ UNCHANGED <<runtime, files, history, faults>>

DeleteStop(p) ==
  /\ Runs(p, "deleteStop")
  /\ vm' = [vm EXCEPT !.state = "stopped"]
  /\ Becomes(p, Goto(p, "deleteEnvelope"))
  /\ UNCHANGED <<volume, helper, files, history, faults>>

DeleteEnvelope(p) ==
  /\ Runs(p, "deleteEnvelope")
  /\ vm' = [vm EXCEPT !.state = "missing"]
  /\ Becomes(p, EnvelopeGone(proc[p]))
  /\ UNCHANGED <<volume, helper, files, history, faults>>

DeleteVolume(p) ==
  /\ Runs(p, "deleteVolume")
  /\ volume' = NoData("none")
  /\ Becomes(p, Goto(p, "removeConfig"))
  /\ UNCHANGED <<vm, helper, files, history, faults>>

RemoveConfig(p) ==
  /\ At(p, "removeConfig")
  /\ config' = [state |-> "absent", cfg |-> AnyConfig]
  /\ Becomes(p, Goto(p, "removeKubeconfig"))
  /\ UNCHANGED <<runtime, kubeconfig, current, archives, history, faults>>

RemoveKubeconfig(p) ==
  /\ At(p, "removeKubeconfig")
  /\ kubeconfig' = FALSE
  /\ Becomes(p, Goto(p, "clearCurrent"))
  /\ UNCHANGED <<runtime, config, current, archives, history, faults>>

ClearCurrent(p) ==
  /\ At(p, "clearCurrent")
  /\ current' = FALSE
  /\ Becomes(p, Returns(p, TRUE))
  /\ UNCHANGED <<runtime, config, kubeconfig, archives, history, faults>>

-----------------------------------------------------------------------------
(* BackupServer: stop the server, read the volume through the helper,        *)
(* publish, then the deferred steps: delete the helper, start the server.    *)

BackupBegin(p) ==
  /\ At(p, "backupBegin")
  /\ Becomes(p, IF config.state = "whole"
                THEN [Goto(p, "backupLook") EXCEPT
                        !.in = "backup", !.resume = FALSE, !.failed = FALSE,
                        !.copy = [data |-> NoData("none"), cfg |-> config.cfg]]
                ELSE Returns(p, FALSE))
  /\ UNCHANGED <<runtime, files, history, faults>>

(* Mutant: the volume is read under the running server. *)
StopsForBackup_Never(seen) == FALSE

StopsForBackup(seen) == seen = "running"

BackupLook(p) ==
  /\ Runs(p, "backupLook")
  /\ Becomes(p, IF StopsForBackup(Seen) THEN Calling(proc[p], "stop", "backupStopped")
                ELSE Goto(p, "backupVolume"))
  /\ UNCHANGED <<runtime, files, history, faults>>

(* Only a server that this backup stopped is started again. *)
BackupStopped(p) ==
  /\ At(p, "backupStopped")
  /\ Becomes(p, IF proc[p].ok THEN [Goto(p, "backupVolume") EXCEPT !.resume = TRUE]
                ELSE Returns(p, FALSE))
  /\ UNCHANGED <<runtime, files, history, faults>>

BackupVolume(p) ==
  /\ Runs(p, "backupVolume")
  /\ Becomes(p, Goto(p, "helperStart"))
  /\ UNCHANGED <<runtime, files, history, faults>>

(* startBackupHelper refuses any helper that exists already. *)
HelperStart(p) ==
  /\ Runs(p, "helperStart")
  /\ helper' = "running"
  /\ Becomes(p, Goto(p, IF proc[p].in = "backup" THEN "archive" ELSE "clear"))
  /\ UNCHANGED <<vm, volume, files, history, faults>>

(* A volume read while a server writes to it is not a consistent snapshot. *)
Archive(p) ==
  /\ Runs(p, "archive")
  /\ Becomes(p, [Goto(p, "publish") EXCEPT
                   !.copy.data = IF Running THEN NoData("torn") ELSE volume])
  /\ UNCHANGED <<runtime, files, history, faults>>

Publish(p) ==
  /\ At(p, "publish")
  /\ archives' = archives \cup {proc[p].copy}
  /\ Becomes(p, Goto(p, "helperDelete"))
  /\ UNCHANGED <<runtime, config, kubeconfig, current, history, faults>>

HelperGone(r) ==
  IF r.in = "backup" THEN [r EXCEPT !.pc = "backupEnd"]
  ELSE IF r.failed   THEN Returning(r, FALSE)
  ELSE [r EXCEPT !.pc = "truncateManifest"]

HelperDelete(p) ==
  /\ Runs(p, "helperDelete")
  /\ helper' = "missing"
  /\ Becomes(p, HelperGone(proc[p]))
  /\ UNCHANGED <<vm, volume, files, history, faults>>

(* Mutant: the deferred start is forgotten. *)
BackupEnded_StaysDown(r) == Returning(r, ~r.failed)

BackupEnded(r) == IF r.resume THEN Calling(r, "startBegin", "backupStarted")
                  ELSE Returning(r, ~r.failed)

BackupEnd(p) ==
  /\ At(p, "backupEnd")
  /\ Becomes(p, BackupEnded(proc[p]))
  /\ UNCHANGED <<runtime, files, history, faults>>

BackupStarted(p) ==
  /\ At(p, "backupStarted")
  /\ Becomes(p, Returns(p, proc[p].ok /\ ~proc[p].failed))
  /\ UNCHANGED <<runtime, files, history, faults>>

-----------------------------------------------------------------------------
(* RestoreServer of the backup in copy: stop the server, clear the volume    *)
(* and extract the archive through the helper, save the manifest's           *)
(* configuration and start.                                                  *)

RestoreLook(p) ==
  /\ Runs(p, "restoreLook")
  /\ LET r == [proc[p] EXCEPT !.in = "restore", !.failed = FALSE]
     IN Becomes(p, IF Seen = "running" THEN Calling(r, "stop", "restoreStopped")
                   ELSE [r EXCEPT !.pc = "ensureVolume"])
  /\ UNCHANGED <<runtime, files, history, faults>>

RestoreStopped(p) ==
  /\ At(p, "restoreStopped")
  /\ Becomes(p, IF proc[p].ok THEN Goto(p, "ensureVolume") ELSE Returns(p, FALSE))
  /\ UNCHANGED <<runtime, files, history, faults>>

(* What is not in the backup is given up where the volume is written over.   *)
GivesUp(p) == givenUp' = (givenUp \/ proc[p].copy.data # Data(written))

(* What a running server and the helper write beside one another, or the     *)
(* helper over what a server has begun, no server can boot.                  *)
Clear(p) ==
  /\ Runs(p, "clear")
  /\ volume' = NoData(IF Running THEN "torn" ELSE "blank")
  /\ GivesUp(p)
  /\ Becomes(p, Goto(p, "extract"))
  /\ UNCHANGED <<vm, helper, files, works, shared, written, commands, faults>>

Extract(p) ==
  /\ Runs(p, "extract")
  /\ volume' = IF Running \/ volume.kind # "blank" THEN NoData("torn") ELSE proc[p].copy.data
  /\ GivesUp(p)
  /\ Becomes(p, Goto(p, "helperDelete"))
  /\ UNCHANGED <<vm, helper, files, works, shared, written, commands, faults>>

-----------------------------------------------------------------------------
(* UpgradeServer and SetNetworkPolicy: delete the envelope, create it with   *)
(* other settings, and go back when that fails.                               *)

ChangeBegin(p) ==
  /\ At(p, "changeBegin")
  /\ LET r == [proc[p] EXCEPT !.goal.stable = config.cfg.stable,
                              !.copy = [AnyBackup EXCEPT !.cfg = config.cfg]]
     IN Becomes(p,
          IF config.state # "whole" THEN Returns(p, FALSE)
          ELSE IF config.cfg.set = proc[p].goal.set THEN Goto(p, "unchanged")
          ELSE CASE proc[p].cmd = "upgrade" -> Calling(r, "backupBegin", "backedUp")
                 [] proc[p].cmd = "policy"  ->
                      Calling([r EXCEPT !.keep = TRUE], "deleteBegin", "removed"))
  /\ UNCHANGED <<runtime, files, history, faults>>

Unchanged(p) ==
  /\ Runs(p, "unchanged")
  /\ Becomes(p, Returns(p, TRUE))
  /\ UNCHANGED <<runtime, files, history, faults>>

BackedUp(p) ==
  /\ At(p, "backedUp")
  /\ Becomes(p, IF proc[p].ok
                THEN Calling([proc[p] EXCEPT !.keep = TRUE], "deleteBegin", "removed")
                ELSE Returns(p, FALSE))
  /\ UNCHANGED <<runtime, files, history, faults>>

(* Mutant: the new settings are not put into the configuration. *)
Removed_OldSettings(p) ==
  /\ At(p, "removed")
  /\ Becomes(p, IF proc[p].ok
                THEN Calling([proc[p] EXCEPT !.cfg = proc[p].copy.cfg], "createBegin", "recreated")
                ELSE Returns(p, FALSE))
  /\ UNCHANGED <<runtime, files, history, faults>>

Removed(p) ==
  /\ At(p, "removed")
  /\ Becomes(p, IF proc[p].ok
                THEN Calling([proc[p] EXCEPT !.cfg = proc[p].goal], "createBegin", "recreated")
                ELSE Returns(p, FALSE))
  /\ UNCHANGED <<runtime, files, history, faults>>

(* Mutant: the failed change is left as it is. *)
AfterChange_NoRollback(r) == Returning([r EXCEPT !.outcome = "restored"], FALSE)

(* The new server is up, or the way back begins. *)
AfterChange(r) ==
  IF r.ok THEN Returning([r EXCEPT !.outcome = "changed"], TRUE)
  ELSE IF r.cmd = "upgrade" THEN Calling(r, "restoreLook", "rolledBack")
  ELSE Calling(r, "deleteBegin", "cleaned")

Recreated(p) ==
  /\ At(p, "recreated")
  /\ Becomes(p, AfterChange(proc[p]))
  /\ UNCHANGED <<runtime, files, history, faults>>

Cleaned(p) ==
  /\ At(p, "cleaned")
  /\ Becomes(p, IF proc[p].ok
                THEN Calling([proc[p] EXCEPT !.cfg = proc[p].copy.cfg], "createBegin", "rolledBack")
                ELSE Returns(p, FALSE))
  /\ UNCHANGED <<runtime, files, history, faults>>

RolledBack(p) ==
  /\ At(p, "rolledBack")
  /\ Becomes(p, Returning([proc[p] EXCEPT !.outcome = IF proc[p].ok THEN "restored" ELSE @], FALSE))
  /\ UNCHANGED <<runtime, files, history, faults>>

-----------------------------------------------------------------------------
(* The operator's commands and the supervisor's passes. *)

Entry == [create |-> "createBegin", start |-> "startBegin", stop |-> "stop",
          delete |-> "deleteBegin", deleteKeep |-> "deleteBegin",
          backup |-> "backupBegin", restore |-> "restoreLook",
          upgrade |-> "changeBegin", policy |-> "changeBegin"]

Issue(cmd) ==
  /\ At("operator", "idle") /\ commands < IF Supervised THEN MaxRaced ELSE MaxCommands
  /\ \E s \in Settings, b \in IF cmd = "restore" THEN ValidBackups ELSE {AnyBackup} :
       /\ cmd \notin {"create", "upgrade", "policy"} => s = AnyConfig.set
       /\ LET goal == [set |-> s, stable |-> FALSE]
          IN Becomes("operator", [Idle EXCEPT !.cmd = cmd, !.pc = Entry[cmd],
                                    !.stack = <<"returned">>, !.goal = goal, !.copy = b,
                                    !.cfg = goal, !.keep = (cmd = "deleteKeep")])
  /\ commands' = commands + 1
  /\ givenUp' = (givenUp \/ cmd = "delete")
  /\ UNCHANGED <<runtime, files, works, shared, written, faults>>

(* Mutant: a stopped or unready server is not started. *)
Supervise_OnlyMissing ==
  /\ At("supervisor", "idle")
  /\ vm.state = "missing"
  /\ Becomes("supervisor", [Idle EXCEPT !.cmd = "supervise", !.pc = "startBegin",
                                        !.stack = <<"returned">>])
  /\ UNCHANGED <<runtime, files, history, faults>>

(* reconcileSupervisedNode: start the server unless it is running and Ready. *)
Supervise ==
  /\ At("supervisor", "idle")
  /\ vm.state # "ready"
  /\ Becomes("supervisor", [Idle EXCEPT !.cmd = "supervise", !.pc = "startBegin",
                                        !.stack = <<"returned">>])
  /\ UNCHANGED <<runtime, files, history, faults>>

Return(p) ==
  /\ At(p, "returned")
  /\ Becomes(p, Idle)
  /\ UNCHANGED <<runtime, files, history, faults>>

-----------------------------------------------------------------------------
(* What fails. *)

(* The error path of each container command. *)
Failed(p) ==
  LET r      == proc[p]
      backup == r.in = "backup"
  IN CASE At(p, "backupVolume") \/ (At(p, "helperStart") /\ backup)
            -> [Goto(p, "backupEnd") EXCEPT !.failed = TRUE]
       [] r.pc \in {"archive", "clear", "extract"}
            -> [Goto(p, "helperDelete") EXCEPT !.failed = TRUE]
       [] At(p, "helperDelete") /\ backup
            -> [Goto(p, "backupEnd") EXCEPT !.failed = TRUE]
       [] OTHER -> Returns(p, FALSE)

(* What a command that fails, or whose process dies, may have done. *)
PartlyDone(p) ==
  \/ UNCHANGED <<runtime, givenUp>>
  \/ /\ proc[p].pc \in {"stop", "deleteStop"} /\ Running
     /\ vm' = [vm EXCEPT !.state = "stopped"]
     /\ UNCHANGED <<volume, helper, givenUp>>
  \/ /\ At(p, "run") /\ Possible("run")
     /\ vm' = [state |-> "booting", set |-> proc[p].cfg.set]
     /\ UNCHANGED <<volume, helper, givenUp>>
  \/ /\ At(p, "helperStart") /\ Possible("helperStart")
     /\ helper' = "running"
     /\ UNCHANGED <<vm, volume, givenUp>>
  \/ /\ proc[p].pc \in {"clear", "extract"} /\ helper = "running"
     /\ volume' = NoData("torn") /\ GivesUp(p)
     /\ UNCHANGED <<vm, helper>>

(* A command fails because the runtime refuses it, because the operator's    *)
(* interrupt has cancelled the context, or for a reason of its own; a wait   *)
(* for a server that may still become Ready only as a fault.                 *)
Hopeless(p) == \/ proc[p].cancelled
               \/ ~Possible(proc[p].pc) /\ ~(proc[p].pc \in {"waitReady", "status", "unchanged"} /\ Bootable)

Fault(kind) == kind \in FaultKinds /\ faults < MaxFaults /\ faults' = faults + 1

CommandFails(p) ==
  /\ proc[p].pc \in CommandSteps
  /\ Becomes(p, Failed(p))
  /\ PartlyDone(p)
  /\ IF Hopeless(p) THEN UNCHANGED faults ELSE Fault("fail")
  /\ UNCHANGED <<files, works, shared, written, commands>>

Dies(p) ==
  /\ proc[p].pc \notin {"idle", "off"} /\ Fault("die")
  /\ Becomes(p, Idle)
  /\ PartlyDone(p)
  /\ UNCHANGED <<files, works, shared, written, commands>>

(* The operator's interrupt cancels the context of the command. *)
Interrupted ==
  /\ ~At("operator", "idle") /\ ~proc["operator"].cancelled /\ Fault("interrupt")
  /\ Becomes("operator", [proc["operator"] EXCEPT !.cancelled = TRUE])
  /\ UNCHANGED <<runtime, files, history>>

(* A VM fails of itself only where a supervisor sees to it; without one it   *)
(* is as if the operator had stopped it.                                     *)
VMExits ==
  /\ Running /\ Supervised /\ Fault("exit")
  /\ vm' = [vm EXCEPT !.state = "stopped"]
  /\ UNCHANGED <<volume, helper, files, proc, history>>

VMWedges ==
  /\ vm.state = "ready" /\ Supervised /\ Fault("wedge")
  /\ vm' = [vm EXCEPT !.state = "wedged"]
  /\ UNCHANGED <<volume, helper, files, proc, history>>

-----------------------------------------------------------------------------
(* The server, its clients and the helper, which sleeps for five minutes. *)

BecomesReady ==
  /\ Bootable
  /\ vm' = [vm EXCEPT !.state = "ready"]
  /\ volume' = IF volume.kind = "blank" THEN Data(0) ELSE volume
  /\ UNCHANGED <<helper, files, proc, history, faults>>

(* Clients change data that they know: not that of a cluster just made over  *)
(* what was given up.                                                        *)
ClientWrites ==
  /\ vm.state = "ready" /\ volume.kind = "cluster"
  /\ written <= IF Supervised THEN 0 ELSE MaxWrites
  /\ volume.version > 0 \/ written = 0
  /\ volume' = Data(written + 1) /\ written' = written + 1
  /\ UNCHANGED <<vm, helper, files, proc, works, shared, givenUp, commands, faults>>

HelperEnds ==
  /\ helper = "running"
  /\ helper' = "stopped"
  /\ UNCHANGED <<vm, volume, files, proc, history, faults>>

-----------------------------------------------------------------------------
Step(p) ==
  \/ CreateBegin(p) \/ StartBegin(p) \/ EnsureVolume(p) \/ Look(p) \/ DeleteStopped(p)
  \/ Run(p) \/ WaitReady(p) \/ ReadKubeconfig(p) \/ SaveKubeconfig(p)
  \/ TruncateConfig(p) \/ WriteConfig(p) \/ SetCurrent(p) \/ ReadStatus(p)
  \/ Stop(p) \/ DeleteBegin(p) \/ DeleteLook(p) \/ DeleteStop(p) \/ DeleteEnvelope(p)
  \/ DeleteVolume(p) \/ RemoveConfig(p) \/ RemoveKubeconfig(p) \/ ClearCurrent(p)
  \/ BackupBegin(p) \/ BackupLook(p) \/ BackupStopped(p) \/ BackupVolume(p)
  \/ HelperStart(p) \/ Archive(p) \/ Publish(p) \/ HelperDelete(p) \/ BackupEnd(p)
  \/ BackupStarted(p) \/ RestoreLook(p) \/ RestoreStopped(p) \/ Clear(p) \/ Extract(p)
  \/ ChangeBegin(p) \/ Unchanged(p) \/ BackedUp(p) \/ Removed(p) \/ Recreated(p)
  \/ Cleaned(p) \/ RolledBack(p) \/ Return(p) \/ CommandFails(p)

Next ==
  \/ \E cmd \in Commands : Issue(cmd)
  \/ Supervise
  \/ \E p \in Processes : Step(p) \/ Dies(p)
  \/ Interrupted \/ VMExits \/ VMWedges
  \/ BecomesReady \/ ClientWrites \/ HelperEnds

Spec == Init /\ [][Next]_vars

(* Processes go on, launchd keeps the supervisor and its ticker alive, a     *)
(* server that can become Ready does, and the helper's sleep ends.           *)
FairSpec ==
  /\ Spec
  /\ \A p \in Processes : WF_vars(Step(p))
  /\ WF_vars(Supervise) /\ WF_vars(BecomesReady) /\ WF_vars(HelperEnds)

-----------------------------------------------------------------------------
(* The last data the cluster accepted is on the volume or in a published     *)
(* backup, until the operator gives it up by a full delete or a restore, or  *)
(* an upgrade rolls back to a backup that has not got it: one made before    *)
(* later writes, or one of a volume that was not at rest (ReadAtRest).  No   *)
(* interleaving of a backup, an upgrade or DeleteServer with the supervisor  *)
(* loses it otherwise.                                                       *)
DataSurvives ==
  \/ written = 0 \/ givenUp
  \/ volume = Data(written)
  \/ \E b \in archives : b.data = Data(written)

(* BackupServer and RestoreServer never read or write the volume under a     *)
(* running server, whatever fails, even where the runtime would let them.    *)
(* Beside a supervisor it is only the runtime that can see to this: nothing  *)
(* in the code keeps Start (cluster.go:546) from running the server between  *)
(* their Stop and the end of the read or write (backup.go:82, :180), and if  *)
(* the runtime mounts twice it does.                                         *)
ReadAtRest ==
  \A p \in Processes :
    proc[p].pc \in {"archive", "clear", "extract"} /\ helper = "running" /\ Running
      => Supervised /\ shared

Returned(cmd) == At("operator", "returned") /\ proc["operator"].cmd = cmd

(* A change of settings that UpgradeServer or SetNetworkPolicy reports as    *)
(* done is done: the envelope and the saved configuration have them.  (With  *)
(* a supervisor they need not: Create, cluster.go:165, takes an envelope for *)
(* its own that the supervisor made again with the old ones.)                *)
ChangeReplaces ==
  LET r == proc["operator"]
  IN ~Supervised /\ At("operator", "returned") /\ r.outcome = "changed" =>
       vm.set = r.goal.set /\ config.state = "whole" /\ config.cfg.set = r.goal.set

(* After a roll-back that UpgradeServer or SetNetworkPolicy reports as done  *)
(* the old settings are back in the envelope and in the file, over the data  *)
(* of the backup or newer.                                                   *)
RollbackRestores ==
  LET r == proc["operator"]
  IN ~Supervised /\ At("operator", "returned") /\ r.outcome = "restored" =>
       /\ vm.state # "missing" /\ vm.set = r.copy.cfg.set
       /\ config.state = "whole" /\ config.cfg.set = r.copy.cfg.set
       /\ volume.kind = "cluster" /\ volume.version >= r.copy.data.version

(* DeleteServer without keepData returns nil only when nothing is left.      *)
(* (With a supervisor, a pass that had read the configuration makes the      *)
(* volume, cluster.go:546, and a server again.)                              *)
DeletedIsGone ==
  ~Supervised /\ Returned("delete") /\ proc["operator"].ok =>
    /\ vm.state = "missing" /\ volume.kind = "none"
    /\ config.state = "absent" /\ ~kubeconfig /\ ~current

(* BackupServer that returns nil leaves a server it stopped running again.   *)
(* (One that is interrupted does not: its deferred Start, backup.go:89, has  *)
(* the context that the interrupt cancelled.)                                *)
BackupResumes ==
  ~Supervised /\ Returned("backup") /\ proc["operator"].resume /\ proc["operator"].ok => Running

(* What an operator's command reports as done is so.                         *)
ReportsHold == ChangeReplaces /\ RollbackRestores /\ DeletedIsGone /\ BackupResumes

(* What the supervisor's Start does not repair: no configuration to start    *)
(* from, a volume that a restore left half-written, settings that do not     *)
(* work here, in the file or in an envelope that runs, and a server that     *)
(* runs without being Ready, which Start only waits for.                     *)
BeyondSupervisor ==
  \/ config.state # "whole" \/ config.cfg.set \notin works
  \/ volume.kind = "torn"
  \/ Running /\ vm.set \notin works
  \/ vm.state = "wedged"

(* The supervisor brings the server back to Ready whatever the operator's    *)
(* commands and the faults left, except what BeyondSupervisor names.         *)
KeptRunning == <>[](vm.state = "ready" \/ BeyondSupervisor \/ ~Supervised)
=============================================================================
