# apple-pod-control in TLA+

apple-pod-control (`apc`) runs K3s in `apple/container` virtual machines on one
Mac: either one server, or a local HA cluster of three servers with embedded
etcd, an API proxy and a supervisor that launchd keeps alive.  This directory
holds TLA+ models of its core, the TLC configurations that check them and
proofs checked by TLAPS.  Paths below are relative to the repository;
`ha.go:804` stands for `internal/cluster/ha.go`, line 804.

## 1. The system

| Component | State | Operations | What makes it correct |
|---|---|---|---|
| HA desired state (`ha_desired_state.go`) | `ha-desired-state.json`: `Running`/`Stopped` and the members to keep offline | mark running, mark stopped, set one member's intent | at most one member carries stop intent; replaced atomically; only operators change it |
| HA cluster lifecycle (`ha.go`) | VM envelopes, volumes, network, config, token | `CreateHA`, `StartHA`, `StopHA`, `DeleteHA` (with or without data) | never bootstraps on partial data, never replaces a running VM, an interrupted command can be retried or deleted |
| HA members (`ha_members.go`) | as above | stop, start, restart one member | maintenance keeps the etcd quorum; a failed restart puts the member back |
| HA supervisor (`lifecycle.go`) | in memory: startup graces, repair backoff | one reconciliation per tick, and serves the proxy | reaches the stored intent, never works against it |
| HA operation lock (`ha_lock.go`) | an `flock`ed file per cluster | acquire with a deadline, release | at most one operation per cluster; freed when its process dies |
| HA recovery (`ha_recovery.go`) | snapshot directories, `ha-recovery.json` | snapshot, restore, recover | a restore that died is never mistaken for a good cluster; a failed one goes back to the old data or to nothing |
| HA etcd topology (`ha_etcd.go`) | none | probe members one by one, compare the answers | a stop is granted only beside a majority of one cluster's voters |
| HA addresses (`ha_addresses.go`, `ha_targets.go`) | none | launch an envelope with a unique address | no two members share one; a bad launch is taken back |
| HA API proxy (`ha_proxy.go`) | backend pool, connections | probe, pick, relay, mark down | only ready backends of this cluster get traffic; bounded number of clients |
| One server (`cluster.go`, `networking.go`, `lifecycle.go`) | one VM, one volume, config file | create, start, stop, delete, status, supervise | as for HA, without a lock |
| Worker agent (`cluster.go`, `lifecycle.go`) | one VM, one volume, join config | join, start, stop, remove, supervise | the Node keeps its identity and InternalIP; runs with what was saved |
| Backup, upgrade (`backup.go`, `upgrade.go`) | archive, VM | stop, copy or replace, start | the server runs again, on the old data if the new is bad |
| Supervisor log (`supervisor_log.go`) | two files | bounded append, rotation | never beyond its limits |
| launchd (`internal/launchd`) | plists, loaded jobs | install, remove, unattended mode | a failed install is rolled back |
| Firewall (`internal/firewall`) | pf anchors, files | apply, persist, remove | as above |
| Image transport (`internal/images`) | none | save, copy, load | sequential |
| Doctor, diagnostics, overlay, CLI, scripts | none | read, compute, print | - |

How they interact:

* An operator's `apc ha ...` command and the supervisor are separate
  processes.  Both take the operation lock for a whole operation (a CLI
  command) or a whole pass (a tick), so their operations never overlap, but
  either may die at any point and the other continues from what it left.
* They share the desired-state file, the config and token files, the recovery
  journal, and the runtime objects of `apple/container`.  VMs and the servers
  inside them change state on their own during every operation.
* Supervisor -> lifecycle: a tick reads journal, intent and status and calls
  at most one of `stopHALocked`, `startHALocked`, `startHAMemberLocked`,
  `restartUnhealthyHAMemberLocked`, `stopHAMemberLocked`,
  `stopIntentionalUnhealthyHAMemberLocked` or the rejoin path
  (`lifecycle.go:310`-`470`).
* Lifecycle -> addresses -> runtime: every launch goes through
  `runHAServerEnvelope`.
* Recovery -> journal -> supervisor: a journal that is not runtime-safe stops
  the supervisor (`lifecycle.go:381`) and every restore but the one it
  describes; the operator's start, create and member commands do not look.

What is hard here: looks that are stale when acted on, deaths of a process
between any two steps, commands that fail after having worked, the retry of
half-done work by another process, and a supervisor that has to make progress
from all of this without working against the operator.  `PROJECT.json` lists
each hazard at its line, with the property that covers it or the reason there
is none yet.

## 2. The modules

```
HADesiredState          the stored intent and its transitions (pure)
  ^ HARuntime           VMs, etcd voters, volumes, network (external)
    ^ HALifecycle       operations under the lock, supervisor, faults;
                        implements HAIntent
      ^ HALifecycle_proofs
  ^ HARecovery          restore and recover, the journal, reruns
      ^ HARecovery_proofs
  ^ HAIntent            what the cluster promises of the intent (abstract)
OperationMutex          one operation at a time (abstract)
HAOperationLock         the lock file; implements OperationMutex
HAEtcdTopology          the proof of quorum before a stop
      ^ HAEtcdTopology_proofs
HAAddresses             launching a VM with an address of its own
      ^ HAAddresses_proofs (EXTENDS HAAddresses, INSTANCE HAOperationLock)
HASnapshot              taking a snapshot
HAPackage               a package between its check and its use
      ^ HASnapshot_proofs (EXTENDS HASnapshot, INSTANCE HAPackage)
HAProxy                 the API proxy and its monitor
      ^ HAProxy_proofs
SingleServer            one server, its operator and its supervisor
      ^ SingleServer_proofs
AgentNode               one worker, its operator and its supervisor
Launchd                 launchd jobs
      ^ Mac_proofs (EXTENDS AgentNode, INSTANCE Launchd)
```

(`^` is EXTENDS.)  Every component `X` has a module `MCX` that EXTENDS it, gives
values to its constants and ends with mutated forms of its definitions: each is a
plausible bug, and each breaks a property of the component's run.  The
configuration is `X.cfg`, or `X_<run>.cfg`.

### HADesiredState

`DesiredStates` is the JSON file as a record.  `ValidDesired` is the check of
`validateHADesiredState`, `WithMemberIntent`, `MarkedStopped` and `MarkedRunning`
are what the three writers store.  A missing file reads as `DefaultDesired`, as
in `loadHADesiredState`.  A save writes a temporary file and renames it, so a
process that dies leaves the old or the new value and nothing in between.

### HARuntime

The part that is not in the repository, as its code drives and observes it.
`vm[m]` is what an inspection of the envelope and a status of the Node and API
together tell; `"hung"` is a running VM whose server does not become Ready
again without a restart.  `voters` are the etcd members recorded on the
volumes: a server becomes Ready only while a majority of them is up
(`BecomesReady`), and stops being Ready when the majority is gone
(`LosesQuorum`).  A VM may exit, a server may wedge, and the Mac may reboot.

### HALifecycle

`op` is the operation that holds the lock: who runs it, which flow of the code
it is, the next step `pc`, its member `target`, and what it remembers of its
preflight (`seen`).  Between two steps anything may happen but another
operation.  A look (envelopes, status and etcd health together) is one step, a
change a later one, so every change may act on a stale look.

| Code | Model |
|---|---|
| `setHAMemberIntentLocked` | `PersistMemberIntent` |
| `stopHAMemberLocked` | `StopCheck`, `StopApply`, `StopWait` |
| `startHAMemberLocked` | `StartCheck`, `DeleteEnvelope`, `RunEnvelope`, `StartWait` |
| `restartHAMemberOperation` and its deferred start | `RestartCheck`, the stop and start steps, `Recovery` |
| `createHALocked`, `startHALocked` | `PersistRunning`, `CreateCheck`, `SaveConfig`, `MarkRunning`, `CreateNetwork`, `CreateVolume`, `CreateMember`, ..., `CreateWait` |
| `rollbackHAFreshInfrastructure` | `RollBackVolumes` |
| legacy-init migration of a member | flow `"migrate"`, back into the create loop |
| `stopHALocked`, `deleteHALocked` | `PersistStopped`, `ClusterPreflight`, `ClusterStop`, `ClusterDelete`, `DeleteVolume`, `DeleteNetwork`, `RemoveFile` |
| `reconcileSupervisedHAAfterService` | the `Supervise...` actions, one per thing a tick may do |
| startup grace, repair backoff | `quiet`, `QuietEnds`, `RecordRepair` |
| `reconcileHAWithIntentionalMemberStop` | `SuperviseOffline`, `SuperviseRejoin` |
| `restartUnhealthyHAMemberLocked` | `SuperviseRepair`, `RepairCheck`, then stop and start |
| a process dies, or a step fails and the code only returns | `Lost` |
| a step fails and the code answers | `StopFails`, `RunFails`, `StepFails`, `WaitTimesOut` |

`calm`, `outage`, `commands` and `faults` are history or bounds and guide nothing
but the bounds.

Abstractions, and why they are sound for the properties stated:

* Etcd topology and the repair quorum check (`validateHAEtcdTopology`,
  `validateHAEtcdRepairQuorum`) hold in the model whenever the status checks
  beside them do; they could only make the code refuse more.  What they prove is
  `HAEtcdTopology`'s.
* A tick with nothing to do is no action.
* `quiet` ends only while the lock is free, since only ticks read it.
* The kubeconfig, ports, addresses and kubectl output are left out.
* A refused tick (for instance an unsafe journal) is no action.
* Initially either nothing exists, or a running cluster does, with a journal
  that may be unsafe and with some members made by an old `apc`.

### HAIntent

What `HALifecycle` promises of the operator's intent, without its thirty steps:
the stored `intent`, the set of members whose VM is `up`, whose `turn` it is, and
whether the cluster is still `sound`, that is, whether no VM has failed so far.
`HALifecycle` instantiates it as `Intent`, with `desired`, the members that
are `Running`, the actor of `op` and `calm`; `HonoursIntent` is its specification.

| Step | Who may take it |
|---|---|
| `Order` | an operator whose turn it is: one of the three transitions of `HADesiredState` |
| `Forget` | a full deletion, once no VM is up |
| `Launch` | never a member with stop intent; operator or supervisor in a cluster that is to run; in one that is to be stopped an operator only, to bring back the one that is missing |
| `TakeDown` | a full deletion; anybody in a cluster that is to be stopped; in one that is to run only beside peers that are all up |
| `Fail` | VMs, at any time |

A turn ends with its operation or with its process, at any step.  A full
deletion is a turn of its own because it is the one operation that takes VMs down
before it has stored anything (`deleteHALocked` removes the intent last, and does
not mark the cluster stopped first); a deletion that keeps the data stores its
intent first, like a stop, and is an operator's turn.  The
exceptions are no looser than the code: without the operator's one in `Launch` or
the deletion's in `TakeDown`, behaviours of `HALifecycle` are refused.

### HARecovery

`RestoreHA` and `RecoverHA` rewrite the volumes of all members from an etcd
snapshot.  `data[m]` is what the volume of `m` holds, as far as the properties
tell it apart: the cluster as it was (`old`), the one the reset of member 1
founded (`snap`), something half rewritten (`torn`), nothing yet (`empty`), or
an empty cluster a server founded by itself (`fresh`).  `journal` is
`ha-recovery.json`; `op` is the operation under the lock with `haRestoreProgress`
and the parts of `HARecoveryState` it keeps in memory.

| Code | Model |
|---|---|
| `RestoreHA` up to its first mutation | `BeginRestore` |
| `RecoverHA` up to its first mutation; a refusal that first saves provenance | `BeginRecover`; `RejectRecover` |
| the preparations of `RecoverHA` | `MarkStopped`, `InstallToken`, `SaveConfig`, `CreateNetwork`, `CreateVolume`, `FinalPreflight` |
| `mergeHARecoveryVolumeProvenance` | `MergedNew`, `RecoveryNew` |
| every save of the journal | `SaveJournal` |
| `restoreHAValidatedLocked` | `MarkRunning`, `StopMember`, `DeleteSeed`, `RunReset`, `StartMember`, `WaitSeed`, `ClearPeer`, `WaitPeer`, `WaitCluster` |
| its deferred handler, `recoverFailedHARestore` | `AfterFailure`, `Recovery`, then the same steps with `op.recovering`, which go on after errors (`op.failed`) |
| `stopExactHARecoveryServerEnvelopes` | `ProtectStop` |
| the journal's barrier for the supervisor and for restore | `AllowsSupervision`, `AllowsRestore` |
| a step fails, before, in the middle of or after its effect | `StepFails`, `StepRefused`, `CleanupFails` |
| the process dies at or in a step | `ProcessDies` |
| the supervisor, as far as the journal admits it | `SuperviseStart`, `SuperviseStop` |

Abstractions:

* One snapshot, valid throughout; a differing token or snapshot is a refusal,
  which changes nothing and is no action.  Staging and the helper containers are
  folded into the step they serve; a helper that cannot be removed is
  `CleanupFails`.
* A server is ready (`Serving`) if a majority of the voters its data knows is up
  with the same data.  Peers that hold old data while member 1 was reset still
  form the old cluster's majority; this is what lets three members be ready in
  two clusters.
* A wait that cannot succeed any more ends (`Refused`); one that still can times
  out only as a fault.
* The supervisor's passes are those of `HALifecycle`, reduced to what they
  start and stop.  Operators' other commands are left out: they do not look at
  the journal, and the documents restrict only automatic reconciliation.

`forgotten` is history: it is set when an attempt begins over volumes that an
earlier attempt left in two clusters or torn, unless the journal's provenance
says that volumes are new, and cleared when this attempt's own reset begins.

### OperationMutex and HAOperationLock

`OperationMutex` is what all HA operations rely on: at most one holder.
`HAOperationLock` is how `ha_lock.go` gets it: `Open`, `Check` (the path still
names the opened inode), `Poll` every interval, `TimeOut` at the deadline,
`Release`, and the kernel's release at `Die`.  `Mutex` maps the holders and is
checked and proved as the property `Exclusive`.  Time is counted in polls:
`Tick` lets every waiting process poll once.  `BeginPass` is the supervisor's
15-second ticker with its 12-second pass, `Overrun` a pass cut late.  When
passes have overrun, the ticker's buffered tick makes the next pass follow at
once and a waiting command may be starved until its patience ends;
`OperatorAdmitted` says so by excusing commands that met an overrun or a
restarted supervisor.

### HAEtcdTopology

| Code | Model |
|---|---|
| `stopHAMemberLocked`, `SnapshotHA`; `restartUnhealthyHAMemberLocked`, `stopIntentionalUnhealthyHAMemberLocked` | `Ask("stop", m)`; `Ask("repair", m)` |
| `probeHAEtcdMember`, `parseHAEtcdLocalState` | `Probe`, `Healthy`, `Peers` |
| `validateHAEtcdTopology`, `validateHAEtcdRepairQuorum` | `TopologyAgrees`, `QuorumAgrees`, `Judge` |
| the stop of the target | `Act` |
| etcd: elections, heartbeats, membership changes, exits | `Elect`, `StepDown`, `Follow`, `Forget`, `Reconfigure`, `Exit`, `Return` (external) |

Each probe is a step, so roles and memberships change between two answers.  A
server's answer shows the configuration that it applied last, which may be
old.  Assumed of etcd: one change of membership at a time, applied by a majority
of the new configuration at once; the peer metrics name the configuration's
other servers (a metric of a removed peer that lingers is not modelled).
`calm` is history: no server exited since the request, and every cluster is
settled.  Without it nothing can hold of the moment of the stop, which comes
after the answers.

### HAAddresses

`runHAServerEnvelope` as `Begin`, `CheckPeers`, `Run`, `Wait`, `StopConflicting`,
`DeleteConflicting`, up to three attempts, beside the guest, which looks at its
own address before it starts K3s (`GuestStarts`) and exits on a collision.
Envelopes of the earlier launch format (`Legacy`) have no such guest; they are
excused in `ServersApart`.  `recent`, chosen at Init, says whether the allocator
hands an address out again at once or lets others come first (`Rotating`).  Only
`AllServe` needs that it does not, and says so; everything else holds for any
allocation, where three attempts may not be enough.

### HASnapshot

`SnapshotHA` step by step: K3s saves into the source's volume (`Save`, `Find`), a
temporary directory is made, the source stopped, a helper VM copies out of the
volume (`StartHelper`, `CopySnapshot`, `Flush`, `DropHelper`), the files are secured
and the manifest written, the source is started and awaited, and the directory
published (`SyncPackage`, `Publish`, `SyncParent`).  `UndoHelper`, `UndoStop`,
`UndoWait`, `RemoveTemporary`, `RemoveGuest` and `Release` are the deferred
functions in their order.  The contents of a file tell cached, written and synced
apart, so that a crash of the host (`HostDies`) loses what was not synced.  A pass
of the supervisor is one step that needs the free lock.  `shared`, chosen at Init,
says whether the runtime lets two VMs mount one volume; `MountedOnce` holds where
it does, so it is the code's merit and not the runtime's.
Left to the operator, as in the code: a helper that an
interrupted snapshot left blocks every later snapshot and restore until somebody
deletes it; a save that fails, or whose file is not found, may leave a snapshot
inside the VM; after a failing sync of the parent directory the package is there
although an error is returned.

### HAPackage

The package's files are read in two blocks each (`Open`, `Got`), hashed, compared
with the manifest (`Accepts`) and, in the second round, copied (`Check`, `Staging`,
`Reset`).  Between any two reads a file may be written over in place (same
identity) or replaced, always with the same size; the private flag may change.
Digests are injective.  `StagedFitsManifest` excuses one case of a restore, which
has no retained digest: a manifest written over between the parsing of its two
digests, so that it is of no package as a whole.  `CleanHelper`, `CleanStaging`,
`Cleanup` and `Unstage` remove what this attempt or an interrupted one left.

### HAProxy

The accept loop (`Accept`, `Admit`), one handler per client (`Rotation`, `Pick`,
`Dial`, `Mark`, `Add`, `RelayEnds`, `Drop`, `Leave`), the monitor (`Ask`, `Answer`,
`Replace`), the goroutine that cancellation starts (`CleanupStarts`, `Cleanup`) and
`superviseHAProxy` (`EnvelopesThere`, `Validate`, `FirstProbe`, `Listen`, `Retry`).  A
step is what happens between two unlocks.  Around it members go and come back
(`Change`, `Returns`), the listener breaks and the port is taken.  What the model shows besides the
properties: identity checks and health probes share one goroutine; one member
without an envelope keeps the proxy from starting; an identity inspection that
fails quarantines the backend until the next one; relays that exist outlive the
loss of trust in their backend.

### SingleServer

Two stack machines, the operator and the supervisor, without a lock: every
container command and every file is a step, every inspection may be stale.
`CreateBegin`/`StartBegin`/`Look`/`Run`/`WaitReady`, `DeleteBegin` ..., `BackupBegin` ...,
`RestoreLook`/`Clear`/`Extract`, `ChangeBegin` ... `RolledBack` are the procedures of
`cluster.go`, `backup.go`, `upgrade.go` and `networking.go`, in their order, with
`Calling`/`Returning` for the calls among them.  An interrupt cancels the command's
context, which deferred calls share; a failure does not.  Initially the supervisor
is installed or not (idle or off), and an upgrade's new image works or does
not (`works`).  What the model shows besides the properties: a `stop` is undone by the
supervisor, for there is no stored intent; the config file is not replaced
atomically; `create` with other settings on a running envelope only saves them; a
helper that sleeps out its 300 seconds cuts a restore; a leftover helper blocks
later backups.  Whether the runtime mounts one volume in two VMs is left open
(`shared`, `Mountable`), for nothing in the repository says that it refuses: without a
supervisor `ReadAtRest` is the merit of the code, beside one it is the runtime's
(section 4, no. 13).  Where a server and the helper do write side by side, the volume
is left torn (`Clear`, `Extract`), and what a backup read beside a server is torn
(`Archive`); `DataSurvives` covers these runs too.  Writes made after an upgrade's
backup are given up by its roll-back, as documented.

### AgentNode

`Join`, `StartAgent`, `StopAgent` and `DeleteAgent` beside the supervisor's passes, with
the guest's own choice of the Node IP (`EffectiveNodeIP`, `GuestBoots`, `Identity`),
a Mac that moves (`HostMoves`), a server that is away (`Unreachable`), and an agent
volume whose password the server remembers (`node`).  A pass that loaded the
configuration before a join finished saves the old one over the new, and nothing
orders the two (hazard at `cluster.go:297`): `UnbrokenRunsAsSaved` and
`InternalIPKept` say which behaviours they speak of.  A VM that exits between the
wait and the status saves an empty address; a supervisor leaves an agent that runs
alone even when the Mac moved.  A connected agent is not demoted when the server
goes away.

### Launchd

`launchctl` keeps the definition it was given (`loaded`), whatever is on disk.
Per-user and unattended install, status and uninstall by two clients; slow exits,
deaths of a job, of a command, reboots, logins and plists removed by hand.
`practice`, chosen at Init, is what the operators of a behaviour do.  Shown besides
the properties: the per-user install does not look for the unattended job, so only
the documented order excludes both; a login between the bootout and the removal of
the plist loads the job again; an install over a stale job with other arguments
publishes the plist and then fails; the wait for a job's exit is 5 s and
`ExitTimeOut` 30 s, so an uninstall may have to be repeated.

## 3. The runs

One run per component checks its safety, action and liveness properties together,
under its fairness; constants that only distinguish situations are chosen at Init.
The bounds limit commands, faults and changes, never the supervisor.
`MemberCount` is the code's constant 3, unless stated.

| Run | Question | Bounds | Distinct states |
|---|---|---|---|
| `safety` | does one cluster survive its commands, its supervisor and failures, and reach the intent? | 2 commands of every kind, 1 fault, member 1 in the old launch format | 152,556 |
| `restore_safety` | when may supervision resume, what is rewritten when, does rerunning end the barrier? | 4 faults, all hosts, any number of commands | 329 thousand |
| `resumes_safe` | is the barrier only lifted over one cluster's volumes? | 2 faults, restore only, intact host | violated, see section 4 |
| `lock` | one holder, a gap for operators, nobody waits for ever? | 2 operators, 2 commands, 1 overrun, 1 death; interval 4, patience 3, member timeout 2 polls | 564,440 |
| `etcd` | does a granted stop leave a majority, and is a fit request granted? | 4 servers of one cluster and 3 of another, all configurations with a majority here, 1 change, exit or contested election | 316,082 |
| `proxy` | places, connections, choice of a backend, pool, restart and end | 2 members, 1 may be down at first, 1 client, 1 place, 1 retry, 1 change or broken listener, any return | 356,466 |
| `addresses` | never K3s at a peer's address, no healthy server removed, everybody serves? | 3 members, 2 foreign addresses, old format included, 2 faults | 2 min |
| `server` | data, reports, backups, and the server kept running | 2 settings, every command and fault; 2 commands alone, 1 beside the supervisor; 1 write, 1 fault | 561,652 |
| `agent` | identity, InternalIP, what runs after a success, and its return | 2 settings, 3 addresses of the Mac (1 off the subnet), 2 of VMs, 2 commands, 2 joins, 1 fault of any kind | 394,353 |
| `snapshot` | published whole, success survives, one mount, leftovers reported, source back? | 2 outputs, 4 faults | 36,638 |
| `package` | is what is staged what was checked? | 2 versions, 5 files, 3 changes, 1 fault, symmetry | 2 min |
| `launchd` | one kind at a time, what ended well is true, repeating completes? | 2 clients, 3 definitions, 1 disturbance, five practices | 318,422 |

Why they suffice.  Two commands let one meet what the other left (a second member
stopped, a cluster created where one was half deleted), and a fault inside the
first is what leaves something half done.  A second command on one server alone
shows the same there; beside an unbounded supervisor one command contains every
overlap of one operation with passes.

In `HARecovery` commands are not bounded.  A host starts with a running cluster
(`intact`), with a stopped one that lost VMs, some volumes or its token
(`damaged`), or with nothing (`empty`).  Four faults are enough for an attempt
to fail in its reset, its recovery to fail, and the same again in a rerun.

`HAEtcdTopology` starts from every configuration, so one change only has to produce
the transitions around one; the third VM may hold a voter, a removed or added
server, or one of another cluster.  `HAProxy`'s one client is enough to race the
monitor, the clean-up and the restart; its one change is a member that goes, a port
that is taken or a listener that breaks, and what went, or was away from the
start, may come back at any time.  The limit with several clients is what its
theorem covers for any number.  At first both members run or the second is down
(`FirstDown`): the first down is the same but for the turn of the rotation.
`SingleServer` starts with one of its two settings (`FirstSettings`); nothing tells
them apart, so the other start shows the same.  `HAPackage`'s two blocks are the least in which a
file changes in the middle of a read.  `HASnapshot` has two outputs, for a second
export to meet the leftovers of the first, and four faults for a failure, a failing
clean-up, a death and a crash of the host.  Each of `Launchd`'s practices is what
one of its properties is about.  Every run ends within a few minutes.

Deadlock checking is off where it says so: a cluster without a config, with an
unsafe journal, or where all is as wanted really stops once commands and faults
are used up, and so do the other components once nobody asks anything of them.

The properties:

* `OneMemberOut`: while no VM fails and no outage was asked for, at most one
  member is not Ready, so etcd keeps its quorum through any maintenance.
* `NeverReplacesRunningVM`: however old the look, no running VM is deleted and
  no name in use is launched.
* `DataWhole`: no envelope without its volume, network and token
  (`EnvelopesHaveData`), and no empty volume is made beside volumes that hold etcd
  data (`NeverMixesVolumes`): what an interrupted delete left is refused, not filled up.
* `StillDeletable`: without a config there is nothing left to delete or inherit.
* `HonoursIntent`: every step is one that `HAIntent` allows.  Nobody launches what the
  stored intent keeps down, the supervisor never changes it, and what takes a member
  down either has stored so before or leaves all its peers up.
* `Converges`: see below.
* `ResumesUnlessForgotten`: while the journal admits the supervisor, the volumes
  hold one cluster, however often attempts failed, died or were repeated, except
  for attempts that began over half rewritten volumes and failed before their
  own reset.  `ResumesOnlySafe` leaves the exception out, and is violated.
* `NoManufacturedCluster`: no server founds an empty cluster on volumes that
  `RecoverHA` created.
* `RewritesAtRest`: member 1 is reset while no server runs, and a peer's data is
  given up only when its own server is down and member 1 holds the snapshot.
* `RerunsReopen`: rerunning the commands leads to a journal that admits the
  supervisor, or to `BeyondRerun`: a volume is missing beside a VM or without
  provenance, or the journal is unreadable (section 4).
* `Exclusive`: the lock implements `OperationMutex`.  `OperatorAdmitted`: passes
  leave a gap in which a waiting command gets the lock.  `NobodyStarves`: every
  wait ends (`WaitEnds`), and once no operator works the supervisor gets the lock
  again and again (`SupervisorReturns`).
* `OneCluster`, `MajorityProven`, `FitIsGranted`: the answers that allow a stop are of
  one cluster, show a majority that stays, and a request that deserves it is granted.
* `ServersApart`: K3s never runs at an address reserved for another member.
  `OnlyConflictsRemoved`: a start never takes down a server with an address of its
  own.  `AllServe`: in the end every member serves.
* `OutputKept`: an output directory holds the whole package, also after a crash of
  the host (`PublishedIsWhole`), and what was reported saved is there
  (`SuccessSurvives`).  `MountedOnce`: source and helper never hold the volume
  together.  `ReportsLeftovers`: an export that returns leaves the source started
  and the member's volume without its snapshot, or says so (`ReturnsSourceUp`,
  `NoSilentLeftover`).  `SourceComesBack`: whatever an interrupted export left.
* `PackageHolds`: the reset gets one package (`StagedFitsManifest`), of the retained
  digest or with this cluster's token (`StagedIsTrusted`), and keeps it
  (`HelperHasPackage`).
* `NothingLeaks`: every place and connection is given back (`PlacesAccounted`,
  `ReturnsClean`).  `FindsTheReady`: a client is turned away only if no candidate
  stayed Ready.  `PoolFollows`: the pool ends at the members' readiness, despite
  stale probes and late marks on a member that came back.  `LoopLives`: the proxy comes back while it can, and ends when its
  supervisor does (`ComesBack`, `CancelEnds`).
* `DataSurvives`: acknowledged writes are never lost but by commands that say so.
  `ReportsHold`: what a command that succeeded reports is so (`ChangeReplaces`,
  `RollbackRestores`, `DeletedIsGone`, `BackupResumes`; without a supervisor, which
  breaks the first, third and fourth, section 4).  `ReadAtRest`: no server
  runs while the helper of a backup or a restore reads or writes the volume, unless a
  supervisor is installed and the runtime mounts volumes twice.  `KeptRunning`: the supervisor brings the
  server back.
* `IdentityKept`: the server never refuses an agent that kept its volume
  (`NotRejected`), the first join records the InternalIP unless its VM exited between
  connecting and the reading of its address (`JoinRecords`; `cluster.go:261-271` saves
  none then, and a later start its own), and once recorded everywhere it does not
  change through starts (`InternalIPKept`).  `UnbrokenRunsAsSaved`: after a success the running
  agent is the saved one.  `AgentComesBack`: the supervisor brings the agent back.
* `NeverBothKinds`: in the documented order the two supervisors are never loaded
  together.  `ReportsHold`: an install or removal that ended well stays true
  (`SettledAgrees`, `RemovalIsClean`).  `RepeatsSucceed`: repeating an uninstall or an
  install completes it (`RemovalCompletes`, `AgentComesUp`).

The type invariants of `HALifecycle` and `HARecovery` are checked and proved, those of
all other components but `SingleServer`, which defines its own for the reader, are
proved.

### Fairness

`FairSpec` assumes no more than this:

* the process holding the lock takes its next step (`WF` of `OperationStep`):
  every wait of the code has a deadline, `WaitTimesOut` is part of it;
* the supervisor ticks for ever (15 s ticker; launchd restarts the process);
* graces and backoffs end: they are timestamps;
* a server that can become Ready again and again does (`SF`), and does so at
  some time before its grace or backoff is over: the grace is the cluster's
  startup timeout (3 min) and the backoff doubles up to 5 min, while a pass of
  the supervisor has 12 s.  Without this second strong fairness a member could
  be restarted for ever just before it is up;
* members without a quorum notice.

`HARecovery`'s `FairSpec` assumes that the process goes on, that servers without
data join, and that an operator whose journal keeps the supervisor away runs
one of the commands again while it is accepted (`docs/k3s-ha.md:300` asks for
it).

The other components:

* `HAOperationLock`: time passes, processes take their steps, and a holder with a
  deadline releases at it.
* `HAEtcdTopology`: the probes and the judgement go on (`WF`); nothing of etcd.
* `HAAddresses`: the operation goes on, guests boot, and a member that is down is
  begun again and again (`SF`: the lock is free in between, and the supervisor's
  passes start what is down).
* `HASnapshot`: the export and its deferred functions go on, passes come, a helper
  ends by itself (its `sleep`), a started member becomes Ready.
* `HAProxy`: Go schedules every goroutine; a `select` whose ticker is ready again and
  again takes it in the end (`SF` of `Ask` and `MonitorStops`: Go chooses among the
  ready cases at random); relays past their deadline end.
* `SingleServer`, `AgentNode`: both processes take their steps, passes come, a server
  or guest that can boots; a server that is away comes back.
* `Launchd`: commands go on and are repeated; launchd ends and restarts jobs.

`Converges` says that the cluster reaches the intent and stays there, or is in
a situation of `LeftToOperator`, each of which is an explicit refusal of the
code: unsafe journal, no config, some volumes missing, two wedged members or
one that the others need, a member offline by intent beside a peer that only a
quorum would bring back (section 4, no. 4), and an old-format member whose migration
waits for its peers.

## 4. Where documentation and code differ

`resumes_safe` shows no. 5, and is the one finding of `PROJECT.json`.  The others
were met while modelling; they are part of the models and no run is spent on them.
Where one would refute a property, the property's comment names it.

1. A full delete stops the members while the stored intent is still `Running`
   (`ha.go:1372`; `docs/k3s-ha.md:70` says intent comes before the
   corresponding mutation).  A process that dies in between leaves a supervisor
   that starts what is left.  `HAIntent` has a full deletion as a turn of its own.
2. A pass that finds several members down launches all of them
   (`lifecycle.go:351`; `docs/architecture.md:179` says one per pass).
3. With one member intentionally offline a missing peer is recreated beside one
   Ready member (`lifecycle.go:421`; `docs/architecture.md:177` wants two).
4. With one member intentionally offline, a peer that runs but cannot become
   Ready for lack of a quorum is neither rejoined nor repaired
   (`lifecycle.go:428`; the comment at `lifecycle.go:32` says the member set is
   kept running).

5. What a failed restore may start again is decided by progress kept in memory
   only (`ha_recovery.go:952`, `:1970`), while the journal of an earlier attempt
   is overwritten at once (`:939`).  A restore dies after the reset of member 1;
   its rerun fails while stopping members; the recovery takes the volumes for
   untouched and starts all three: member 1 serves the snapshot, its peers the
   old cluster, each answers for itself, and the journal becomes failed with
   `RecoverySucceeded`.  `docs/k3s-ha.md:297` promises that automatic
   reconciliation resumes only on the original or the restored cluster.
6. When saving the `completed` journal fails (`ha_recovery.go:1052`), the deferred
   handler saves phase `failed` with `CompletedAt` still set, which
   `validateHARecoveryState` (`:2787`) rejects: supervisor, restore and recover
   refuse from then on, against `docs/k3s-ha.md:300`.

7. An upgrade (`upgrade.go:57`) that meets the supervisor between its delete and its
   create takes the old envelope, which runs again, for its own, saves the new
   image and reports a change; `upgrade.go:23` says it replaces the VM image.
8. A supervisor's pass that read the configuration before a full delete creates
   the volume again (`cluster.go:546`); `lifecycle.go:514` says the delete removes it.
9. An interrupt during a backup cancels the context that the deferred start uses
   (`backup.go:89`); `docs/cli.md:181` says the server is returned to its previous
   state.
10. An unattended install that failed after it published the plist is repeated: it
   finds the plist, skips the bootout and restarts the stale definition, against
   the comment at `unattended.go:90-94`.
11. Join and start of an agent record the VM's primary address instead of the
   Node's InternalIP (`cluster.go:269`, `:347`), against
   `docs/validation-results.md:189`.
12. A start takes any running agent VM with the right labels for the saved one
   (`cluster.go:315`), against `docs/architecture.md:107`.
13. Nothing keeps the supervisor from starting the server while the helper of
   `BackupServer` or `RestoreServer` has its volume (`backup.go:82-107`, `:180-205`;
   `Start`, `cluster.go:546-557`, asks for no helper).  Only the container runtime can
   refuse the second mount.  If it does not, a backup that reads beside the server is
   published as a good one, against `docs/cli.md:181` (the server is stopped during the
   stream), and a restore leaves a volume no server boots.

## 5. The proofs

Assumed of the constants: `MemberCount` is a natural number, at least 3;
`Commands` are commands, `LegacyMembers` members, the bounds natural numbers.
So the theorems hold for every number of commands and faults.  For `HARecovery`,
`Hosts` are the three kinds of host, and `MaxFaults` a natural number.

* `TypeCorrect` (`HALifecycle_proofs`): `Spec => []TypeOK`.  `TypeOK` is not
  inductive: that `target` is a member or, while files are removed, an index
  depends on which flow reaches which step.  The strengthening `FlowOK` says
  so, one conjunct per group of steps.
* `NeverReplacesRunning`: `Spec => []NeverReplacesRunningVM`.  The
  strengthening `LookOK` says what the remembered look is still good for:
  members the operation has yet to handle (`PendingOf`) can have gone from
  running to stopped, and in no other way, because launches happen only under
  the lock.
* `IntentHonoured`: `Spec => HonoursIntent`, the refinement of `HAIntent`.  Beside the
  invariants below, of which it needs all but `QuorumOK`, two more: `IntentFirst` says
  for each flow from which step on the stored intent is the one the operation is for,
  and `OthersUp` that in a sound cluster the peers that an operation found Ready still
  run while it works on its member.  Initial states map to initial states; for the
  steps, `UpMoves` shows that a step which is no failure moves at most one member, up
  at `runEnvelope` or down at `stopApply` or `clusterStop`, `TurnMoves` when turns begin and end, and
  `IntentMoves` which steps change the intent, at whose turn and with what up.
  `StepHonoursIntent` puts the three together: each step is one of `HAIntent` or
  changes nothing that it speaks of.
* `SupervisorHonours`: `Spec => SupervisorHonoursIntent`, a step of the supervisor
  neither changes the intent nor launches what is to be down; the refinement takes
  this from it.  `IntentOK` ties the
  steps of a supervisor's operation to the intent it was begun for; `Continues`
  collects how operations go on, so that the proof of a step does not unfold
  every continuation.
* `QuorumKept`: `Spec => []OneMemberOut`.  `QuorumOK` says that in a calm
  cluster the only member that may be out is the target of the operation, or
  the one that was left behind by the last one, and which checks each step has
  passed; `OneOutIsQuorate` is the counting lemma: with at least three members,
  all voters, one of them out leaves a majority.

* `EnvelopesKeepData`, `RemainsDeletable`: `Spec => DataWhole` and
  `Spec => []StillDeletable`.  Neither is inductive: what a step deletes or launches
  was decided by an earlier one.  `DataOK` says that an operation that launches has
  by then saved the config and made network and volumes (`HasData`, `HoldsConfig`),
  and that one that deletes has come through its list (`HasRemoved`); `VotesOK`, that
  a create that makes volumes found none, and so no etcd data.

* `RecoveryTypeCorrect`, `ResumesSafely`, `NeverManufactures` and
  `RewritesOnlyAtRest` (`HARecovery_proofs`): `Spec => []TypeOK`,
  `Spec => []ResumesUnlessForgotten`, `Spec => []NoManufacturedCluster`,
  `Spec => RewritesAtRest`.  The four rest on one inductive invariant, `IInv`:
  `OpOK` says which progress in memory belongs to which step, `DataOK` what the
  volumes hold at that progress, `JournalOK` that the journal of an operation
  under way keeps the supervisor out, `SeedOK` that member 1 never runs on a
  volume without data and that such a volume is recorded as new, and `RestOK`
  that stopped servers stay so until the reset is over.  None of the four
  properties is inductive: whether a journal recorded as recovered is safe
  depends on what the recovery knew when it began.  The proof separates what a
  step does (`Effect`, the same for a step that succeeds, fails or is cut short)
  from how the operation goes on (`Onward`), so that each part of `IInv` is
  proved once for all steps of an operation (`DataKept`, `JournalKept`,
  `SeedKept`, `RestKept`) and then for the few steps of others.

* `ProxyTypeCorrect`, `ProxyLeaksNothing`, `ProxyFindsTheReady`
  (`HAProxy_proofs`): for any number of members, clients and places.  A handler's
  step determines whether it has a place and a registered connection; that
  `Serve` returns clean needs that the clean-up closes whatever is added after it
  began.  Assumed: at least one member, finitely many clients, natural bounds.
* `SnapshotTypeCorrect`, `OutputIsKept`, `VolumeMountedOnce`, `LeftoversReported`
  (`HASnapshot_proofs`): for any outputs and any number of faults.  None is
  inductive: what may be renamed into place, and which VM may be started, was
  decided several calls before.  `Flags` says what the flags that the deferred
  functions look at are at each step, `Mounts` that the source is down wherever the
  helper may run, `Packed` which files of the package are written and flushed by
  when, `Kept` that what has a name is flushed, and what was promised durable,
  `Returns` where the source is up again or an error says that it is not.
  Assumed: outputs are finitely many and at least one, `MaxFaults` is a natural number.
* `PackageHeld`, with a theorem for each of its parts (`HASnapshot_proofs`): for any
  versions, files and number of changes.  The invariant carries, from read to read,
  what the blocks got so far and the manifest promise of each other; only the digests
  tie copy and check together, since the file may be another one by then.  The
  assumptions of an instance's constants are hypotheses, here and below:
  `PackageAssumptions` are the three that `HAPackage` states and its run evaluates.
* `TypeCorrect`, `AgentRunsAsSaved`, `AgentIdentityKept` (`Mac_proofs`): for any
  settings, addresses, commands and faults, `AgentNode` has `Spec => []TypeOK`,
  `Spec => []UnbrokenRunsAsSaved` and `Spec => IdentityKept`, an invariant and an
  action property.  `Flow` says in which command a step is, `World` how VM, volume, Node
  and guest fit together (a registered identity is never that of a volume made later;
  an envelope that has learnt an address boots with that or the Node's), `Unjoined`
  that nothing is there to start before the first join, `Unaided` what, without a
  supervisor, the configuration of the command under way has to do with the envelope
  and the file.  `Known` needs a further argument: each process, wherever it is, will
  write the address the Node has (`Sure`); `FirstOutside` and what follows, that up to
  its write the first join alone knows an address.  Assumed: at least one setting; `None` is
  no address.
* `LaunchdTypeCorrect`, `KindsNeverTogether`, `LaunchdReportsHold` (`Mac_proofs`): for
  any number of operators and any definitions, whatever dies, reboots or logs in.
  A client relies on what it saw or did some calls ago: `Knows` says, step by step,
  what of that still holds if no other client has come between (`alone`) or nothing
  was published since (`quiet`), and `Apart` that a machine on which nobody installs
  the per-user supervisor has no trace of one beside the unattended one.
  `LaunchdAssumptions` are those that `Launchd` states and its run evaluates.
* `AddressTypeCorrect`, `ServersKeepApart`, `ExhaustionFailsClosed`,
  `NoServerTakenDown` (`HAAddresses_proofs`): for any members and addresses and any
  allocation.  The strengthening says what each step of an attempt knows of the
  member it handles, the others being untouched.
* `LockTypeCorrect`, `LockExclusive`, `OperatorsAdmitted` (`HAAddresses_proofs`): for any number of
  operators and any durations, the lock implements `OperationMutex`.  The
  invariant says that the owner of a lock holds it on an inode that it opened, and
  that the path's inode changes only when nobody who checked it holds it.  Assumed:
  the supervisor is no operator, times are natural numbers (`LockAssumptions`, those
  that `HAOperationLock` states and its run evaluates).  `OperatorsAdmitted` is
  `Lock!Spec => Lock!OperatorAdmitted`, an argument about time: `Pace` says that every
  pass begins with its tick and ends two polls or more before the next one, `InTime`
  that the wait of an operator who met only the supervisor is no longer than the pass
  beside it, or falls into a pause and is about to end.  It needs the pause: were the
  passes back to back, the supervisor could take the lock again before a waiting
  operator polls.  `PauseAssumption` is what the code guarantees of it: the budget is
  cut below the patience, or a fifth of the interval is left, and `Supervise` refuses
  intervals under 200 polls.
* `EtcdTypeCorrect`, `NoMixedQuorum`, `StopKeepsMajority` (`HAEtcdTopology_proofs`): for
  any servers, clusters and number of changes, three members.  `Lineage` and
  `Truthful`: a server names only servers of its own cluster, so two that name each
  other belong together although they answered at different times.  `Lasting`: in a
  calm request every answer is still true.  Two known voters of a configuration of
  three are a majority (`TwoOfThree`).

* `TypeCorrect`, `DataKept`, `BackupsReadAtRest`, `ReportsTrue` (`SingleServer_proofs`): for any
  settings, writes, commands and faults, with the supervisor or without,
  `Spec => []TypeOK`, `Spec => []DataSurvives` and `Spec => []ReadAtRest`.  A process is
  a stack of procedures, so a step knows what its callers did only through the
  invariant.  `Flow` puts each process on its track: which procedures may be below the
  one it runs (`Creates`, `Starts`, `Stops`, `Deletes`, `BacksUp`, `Restores`,
  `Changes`), and what those have obtained by then, first of all the copy that an
  upgrade takes before it deletes anything (`Sure`).  `Rest` says that no server runs
  where the volume is read or written for a backup: without a supervisor because the
  command stopped it and nothing else starts it; beside one only if the runtime refuses
  the second mount, which the statement names and does not assume.  What a restore writes over is in a
  published backup, or given up by that step (`GivingUp`).  A step either
  leaves runtime and files alone and only has to stay on its track (`QuietKeeps`,
  `TurnKeeps`), calls (`Calls`), returns (`ComesBack`, `ReturnsKeep`) or changes the
  world, which is one lemma per action.  Assumed: at least one setting, natural bounds.
  `ReportsTrue` is `Spec => []ReportsHold`.  What a command reports was brought about
  many steps before, so a second invariant (`Sound`), where no supervisor is installed,
  says what envelope, volume and files are at each step: `Launches` that a Create or a
  Start on behalf of a change runs the settings the change is after and writes them to
  the file (`Aim`), over data that are no older than those gone back to (`Recovered`);
  `Rewrites` that a restore extracts onto a cleared volume and brings its data back
  before it writes the manifest's configuration; `Forgets` that what DeleteServer has passed is gone; `Delivers` and
  `Reports` what a procedure that returns nil leaves to its caller, and the command to
  its operator; `Versions` that no volume and no backup is ahead of what the cluster
  accepted.  A guest or a client may act at any of these steps (`BecomesReadySound`,
  `ClientWritesSound`), a supervisor is never uninstalled (`SupervisorStays`).

Only model-checked: all liveness (`Converges`, `RerunsReopen`, `NobodyStarves`,
`FitIsGranted`, `AllServe`, `PoolFollows`, `LoopLives`, `KeptRunning`,
`RepeatsSucceed`, `AgentComesBack`, `SourceComesBack`), which is out of the
prover's reach.  `ResumesOnlySafe` is false
(section 4, no. 5).

## 6. Not modelled

* Diagnostics (`diagnostics.go`) and doctor read and redact text; the command line
  parses flags and prints; build information is constants; overlay addresses are
  pure validation and formatting.  None keeps state or runs beside itself.
* Image transport saves, copies and loads one archive in sequence, with a temporary
  file that a deferred call removes.
* The supervisor's log (`supervisor_log.go`), firewall persistence
  (`internal/firewall`) and the arithmetic of the repair backoff
  (`lifecycle.go:250`; `HALifecycle` has the backoff as `quiet`) are the next to model.
* Scripts run on real hardware only.
* In `SingleServer` a process may die between any two file steps of Create and Start,
  but no file step returns an error: the files are left the same, only the report differs.
* Inside modelled components: kubeconfig contents, ports, kubectl and K3s
  arguments, file ownership and ACLs beyond "accepted or refused", the text formats
  of metrics and manifests, bytes relayed by the proxy.
* Hazards without a property are in `PROJECT.json` with the reason: mostly
  behaviour that the code has, and that no document excludes.

## 7. What is left

1. Operators' start, create and member commands between two attempts of a
   restore: `HARecovery` composed with them.
2. The firewall's rules, references and daemon; the supervisor's log.
3. Image transport.
