------------------------------ MODULE Launchd ------------------------------
(***************************************************************************)
(* How launchd is told to keep one supervisor alive: the per-user job in   *)
(* the user and gui domains, and the unattended job, owned by root, in the *)
(* system domain.  launchd keeps what it was told when a job was loaded,   *)
(* whatever becomes of the plist on disk, and lets a job it is told to     *)
(* drop take its time.  Commands of several operators interleave, a        *)
(* command may die between any two of its calls, and the Mac may reboot.   *)
(*                                                                         *)
(* A definition stands for everything a plist says; ArgsOf is the part of  *)
(* it that `launchctl print` shows.  Ownership, modes, ACLs and parsing    *)
(* are left out: a plist either is the expected one or is refused.         *)
(***************************************************************************)
EXTENDS Naturals, FiniteSets

CONSTANTS Clients,          (* processes that run commands                   *)
          Definitions,      (* what a plist may say                          *)
          Args, ArgsOf,     (* the program and arguments of a definition     *)
          Practices,        (* sets of things operators do, one per behaviour *)
          Wanted,           (* the definitions this binary renders           *)
          None,             (* no plist, no job, no command                  *)
          MaxDisturbances   (* bound: crashes, reboots, failures of jobs     *)

Levels  == {"user", "system"}
Domains == {"user", "gui", "system"}
PerUser == {"user", "gui"}

ASSUME ArgsAssumption   == ArgsOf \in [Definitions -> Args] /\ None \notin Definitions
ASSUME WantedAssumption == Wanted \subseteq Definitions
ASSUME BoundAssumption  == MaxDisturbances \in Nat

Commands == {"Install", "Uninstall", "InstallUnattended", "StatusUnattended",
             "UninstallUnattended"}

(* What operators do: commands, and plists removed by hand.                  *)
ASSUME PracticesAssumption ==
  \A p \in Practices : p \subseteq Commands \cup {"RemoveByHand"}

VARIABLES
  practice,     (* what the operators of this behaviour do                   *)
  plist,        (* what the plist of each level says                         *)
  job,          (* the job each domain has loaded for the label              *)
  pc, op, want, (* where each client is, in which command, for what          *)
  created,      (* the clients that published the plist themselves           *)
  alone,        (* history: the clients no other came between since they began *)
  quiet,        (* history: those since whose beginning nothing was published *)
  settled,      (* history: the last install that ended well, nothing since  *)
  removed,      (* history: the levels that were uninstalled, not installed since *)
  disturbed

clients == <<pc, op, want, created, alone, quiet>>
history == <<settled, removed>>
vars    == <<practice, plist, job, clients, history, disturbed>>

Jobs       == [def : Definitions, phase : {"running", "waiting", "exiting"}]
Loaded(d)  == job[d] # None
Fresh(def) == [def |-> def, phase |-> "running"]
Nothing    == [l \in Levels |-> None]

ASSUME NoneAssumption == None \notin Jobs \cup Commands

TypeOK ==
  /\ practice \in Practices
  /\ plist \in [Levels -> Definitions \cup {None}]
  /\ job \in [Domains -> Jobs \cup {None}]
  /\ op \in [Clients -> Commands \cup {None}] /\ want \in [Clients -> Wanted]
  /\ \A c \in Clients :
       /\ pc[c] = "idle" <=> op[c] = None
       /\ pc[c] \in {"publish", "status", "bootstrap", "kickstart"} => op[c] = "InstallUnattended"
       /\ pc[c] \in {"absent", "remove", "check"} => op[c] = "UninstallUnattended"
  /\ alone \subseteq Clients /\ quiet \subseteq Clients /\ created \subseteq Clients
  /\ settled \in [Levels -> Wanted \cup {None}] /\ removed \subseteq Levels
  /\ disturbed \in 0..MaxDisturbances

(* Nothing, a per-user supervisor (in either domain) or an unattended one.   *)
Init ==
  /\ practice \in Practices
  /\ \E d \in Definitions \cup {None}, at \in Domains :
       LET level == IF at = "system" THEN "system" ELSE "user"
       IN  /\ plist = [Nothing EXCEPT ![level] = d]
           /\ job = [x \in Domains |-> IF x = at /\ d # None THEN Fresh(d) ELSE None]
  /\ pc = [c \in Clients |-> "idle"] /\ op = [c \in Clients |-> None]
  /\ want \in [Clients -> Wanted]
  /\ created = {} /\ alone = {} /\ quiet = {}
  /\ settled = Nothing /\ removed = {} /\ disturbed = 0

-----------------------------------------------------------------------------
(* One call of client c.  Whatever another client does ends its solitude.    *)
Moves(c, from, to) ==
  /\ pc[c] = from
  /\ pc' = [pc EXCEPT ![c] = to]
  /\ op' = IF to = "idle" THEN [op EXCEPT ![c] = None] ELSE op
  /\ alone' = IF to = "idle" THEN {} ELSE alone \cap {c}
  /\ UNCHANGED <<want, disturbed>>

Call(c, from, to) ==
  /\ Moves(c, from, to)
  /\ created' = IF to = "idle" THEN created \ {c} ELSE created
  /\ quiet' = IF to = "idle" THEN quiet \ {c} ELSE quiet

Reads(c, from, to) ==
  /\ Call(c, from, to)
  /\ settled' = Nothing
  /\ UNCHANGED <<plist, job, removed>>

(* A command that returns an error. *)
Fails(c, from) == Reads(c, from, "idle")

FirstCall == [Install |-> "inspect", Uninstall |-> "bootoutUser",
              InstallUnattended |-> "refusePlist", StatusUnattended |-> "refusePlist",
              UninstallUnattended |-> "validate"]

Begin(c, k, d) ==
  /\ pc[c] = "idle" /\ k \in practice
  /\ pc' = [pc EXCEPT ![c] = FirstCall[k]] /\ op' = [op EXCEPT ![c] = k]
  /\ want' = [want EXCEPT ![c] = d]
  /\ created' = created \ {c} /\ alone' = {c} /\ quiet' = quiet \cup {c}
  /\ settled' = Nothing
  /\ UNCHANGED <<plist, job, removed, disturbed>>

(* launchctl bootout: a job whose process runs goes when the process ends.   *)
Bootout(d) ==
  job' = [job EXCEPT ![d] =
    IF @ \in Jobs /\ @.phase # "waiting" THEN [@ EXCEPT !.phase = "exiting"] ELSE None]

BootsOut(c, d, from, to) ==
  /\ Call(c, from, to) /\ Bootout(d)
  /\ settled' = Nothing
  /\ UNCHANGED <<plist, removed>>

(* launchctl bootstrap: refused for a label already loaded and a plist that  *)
(* is not there.                                                             *)
Bootstraps(c, l, from, to) ==
  IF Loaded(l) \/ plist[l] = None
  THEN Fails(c, from)
  ELSE /\ Call(c, from, to)
       /\ job' = [job EXCEPT ![l] = Fresh(plist[l])]
       /\ settled' = Nothing
       /\ UNCHANGED <<plist, removed>>

Kickable(l) == Loaded(l) /\ job[l].phase # "exiting"

(* launchctl kickstart -k: restarts the job as it was loaded; not one that   *)
(* is on its way out.                                                        *)
Kickstarts(c, l, from, to) ==
  /\ Kickable(l)
  /\ Call(c, from, to)
  /\ job' = [job EXCEPT ![l].phase = "running"]
  /\ UNCHANGED <<plist, removed>>

KickstartFails(c, l, from) == ~Kickable(l) /\ Fails(c, from)

(* The end of an install that returns the path of the plist. *)
Settles(c, l) ==
  settled' = IF c \in alone THEN [Nothing EXCEPT ![l] = want[c]] ELSE Nothing

-----------------------------------------------------------------------------
(* The per-user LaunchAgent.                                                 *)

(* Mutant: an install leaves the loaded job alone. *)
Inspect_NoBootout(c) == Reads(c, "inspect", "write")

Inspect(c) ==
  Reads(c, "inspect", IF plist["user"] # None THEN "bootoutOld" ELSE "write")

(* Errors of the two bootouts before an install are ignored. *)
BootoutOld(c)    == BootsOut(c, "user", "bootoutOld", "bootoutOldGUI")
BootoutOldGUI(c) == BootsOut(c, "gui", "bootoutOldGUI", "write")

WriteAgent(c) ==
  /\ Call(c, "write", "bootstrapUser")
  /\ plist' = [plist EXCEPT !["user"] = want[c]]
  /\ settled' = Nothing /\ removed' = removed \ {"user"}
  /\ UNCHANGED job

BootstrapUser(c) == Bootstraps(c, "user", "bootstrapUser", "kickstartUser")

(* enable and kickstart -k *)
KickstartUser(c) ==
  \/ Kickstarts(c, "user", "kickstartUser", "idle") /\ Settles(c, "user")
  \/ KickstartFails(c, "user", "kickstartUser")

BootoutUser(c) == BootsOut(c, "user", "bootoutUser", "bootoutGUI")
BootoutGUI(c)  == BootsOut(c, "gui", "bootoutGUI", "removeAgent")

(* The plist goes last, so that a command that dies leaves a trace. *)
RemoveAgent(c) ==
  /\ Call(c, "removeAgent", "idle")
  /\ plist' = [plist EXCEPT !["user"] = None]
  /\ removed' = IF c \in alone THEN removed \cup {"user"} ELSE removed
  /\ settled' = Nothing
  /\ UNCHANGED job

-----------------------------------------------------------------------------
(* The unattended LaunchDaemon.  Installing and reading its status refuse a  *)
(* per-user plist, then a job in the user domain, then one in the gui domain. *)

(* Mutant: only the plist of the per-user supervisor is looked for. *)
RefuseLoaded_Skipped(c, d) ==
  Reads(c, d, IF d = "user" THEN "gui" ELSE "validate")

RefusePlist(c) ==
  Reads(c, "refusePlist", IF plist["user"] # None THEN "idle" ELSE "user")

RefuseLoaded(c, d) ==
  Reads(c, d, IF Loaded(d) THEN "idle" ELSE IF d = "user" THEN "gui" ELSE "validate")

(* The plist is the expected one, absent, or foreign. *)
Validate(c) ==
  LET found == plist["system"]
      next  == IF found \notin {None, want[c]} THEN "idle"
               ELSE CASE op[c] = "InstallUnattended"   -> "publish"
                      [] op[c] = "StatusUnattended"    -> IF found = None THEN "idle" ELSE "verify"
                      [] op[c] = "UninstallUnattended" -> IF found = None THEN "absent" ELSE "bootout"
  IN  Reads(c, "validate", next)

(* The link that publishes the plist is exclusive: a client that finds it    *)
(* there validates it and did not create it.                                 *)
Publish(c) ==
  /\ plist["system"] = None
  /\ Moves(c, "publish", "status")
  /\ plist' = [plist EXCEPT !["system"] = want[c]]
  /\ created' = created \cup {c} /\ quiet' = quiet \cap {c}
  /\ settled' = Nothing /\ removed' = removed \ {"system"}
  /\ UNCHANGED job

(* The directory cannot be synced: the plist stays, the install fails. *)
PublishUnsynced(c) ==
  /\ plist["system"] = None /\ disturbed < MaxDisturbances
  /\ pc[c] = "publish"
  /\ plist' = [plist EXCEPT !["system"] = want[c]]
  /\ pc' = [pc EXCEPT ![c] = "idle"] /\ op' = [op EXCEPT ![c] = None]
  /\ alone' = {} /\ created' = created \ {c} /\ quiet' = {}
  /\ settled' = Nothing /\ removed' = removed \ {"system"}
  /\ disturbed' = disturbed + 1
  /\ UNCHANGED <<job, want>>

PublishFound(c) ==
  /\ plist["system"] # None
  /\ Reads(c, "publish", IF plist["system"] = want[c] THEN "status" ELSE "idle")

(* Mutant: a job with other arguments passes for healthy. *)
Healthy_AnyArguments(c) == job["system"].phase # "waiting"

(* What validateRunningLaunchdService demands of a loaded job. *)
Healthy(c) ==
  /\ job["system"].phase # "waiting"
  /\ ArgsOf[job["system"].def] = ArgsOf[want[c]]

Status(c) ==
  Reads(c, "status",
        IF ~Loaded("system") THEN "bootstrap"
        ELSE IF ~Healthy(c) THEN "idle"
        ELSE IF c \in created THEN "bootout" ELSE "kickstart")

(* Before an install's bootstrap, and before the removal of the plist. *)
BootoutSystem(c) == BootsOut(c, "system", "bootout", "unloading")

Unloaded(c) ==
  /\ ~Loaded("system")
  /\ Reads(c, "unloading", IF op[c] = "InstallUnattended" THEN "bootstrap" ELSE "remove")

(* Mutant: an uninstall that times out does not end, nor try again. *)
UnloadTimesOut_Hangs(c) ==
  Loaded("system") /\ Reads(c, "unloading", "stuck")

UnloadTimesOut(c) == Loaded("system") /\ Fails(c, "unloading")

BootstrapSystem(c) == Bootstraps(c, "system", "bootstrap", "kickstart")

KickstartSystem(c) ==
  \/ Kickstarts(c, "system", "kickstart", "verify") /\ settled' = Nothing
  \/ KickstartFails(c, "system", "kickstart")

(* The last look of an install, and the one of a status. *)
Verify(c) ==
  /\ Call(c, "verify", "idle")
  /\ IF Loaded("system") /\ Healthy(c) /\ op[c] = "InstallUnattended"
     THEN Settles(c, "system") ELSE settled' = Nothing
  /\ UNCHANGED <<plist, job, removed>>

Clean(c) == removed' = IF c \in quiet THEN removed \cup {"system"} ELSE removed

(* A removal without a plist refuses when a job is loaded. *)
Absent(c) ==
  /\ Call(c, "absent", "idle")
  /\ IF Loaded("system") THEN UNCHANGED removed ELSE Clean(c)
  /\ settled' = Nothing
  /\ UNCHANGED <<plist, job>>

RemoveDaemon(c) ==
  \/ /\ plist["system"] # None
     /\ Call(c, "remove", "check")
     /\ plist' = [plist EXCEPT !["system"] = None]
     /\ settled' = Nothing
     /\ UNCHANGED <<job, removed>>
  \/ plist["system"] = None /\ Fails(c, "remove")

(* Mutant: the removal does not look again after the plist is gone. *)
Check_Trusts(c) ==
  /\ Call(c, "check", "idle") /\ Clean(c)
  /\ settled' = Nothing
  /\ UNCHANGED <<plist, job>>

Check(c) ==
  /\ Call(c, "check", "idle")
  /\ IF Loaded("system") THEN UNCHANGED removed ELSE Clean(c)
  /\ settled' = Nothing
  /\ UNCHANGED <<plist, job>>

-----------------------------------------------------------------------------
(* launchd and the rest of the world.                                        *)

JobExits(d) ==
  /\ Loaded(d) /\ job[d].phase = "exiting"
  /\ job' = [job EXCEPT ![d] = None]
  /\ UNCHANGED <<plist, clients, history, disturbed>>

(* The supervisor dies; launchd waits a ThrottleInterval to start it again.  *)
JobDies(d) ==
  /\ Loaded(d) /\ job[d].phase = "running" /\ disturbed < MaxDisturbances
  /\ job' = [job EXCEPT ![d].phase = "waiting"]
  /\ disturbed' = disturbed + 1
  /\ UNCHANGED <<plist, clients, history>>

JobRestarts(d) ==
  /\ Loaded(d) /\ job[d].phase = "waiting"
  /\ job' = [job EXCEPT ![d].phase = "running"]
  /\ UNCHANGED <<plist, clients, history, disturbed>>

Gone(S) ==
  /\ pc' = [c \in Clients |-> IF c \in S THEN "idle" ELSE pc[c]]
  /\ op' = [c \in Clients |-> IF c \in S THEN None ELSE op[c]]
  /\ created' = created \ S /\ alone' = alone \ S /\ quiet' = quiet \ S
  /\ UNCHANGED want

CommandDies(c) ==
  /\ pc[c] # "idle" /\ disturbed < MaxDisturbances
  /\ Gone({c}) /\ disturbed' = disturbed + 1
  /\ UNCHANGED <<plist, job, history>>

(* launchd loads the daemons it finds; the agents wait for a login. *)
Reboot ==
  /\ disturbed < MaxDisturbances
  /\ Gone(Clients) /\ disturbed' = disturbed + 1
  /\ job' = [d \in Domains |-> IF d = "system" /\ plist["system"] # None
                               THEN Fresh(plist["system"]) ELSE None]
  /\ UNCHANGED <<plist, history>>

Login ==
  /\ plist["user"] # None /\ ~Loaded("user")
  /\ job' = [job EXCEPT !["user"] = Fresh(plist["user"])]
  /\ alone' = {}
  /\ UNCHANGED <<plist, pc, op, want, created, quiet, history, disturbed>>

RemoveByHand(l) ==
  /\ "RemoveByHand" \in practice /\ plist[l] # None
  /\ plist' = [plist EXCEPT ![l] = None]
  /\ alone' = {} /\ settled' = Nothing
  /\ UNCHANGED <<job, pc, op, want, created, quiet, removed, disturbed>>

-----------------------------------------------------------------------------
Agent(c) ==
  \/ Inspect(c) \/ BootoutOld(c) \/ BootoutOldGUI(c) \/ WriteAgent(c)
  \/ BootstrapUser(c) \/ KickstartUser(c)
  \/ BootoutUser(c) \/ BootoutGUI(c) \/ RemoveAgent(c)

Daemon(c) ==
  \/ RefusePlist(c) \/ (\E d \in PerUser : RefuseLoaded(c, d)) \/ Validate(c)
  \/ Publish(c) \/ PublishUnsynced(c) \/ PublishFound(c) \/ Status(c)
  \/ BootoutSystem(c) \/ Unloaded(c) \/ UnloadTimesOut(c)
  \/ BootstrapSystem(c) \/ KickstartSystem(c) \/ Verify(c)
  \/ Absent(c) \/ RemoveDaemon(c) \/ Check(c)

Command(c) == Agent(c) \/ Daemon(c)

Environment ==
  \/ \E d \in Domains : JobExits(d) \/ JobDies(d) \/ JobRestarts(d)
  \/ \E c \in Clients : CommandDies(c)
  \/ Reboot \/ Login \/ \E l \in Levels : RemoveByHand(l)

Next ==
  /\ \/ \E c \in Clients, k \in Commands, d \in Wanted : Begin(c, k, d)
     \/ \E c \in Clients : Command(c)
     \/ Environment
  /\ UNCHANGED practice

Spec == Init /\ [][Next]_vars

(* A command that runs goes on; an operator tries again; launchd ends what   *)
(* it dropped (ExitTimeOut), starts again what died (KeepAlive) and loads    *)
(* the agents of a user who logs in.                                         *)
FairSpec ==
  /\ Spec
  /\ \A c \in Clients :
       /\ WF_vars(Command(c) /\ UNCHANGED practice)
       /\ WF_vars(\E k \in Commands, d \in Wanted : Begin(c, k, d) /\ UNCHANGED practice)
  /\ \A d \in Domains :
       /\ WF_vars(JobExits(d) /\ UNCHANGED practice)
       /\ WF_vars(JobRestarts(d) /\ UNCHANGED practice)

-----------------------------------------------------------------------------
(* In the order the documentation prescribes (remove the per-user supervisor, *)
(* then install the unattended one, and no per-user install) the two are     *)
(* never loaded together, whatever dies, reboots or logs in meanwhile: an    *)
(* install refuses a plist and both domains' jobs, and an uninstall removes  *)
(* the plist only after it told launchd to drop the jobs.                    *)
NeverBothKinds ==
  "Install" \notin practice => ~(Loaded("system") /\ \E d \in PerUser : Loaded(d))

(* An install that ended well, with nothing done since, holds over failures  *)
(* of the job and reboots: the plist says what was asked for, the per-user   *)
(* job is what the plist says, and the unattended job runs its arguments.    *)
SettledAgrees ==
  /\ settled["user"] # None =>
       /\ plist["user"] = settled["user"]
       /\ Loaded("user") => job["user"].def = settled["user"]
  /\ settled["system"] # None =>
       /\ plist["system"] = settled["system"]
       /\ Kickable("system")
       /\ ArgsOf[job["system"].def] = ArgsOf[settled["system"]]

(* An unattended uninstall that ended well leaves neither plist nor job,     *)
(* also when an install that published before it still runs; the per-user    *)
(* one does when no command and no login came between its calls: a login that *)
(* finds the plist loads the job again.                                      *)
RemovalIsClean ==
  /\ "system" \in removed => plist["system"] = None /\ ~Loaded("system")
  /\ "user" \in removed =>
       /\ plist["user"] = None
       /\ \A d \in PerUser : ~Kickable(d)

(* Operators who only repeat the unattended uninstall get rid of the job,    *)
(* however slow it is to end and whatever died on the way, unless the plist  *)
(* is not the one this binary renders.                                       *)
RemovalCompletes ==
  practice = {"UninstallUnattended"} /\ plist["system"] \in Wanted \cup {None}
    => <>[](plist["system"] = None /\ ~Loaded("system"))

(* Operators who only repeat the per-user install get the job running as the *)
(* plist says, although a bootstrap fails while the old job still exits.     *)
AgentComesUp ==
  practice = {"Install"} => []<>(Loaded("user") /\ job["user"] = Fresh(plist["user"]))

(* What an install or a removal that ended well reports is and stays so.     *)
ReportsHold == SettledAgrees /\ RemovalIsClean

(* A command that did not end well does when it is repeated.                 *)
RepeatsSucceed == RemovalCompletes /\ AgentComesUp
=============================================================================
