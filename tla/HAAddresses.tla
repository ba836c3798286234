---------------------------- MODULE HAAddresses ----------------------------
(***************************************************************************)
(* The addresses of the three HA servers.  Every member has a stable one,  *)
(* which its guest adds beside the primary one that apple/container chose  *)
(* for the VM and that nobody can reserve: it may be the stable address of *)
(* a peer.  The guest looks before it starts K3s and exits; the host looks *)
(* after it launched the VM, removes it and tries again, three times.      *)
(* Envelopes of the earlier launch format have no such guest.              *)
(*                                                                         *)
(* One process holds the operation lock and starts members one at a time   *)
(* (HALifecycle says which may be started).                                *)
(***************************************************************************)
EXTENDS Integers, FiniteSets, Sequences

CONSTANTS Members, None,
          Stable,        (* the stable address of each member               *)
          Others,        (* the other addresses of the network              *)
          Legacy,        (* whether envelopes of the earlier format exist   *)
          MaxFaults                                                (* bound *)

Addresses == {Stable[m] : m \in Members} \cup Others

ASSUME MembersAssumption == IsFiniteSet(Members) /\ Members # {}
ASSUME StableAssumption  == \A m, n \in Members : Stable[m] = Stable[n] => m = n
ASSUME NoneAssumption    == None \notin Addresses \cup Members
ASSUME OthersAssumption  == \A m \in Members : Stable[m] \notin Others
ASSUME BoundAssumption   == MaxFaults \in Nat /\ Legacy \in BOOLEAN

VARIABLES
  env,         (* each member's envelope: "missing", "stopped" or "running"  *)
  primary,     (* the address its running VM was given                       *)
  guest,       (* "off", "booting" or "serving" (K3s runs)                   *)
  guarded,     (* whether its guest looks at the primary address             *)
  log,         (* whether its log says that it exited for a collision        *)
  recent,      (* the two addresses handed out last, if the runtime hands an *)
               (* address out again only after two others; None if it may do *)
               (* so at any time                                             *)
  pc, op,      (* what the operation does, to which member                   *)
  attempt, outcome, faults

Rotating == recent # None

vms  == <<env, primary, guest, guarded, log, recent>>
vars == <<vms, pc, op, attempt, outcome, faults>>

TypeOK ==
  /\ env \in [Members -> {"missing", "stopped", "running"}]
  /\ \A m \in Members : /\ primary[m] \in Addresses \cup {None}
                        /\ primary[m] # None <=> env[m] = "running"
                        /\ guest[m] # "off" <=> env[m] = "running"
                        /\ log[m] => env[m] = "stopped"
  /\ \A m, n \in Members : primary[m] = primary[n] => m = n \/ primary[m] = None
  /\ op \in Members \cup {None} /\ attempt \in 0..Cardinality(Members)
  /\ faults \in 0..MaxFaults

(* The VM of m has the stable address of another member.                     *)
Collides(m) == \E n \in Members \ {m} : primary[m] = Stable[n]

(* Mutant: an envelope that exited for a collision still counts as one. *)
NoneCollides_Exited(s) == \A m \in s : ~Collides(m) /\ ~log[m]

NoneCollides(s) == \A m \in s : ~Collides(m)

Init ==
  /\ env \in [Members -> {"missing", "stopped", "running"}]
  /\ primary \in [Members -> Addresses \cup {None}]
  /\ \A m \in Members : primary[m] # None <=> env[m] = "running"
  /\ \A m, n \in Members : primary[m] = primary[n] => m = n \/ primary[m] = None
  /\ guarded \in [Members -> {TRUE, ~Legacy}]
  /\ \A m \in Members : guarded[m] => ~Collides(m)
  /\ guest = [m \in Members |-> IF env[m] = "running" THEN "serving" ELSE "off"]
  /\ log = [m \in Members |-> FALSE] /\ recent \in {<<>>, None}
  /\ pc = "idle" /\ op = None /\ attempt = 0 /\ outcome = "none" /\ faults = 0

-----------------------------------------------------------------------------
Fault == faults < MaxFaults /\ faults' = faults + 1

Exited(m) ==
  /\ env' = [env EXCEPT ![m] = "stopped"] /\ guest' = [guest EXCEPT ![m] = "off"]
  /\ primary' = [primary EXCEPT ![m] = None] /\ UNCHANGED <<guarded, recent>>

(* Mutant: the guest of the earlier launch format, which does not look. *)
GuestStarts_Legacy(m) ==
  /\ guest[m] = "booting"
  /\ guest' = [guest EXCEPT ![m] = "serving"]
  /\ UNCHANGED <<env, primary, guarded, log, recent, pc, op, attempt, outcome, faults>>

(* The init script: it exits with a mark in its log before it adds the       *)
(* stable address, if the primary one is a peer's.                           *)
GuestStarts(m) ==
  /\ guest[m] = "booting"
  /\ IF guarded[m] /\ Collides(m)
     THEN Exited(m) /\ log' = [log EXCEPT ![m] = TRUE]
     ELSE /\ guest' = [guest EXCEPT ![m] = "serving"]
          /\ UNCHANGED <<env, primary, guarded, log, recent>>
  /\ UNCHANGED <<pc, op, attempt, outcome, faults>>

(* A VM exits, or an operator stops it. *)
Exits(m) ==
  /\ env[m] = "running" /\ Fault
  /\ Exited(m)
  /\ UNCHANGED <<log, pc, op, attempt, outcome>>

-----------------------------------------------------------------------------
Finish(o) == pc' = "idle" /\ outcome' = o

(* A stopped envelope is deleted first. *)
Begin(m) ==
  /\ pc = "idle" /\ env[m] # "running"
  /\ NoneCollides(Members)
  /\ pc' = IF env[m] = "stopped" THEN "clear" ELSE "check"
  /\ op' = m /\ attempt' = 1 /\ outcome' = "none"
  /\ UNCHANGED <<vms, faults>>

Removed == env' = [env EXCEPT ![op] = "missing"] /\ log' = [log EXCEPT ![op] = FALSE]

Clear ==
  /\ pc = "clear" /\ Removed /\ pc' = "check"
  /\ UNCHANGED <<primary, guest, guarded, recent, op, attempt, outcome, faults>>

(* No running peer may have a reserved address. *)
CheckPeers ==
  /\ pc = "check"
  /\ IF NoneCollides(Members \ {op})
     THEN pc' = "run" /\ UNCHANGED outcome
     ELSE Finish("failed")
  /\ UNCHANGED <<vms, op, attempt, faults>>

Offered ==
  {x \in Addresses : /\ \A m \in Members : primary[m] # x
                     /\ Rotating => \A i \in DOMAIN recent : recent[i] # x}

(* container run: the runtime chooses any address that no VM has. *)
Run ==
  /\ pc = "run"
  /\ \E x \in Offered :
       /\ primary' = [primary EXCEPT ![op] = x]
       /\ recent' = IF Rotating THEN (IF recent = <<>> THEN <<x>> ELSE <<recent[Len(recent)], x>>)
                                ELSE recent
  /\ env' = [env EXCEPT ![op] = "running"] /\ guest' = [guest EXCEPT ![op] = "booting"]
  /\ guarded' = [guarded EXCEPT ![op] = TRUE] /\ pc' = "wait"
  /\ UNCHANGED <<log, op, attempt, outcome, faults>>

(* Mutant: a guest that is not up yet counts as a failure. *)
Wait_Hasty ==
  /\ pc = "wait"
  /\ IF Collides(op) \/ log[op] \/ guest[op] = "booting"
     THEN pc' = "remove" /\ UNCHANGED outcome
     ELSE Finish(IF env[op] = "running" THEN "started" ELSE "failed")
  /\ UNCHANGED <<vms, op, attempt, faults>>

(* What tells of a collision: the address of the running VM, or the mark in  *)
(* what a stopped one printed.                                               *)
Wait ==
  /\ pc = "wait"
  /\ IF Collides(op) \/ log[op]
     THEN pc' = "remove" /\ UNCHANGED outcome
     ELSE Finish(IF env[op] = "running" THEN "started" ELSE "failed")
  /\ UNCHANGED <<vms, op, attempt, faults>>

(* A VM that still runs is stopped; one that exited meanwhile is as good.    *)
StopConflicting ==
  /\ pc = "remove"
  /\ IF env[op] = "running" THEN Exited(op) ELSE UNCHANGED <<env, primary, guest, guarded, recent>>
  /\ pc' = "delete"
  /\ UNCHANGED <<log, op, attempt, outcome, faults>>

RetryLimit == Cardinality(Members)

DeleteConflicting ==
  /\ pc = "delete" /\ Removed
  /\ IF attempt = RetryLimit
     THEN Finish("exhausted") /\ UNCHANGED attempt
     ELSE pc' = "check" /\ attempt' = attempt + 1 /\ UNCHANGED outcome
  /\ UNCHANGED <<primary, guest, guarded, recent, op, faults>>

(* A command or an inspection fails or takes too long, or the process dies.  *)
Breaks ==
  /\ pc # "idle" /\ Fault /\ Finish("failed")
  /\ UNCHANGED <<vms, op, attempt>>

Steps == Clear \/ CheckPeers \/ Run \/ Wait \/ StopConflicting \/ DeleteConflicting

Next ==
  \/ \E m \in Members : GuestStarts(m) \/ Exits(m) \/ Begin(m)
  \/ Steps \/ Breaks

Spec == Init /\ [][Next]_vars

(* Guests and the process go on; somebody (the supervisor) keeps starting    *)
(* every member that is down.                                                *)
LiveSpec ==
  /\ Spec /\ WF_vars(Steps)
  /\ \A m \in Members : WF_vars(GuestStarts(m)) /\ SF_vars(Begin(m))

-----------------------------------------------------------------------------
(* K3s never runs, in a VM launched in the present format, at an address     *)
(* that is reserved for another member, whoever died or timed out meanwhile. *)
ServersApart == \A m \in Members : guest[m] = "serving" /\ guarded[m] => ~Collides(m)

(* "Exhaustion fails closed with no conflicting envelope left behind."       *)
ExhaustedLeavesNone == outcome = "exhausted" => env[op] = "missing"

(* Starting a member takes no VM down that serves at an address of its own:  *)
(* neither a peer's, nor that of the member which a failed start left        *)
(* running.                                                                  *)
OnlyConflictsRemoved ==
  [][\A m \in Members :
       guest[m] = "serving" /\ ~Collides(m) /\ guest'[m] # "serving" => faults' # faults]_vars

(* However starts failed and VMs exited, the members end up serving: an      *)
(* envelope left behind by a failed start does not stand in the way, unless  *)
(* it is of the earlier format and has a peer's address.                     *)
AllServe ==
  <>[](\/ ~Rotating
       \/ \E m \in Members : Collides(m) /\ ~guarded[m]
       \/ \A m \in Members : guest[m] = "serving")

=============================================================================
