----------------------------- MODULE HAPackage -----------------------------
(***************************************************************************)
(* The snapshot package between its check and its use: RestoreHA and       *)
(* RecoverHA read the manifest, the snapshot and the token from a          *)
(* directory of the operator, copy them into a private staging directory,  *)
(* and give that to the helper VM that resets member 1.  Meanwhile the     *)
(* files may be replaced or written over by somebody who synchronises      *)
(* backups, and the process may die and be run again.                      *)
(*                                                                         *)
(* A file has an identity (what os.SameFile compares), two blocks, and     *)
(* whether it is private.  All files of a kind have the same size, so the  *)
(* size tells nothing.  A block is of the package of some version; a       *)
(* digest is as good as the content it is of.                              *)
(***************************************************************************)
EXTENDS Naturals

CONSTANTS Versions,    (* packages of a cluster of this name and topology    *)
          Current,     (* the one whose token this host has, and whose       *)
                       (* manifest digest the operator retained              *)
          Identities,  (* of files                                           *)
          None,        (* no file                                            *)
          Commands,    (* "restore", "recover"                               *)
          MaxChanges, MaxFaults                                  (* bounds *)

ASSUME CommandsAssumption == Commands \subseteq {"restore", "recover"}
ASSUME VersionsAssumption == Current \in Versions /\ None \notin Identities \cup [1..2 -> Versions]
ASSUME BoundsAssumption   == MaxChanges \in Nat /\ MaxFaults \in Nat

VARIABLES
  path,      (* the files of the package                                     *)
  open,      (* the file that is being read                                  *)
  staged,    (* the files of the staging directory                           *)
  helper,    (* the reset helper: none, or what it may have read             *)
  op, changes, faults

vars == <<path, open, staged, helper, op, changes, faults>>

Names    == {"manifest", "snapshot", "token"}
Contents == [1..2 -> Versions]
File     == [id : Identities, content : Contents, private : BOOLEAN]
Of(v)    == [b \in 1..2 |-> v]

NoFiles  == [n \in Names |-> None]

(* What the manifest says: its first block has the cluster's identity, which *)
(* covers the token, and the digest of the snapshot, its second block the    *)
(* digest of the token file.                                                 *)
DigestIn(m, n) == IF n = "snapshot" THEN Of(m[1]) ELSE Of(m[2])
IdentityIn(m)  == m[1]

Reads  == {"header", "manifest", "snapshot", "token", "tokenAgain",
           "stageManifest", "stageSnapshot", "stageToken"}
Rest   == {"idle", "cleanHelper", "cleanStaging", "reset", "dropHelper", "cleanup", "unstage"}

Operations == [cmd : {"restore", "recover"}, pc : Reads \cup Rest, first : Versions,
               manifest : Contents, token : Contents,
               seen : [Names -> Identities \cup {None}]]

Closed == [id |-> None, content |-> Of(Current)]
Idle   == [cmd |-> "restore", pc |-> "idle", first |-> Current, manifest |-> Of(Current),
           token |-> Of(Current), seen |-> [n \in Names |-> None]]

TypeOK ==
  /\ path \in [Names -> File]
  /\ \A m, n \in Names : m # n => path[m].id # path[n].id
  /\ open \in [id : Identities \cup {None}, content : Contents]
  /\ staged \in [Names -> Contents \cup {None}]
  /\ helper \in {"none", "there"}
  /\ op \in Operations
  /\ open.id # None => op.pc \in Reads
  /\ changes \in 0..MaxChanges /\ faults \in 0..MaxFaults

(* A whole package, of this cluster or another.                              *)
Init ==
  /\ \E v \in Versions, ids \in [Names -> Identities] :
       /\ \A m, n \in Names : m # n => ids[m] # ids[n]
       /\ path = [n \in Names |-> [id |-> ids[n], content |-> Of(v), private |-> TRUE]]
  /\ open = Closed /\ staged = NoFiles /\ helper = "none"
  /\ op = Idle /\ changes = 0 /\ faults = 0

-----------------------------------------------------------------------------
(* One read: the file is opened and its first block read; then the second    *)
(* block is read, and the path looked at again.  A change between the two    *)
(* parts of a step is like one before it.                                    *)

NameOf(read) == CASE read \in {"header", "manifest", "stageManifest"} -> "manifest"
                  [] read \in {"snapshot", "stageSnapshot"}           -> "snapshot"
                  [] OTHER                                            -> "token"

Staging == {"stageManifest", "stageSnapshot", "stageToken"}
Name    == NameOf(op.pc)
IsOpen  == open.id # None

Begin(c) ==
  /\ op.pc = "idle"
  /\ op' = [Idle EXCEPT !.cmd = c, !.pc = IF c = "recover" THEN "header" ELSE "manifest"]
  /\ UNCHANGED <<path, open, staged, helper, changes, faults>>

(* An error ends the command; one in the course of the copy takes the        *)
(* staging directory away.                                                   *)
GivesUp ==
  /\ op' = Idle /\ open' = Closed
  /\ staged' = IF op.pc \in Staging THEN NoFiles ELSE staged
  /\ UNCHANGED <<path, helper, changes, faults>>

(* The later reads must find the file that was validated.                    *)
MayOpen ==
  /\ path[Name].private
  /\ op.pc \in Staging \cup {"tokenAgain"} => path[Name].id = op.seen[Name]

Open ==
  /\ op.pc \in Reads /\ ~IsOpen
  /\ \/ /\ MayOpen
        /\ open' = [id |-> path[Name].id, content |-> path[Name].content]
        /\ op' = [op EXCEPT !.first = path[Name].content[1]]
        /\ UNCHANGED <<path, staged, helper, changes, faults>>
     \/ ~MayOpen /\ GivesUp

(* What was read, once the second block is.                                  *)
Got == [b \in 1..2 |-> IF b = 1 THEN op.first ELSE open.content[2]]

(* Mutant: the fingerprint is compared with the header alone. *)
Accepts_Header ==
  CASE op.pc = "header"     -> Got = Of(Current)
    [] op.pc = "manifest"   -> TRUE
    [] op.pc \in {"snapshot", "token"} -> Got = DigestIn(op.manifest, Name)
    [] op.pc = "tokenAgain" -> /\ op.cmd = "restore" => Got = Of(Current)
                               /\ Got = Of(IdentityIn(op.manifest))
    [] op.pc = "stageManifest" -> Got = op.manifest
    [] OTHER                   -> Got = DigestIn(op.manifest, Name)

(* Mutant: a copy is not hashed again. *)
Accepts_Identity ==
  CASE op.pc = "header"     -> Got = Of(Current)
    [] op.pc = "manifest"   -> op.cmd = "recover" => Got = Of(Current)
    [] op.pc \in {"snapshot", "token"} -> Got = DigestIn(op.manifest, Name)
    [] op.pc = "tokenAgain" -> /\ op.cmd = "restore" => Got = Of(Current)
                               /\ Got = Of(IdentityIn(op.manifest))
    [] OTHER                -> TRUE

(* What the read of each step must have given.  The token is read once more  *)
(* after it was hashed; that one is installed, and bound to the identity of  *)
(* the cluster in the manifest.                                              *)
Accepts ==
  CASE op.pc = "header"     -> Got = Of(Current)
    [] op.pc = "manifest"   -> op.cmd = "recover" => Got = Of(Current)
    [] op.pc \in {"snapshot", "token"} -> Got = DigestIn(op.manifest, Name)
    [] op.pc = "tokenAgain" -> /\ op.cmd = "restore" => Got = Of(Current)
                               /\ Got = Of(IdentityIn(op.manifest))
    [] op.pc = "stageManifest" -> Got = op.manifest
    [] OTHER                   -> Got = DigestIn(op.manifest, Name)

Following == [header |-> "manifest", manifest |-> "snapshot", snapshot |-> "token",
              token |-> "tokenAgain", tokenAgain |-> "cleanHelper",
              stageManifest |-> "stageSnapshot", stageSnapshot |-> "stageToken",
              stageToken |-> "reset"]

Learned ==
  LET r == [op EXCEPT !.pc = Following[@], !.first = Current]
  IN CASE op.pc = "manifest" -> [r EXCEPT !.manifest = Got, !.seen["manifest"] = open.id]
       [] op.pc \in {"snapshot", "token"} -> [r EXCEPT !.seen[Name] = open.id]
       [] op.pc = "tokenAgain" -> [r EXCEPT !.token = Got]
       [] OTHER -> r

Check ==
  /\ IsOpen
  /\ LET fits == Accepts /\ path[Name].private /\ path[Name].id = open.id IN
     \/ /\ fits /\ op' = Learned /\ open' = Closed
        /\ staged' = IF op.pc \in Staging THEN [staged EXCEPT ![Name] = Got] ELSE staged
        /\ UNCHANGED <<path, helper, changes, faults>>
     \/ ~fits /\ GivesUp

-----------------------------------------------------------------------------
(* The staging directory and the helper that reads it *)

Fault   == faults < MaxFaults /\ faults' = faults + 1
NoFault == UNCHANGED faults

(* A helper that a dead process left goes first.                             *)
CleanHelper ==
  /\ op.pc = "cleanHelper"
  /\ \/ helper' = "none" /\ op' = [op EXCEPT !.pc = "cleanStaging"] /\ NoFault
     \/ UNCHANGED helper /\ op' = Idle /\ Fault
  /\ UNCHANGED <<path, open, staged, changes>>

CleanStaging ==
  /\ op.pc = "cleanStaging"
  /\ \/ staged' = NoFiles /\ op' = [op EXCEPT !.pc = "stageManifest"] /\ NoFault
     \/ UNCHANGED staged /\ op' = Idle /\ Fault
  /\ UNCHANGED <<path, open, helper, changes>>

(* The reset of member 1 may be tried and fail; its helper is deleted.       *)
Reset ==
  /\ op.pc = "reset" /\ helper = "none"
  /\ \/ helper' = "there" /\ op' = [op EXCEPT !.pc = "dropHelper"]
     \/ UNCHANGED helper /\ op' = [op EXCEPT !.pc = "cleanup"]
  /\ UNCHANGED <<path, open, staged, changes, faults>>

DropHelper ==
  /\ op.pc = "dropHelper" /\ op' = [op EXCEPT !.pc = "cleanup"]
  /\ \/ helper' = "none" /\ NoFault
     \/ UNCHANGED helper /\ Fault
  /\ UNCHANGED <<path, open, staged, changes>>

(* Mutant: the package is removed whether or not the helper is gone. *)
Cleanup_Always ==
  /\ op.pc = "cleanup" /\ op' = [op EXCEPT !.pc = "unstage"]
  /\ UNCHANGED <<path, open, staged, helper, changes, faults>>

(* The package stays while the helper does.                                  *)
Cleanup ==
  /\ op.pc = "cleanup"
  /\ op' = IF helper = "none" THEN [op EXCEPT !.pc = "unstage"] ELSE Idle
  /\ UNCHANGED <<path, open, staged, helper, changes, faults>>

Unstage ==
  /\ op.pc = "unstage" /\ op' = Idle
  /\ \/ staged' = NoFiles /\ NoFault
     \/ UNCHANGED staged /\ Fault
  /\ UNCHANGED <<path, open, helper, changes>>

ProcessDies ==
  /\ op.pc # "idle" /\ op' = Idle /\ open' = Closed /\ Fault
  /\ UNCHANGED <<path, staged, helper, changes>>

-----------------------------------------------------------------------------
(* The world (external) *)

Change == changes < MaxChanges /\ changes' = changes + 1

(* A block is written over, in the file that may be open.                    *)
WriteOver(n, b, v) ==
  /\ Change /\ path' = [path EXCEPT ![n].content[b] = v]
  /\ open' = IF open.id = path[n].id THEN [open EXCEPT !.content[b] = v] ELSE open
  /\ UNCHANGED <<staged, helper, op, faults>>

(* A file of another version takes the name; its identity is none in use.    *)
Replace(n, v, i) ==
  /\ Change /\ i \notin {path[m].id : m \in Names} \cup {open.id}
  /\ path' = [path EXCEPT ![n] = [id |-> i, content |-> Of(v), private |-> TRUE]]
  /\ UNCHANGED <<open, staged, helper, op, faults>>

Expose(n) ==
  /\ Change /\ path[n].private /\ path' = [path EXCEPT ![n].private = FALSE]
  /\ UNCHANGED <<open, staged, helper, op, faults>>

-----------------------------------------------------------------------------
Next ==
  \/ \E c \in Commands : Begin(c)
  \/ Open \/ Check
  \/ CleanHelper \/ CleanStaging \/ Reset \/ DropHelper \/ Cleanup \/ Unstage \/ ProcessDies
  \/ \E n \in Names, v \in Versions : \/ \E b \in 1..2 : WriteOver(n, b, v)
                                      \/ \E i \in Identities : Replace(n, v, i)
  \/ \E n \in Names : Expose(n)

Spec == Init /\ [][Next]_vars

-----------------------------------------------------------------------------
Ready == op.pc = "reset"

(* What the reset gets is one package: the staged manifest names the staged  *)
(* snapshot and token, and the token that was read apart, which is the one   *)
(* RecoverHA installs, is theirs, whatever happened to the files meanwhile   *)
(* (unless the manifest itself has the identity of one package and the       *)
(* digest of another's token, as one written over halfway may).              *)
StagedFitsManifest ==
  Ready => /\ staged["manifest"] = op.manifest
           /\ \A n \in {"snapshot", "token"} : staged[n] = DigestIn(op.manifest, n)
           /\ op.manifest[1] = op.manifest[2] => op.token = staged["token"]

(* A recovery uses the package whose manifest digest the operator kept, and  *)
(* a restore one with the token of this cluster.                             *)
StagedIsTrusted ==
  Ready => /\ op.cmd = "recover" => staged["manifest"] = Of(Current)
           /\ op.token = Of(Current)

(* A helper that resets member 1 has a whole package for as long as it is    *)
(* there, though the process that started it died or another attempt began.  *)
HelperHasPackage == helper = "there" => \A n \in Names : staged[n] # None

(* The package a reset works with is one, the trusted one, and stays.        *)
PackageHolds == StagedFitsManifest /\ StagedIsTrusted /\ HelperHasPackage
=============================================================================
