-------------------------- MODULE HARecovery_proofs --------------------------
(***************************************************************************)
(* Theorems about HARecovery, for every number of members from three on    *)
(* and every number of faults.  The inductive invariant IInv relates the   *)
(* step an operation is at, its progress in memory, the journal on disk    *)
(* and what the volumes hold.                                              *)
(***************************************************************************)
EXTENDS HARecovery, TLAPS

EarlySteps == Preparing \cup {"stopMember", "enterReset", "deleteSeed"}
PeerSteps  == {"clearPeer", "startPeer", "waitPeer"}
MainSteps  == {"reset", "enterStart", "enterRejoin", "enterVerify", "complete"}

(* How far an operation is, by its own record: how much of a restore its    *)
(* step implies, and when its recovery may still succeed.                   *)
OpOK(o) ==
  /\ o \in Operations
  /\ o.pc \in EarlySteps => o.reset = "no" /\ ~o.recovering
  /\ o.pc \in {"protectMark", "protectStop"} => o.reset = "no" /\ o.recovering /\ o.failed
  /\ o.pc = "startIntact" => o.reset = "no" /\ o.recovering /\ o.new = {}
  /\ o.pc = "reset" => o.reset = "attempted"
  /\ o.pc \in MainSteps => ~o.recovering
  /\ o.pc \in {"enterStart", "startSeed", "waitSeed", "enterRejoin", "enterVerify", "complete"}
       \cup PeerSteps => o.reset = "complete"
  /\ o.pc \in PeerSteps => o.target \in Peers
  /\ o.pc = "waitCluster" => ~o.failed /\ (o.reset = "complete" \/
                               (o.reset = "no" /\ o.new = {} /\ o.recovering))
  /\ o.pc = "saveFailed" => o.recovering
  /\ o.pc = "saveFailed" /\ ~o.failed =>
       o.reset = "complete" \/ (o.reset = "no" /\ o.new = {})
  /\ ~o.recovering => ~o.failed
  /\ o.completedAt => o.recovering /\ o.reset = "complete" /\ o.cleared = Peers
  /\ o.cleared # {} => o.reset = "complete"
  /\ o.pc = "clearPeer" /\ ~o.failed => \A p \in Peers : p < o.target => p \in o.cleared
  /\ o.pc \in {"startPeer", "waitPeer"} /\ ~o.failed =>
       \A p \in Peers : p <= o.target => p \in o.cleared
  /\ o.pc \in {"enterVerify", "waitCluster", "complete", "saveFailed"}
       /\ ~o.failed /\ o.reset = "complete" => o.cleared = Peers
  /\ o.pc = "idle" => o = Idle

AllSnap == \A m \in Members : data[m] = "snap"

(* What the volumes hold at that point. *)
DataOK ==
  /\ op.reset = "complete" =>
       data[Seed] = "snap" /\ \A p \in op.cleared : data[p] \in {"empty", "snap"}
  /\ op # Idle /\ op.new = {} => Absent = {}
  /\ op # Idle /\ op.reset = "no" /\ op.new = {} /\ ~forgotten => OneCluster
  /\ op.pc = "complete" \/ op.completedAt => AllSnap
  /\ op.pc = "saveFailed" /\ ~op.failed /\ op.reset = "complete" => AllSnap
  /\ AllowsSupervision /\ ~forgotten => OneCluster

(* The steps before which the journal of this operation is not yet saved. *)
Unsaved == {"idle", "markStopped", "saveValidated", "saveJournal"}

JournalOK ==
  op.pc \notin Unsaved =>
    /\ ~op.completedAt => ~AllowsSupervision
    /\ journal.new = op.new

(* A volume of member 1 without data is known to be new, and no server runs *)
(* on it.                                                                   *)
SeedOK ==
  /\ \A m \in Members : data[m] # "fresh"
  /\ data[Seed] \in {"absent", "empty"} => Seed \notin Up /\ (op # Idle => Seed \in op.new)
  /\ data[Seed] = "empty" => ~AllowsSupervision /\ Seed \in journal.new

RestOK ==
  /\ op.pc = "stopMember" => \A m \in Members : m > op.target => m \notin Up
  /\ op.pc \in {"enterReset", "deleteSeed", "reset"} => Up = {}

IInv == TypeOK /\ OpOK(op) /\ DataOK /\ JournalOK /\ SeedOK /\ RestOK

-----------------------------------------------------------------------------
(* Members and steps. *)

(* The seed and the first and last peer are members (haMemberCount).        *)
LEMMA MemberFacts ==
  /\ Seed \in Members /\ Peers \subseteq Members /\ Seed \notin Peers
  /\ 2 \in Peers /\ MemberCount \in Peers
  /\ \A p \in Peers : p \in Nat /\ p >= 2 /\ p <= MemberCount
  /\ \A m \in Members : m \in Nat /\ m >= 1 /\ m <= MemberCount
BY MemberCountAssumption DEF Seed, Peers, Members

(* The steps that enter a phase of the journal (updateHARecoveryPhase).      *)
LEMMA PhaseFacts ==
  /\ DOMAIN PhaseOf = {"enterStopping", "enterReset", "enterStart", "enterRejoin", "enterVerify"}
  /\ \A s \in DOMAIN PhaseOf : PhaseOf[s] \in Phases \ {"none", "failed", "completed"}
BY DEF PhaseOf, Phases

(* The operation goes to another step and keeps its progress.               *)
LEMMA GotoFields ==
  ASSUME op \in Operations, NEW s \in Preparing \cup Restoring \cup Recovering \cup {"idle"}
  PROVE  /\ Goto(s) \in Operations /\ Goto(s).pc = s
         /\ Goto(s).target = op.target /\ Goto(s).prov = op.prov /\ Goto(s).new = op.new
         /\ Goto(s).reset = op.reset /\ Goto(s).cleared = op.cleared
         /\ Goto(s).recovering = op.recovering /\ Goto(s).failed = op.failed
         /\ Goto(s).completedAt = op.completedAt
BY DEF Goto, Operations

(* Without an operation nothing is claimed of one.                          *)
LEMMA IdleOK == OpOK(Idle)
<1>1. Idle \in Operations
  BY MemberFacts DEF Idle, Operations
<1> QED
  BY <1>1 DEF OpOK, Idle, EarlySteps, PeerSteps, MainSteps, Preparing

-----------------------------------------------------------------------------
(* How an operation continues. *)

(* The operation goes on as o: what it may have learned, and from which     *)
(* step it comes.                                                           *)
Onward(o) ==
  /\ OpOK(o) /\ o.pc # "idle" /\ o.new = op.new
  /\ o.completedAt <=> op.completedAt \/ op.pc = "complete"
  /\ \/ o.reset = op.reset
     \/ op.pc = "deleteSeed" /\ o.reset = "attempted"
     \/ op.pc = "reset" /\ o.reset = "complete" /\ data' = SeedReset
  /\ \/ o.cleared = op.cleared
     \/ op.pc = "clearPeer" /\ o.cleared = op.cleared \cup {op.target} /\ data' = PeerCleared
  /\ o.pc = "complete" => op.pc = "waitCluster" /\ AllServing
  /\ o.pc = "saveFailed" /\ ~o.failed => op.pc = "waitCluster" /\ AllServing
  /\ o.pc \in Unsaved \cup {"stopMember", "enterReset", "deleteSeed", "reset"} =>
       op.pc \in EarlySteps

(* A recovery neither stops members nor resets member 1.                     *)
Resumes(o) == Onward(o) /\ o.pc \notin {"stopMember", "enterReset", "deleteSeed", "reset"}

(* recoverFailedHARestore begins where the progress in memory says.          *)
LEMMA RecoveryOnward ==
  ASSUME OpOK(op), op.pc \in Restoring, ~op.recovering
  PROVE  Resumes(Recovery([op EXCEPT !.recovering = TRUE, !.completedAt = At("complete")]))
<1> DEFINE o == [op EXCEPT !.recovering = TRUE, !.completedAt = At("complete")]
<1>1. /\ o \in Operations /\ o.recovering /\ o.completedAt = At("complete") /\ o.failed = op.failed
      /\ o.new = op.new /\ o.prov = op.prov /\ o.reset = op.reset /\ o.cleared = op.cleared
      /\ o.target = op.target
  BY DEF OpOK, Operations, At
<1>2. ~op.failed /\ (At("complete") => op.reset = "complete" /\ op.cleared = Peers)
  BY DEF OpOK, At, MainSteps
<1>3. (op.cleared # {} => op.reset = "complete") /\ ~op.completedAt
  BY DEF OpOK
<1> HIDE DEF o
<1>4. CASE op.reset = "attempted"
  <2> DEFINE r == [o EXCEPT !.pc = "saveFailed", !.failed = TRUE]
  <2>1. Recovery(o) = r
    BY <1>1, <1>4 DEF Recovery
  <2>2. /\ r \in Operations /\ r.pc = "saveFailed" /\ r.failed /\ r.recovering
        /\ r.completedAt = o.completedAt /\ r.new = o.new
        /\ r.reset = o.reset /\ r.cleared = o.cleared
    BY <1>1, MemberFacts DEF Operations, Recovering, Restoring
  <2> HIDE DEF r
  <2>3. OpOK(r)
    BY <1>1, <1>2, <1>3, <1>4, <2>2 DEF OpOK, EarlySteps, PeerSteps, MainSteps, Preparing, At
  <2>4. Resumes(r)
    BY <1>1, <1>2, <1>3, <1>4, <2>2, <2>3 DEF Resumes, Onward, EarlySteps, Preparing, Unsaved, At
  <2> QED
    BY <2>1, <2>4 DEF o
<1>5. CASE op.reset = "no" /\ op.new # {}
  <2> DEFINE r == [o EXCEPT !.pc = "protectMark", !.failed = TRUE]
  <2>1. Recovery(o) = r
    BY <1>1, <1>5 DEF Recovery
  <2>2. /\ r \in Operations /\ r.pc = "protectMark" /\ r.failed /\ r.recovering
        /\ r.completedAt = o.completedAt /\ r.new = o.new
        /\ r.reset = o.reset /\ r.cleared = o.cleared
    BY <1>1, MemberFacts DEF Operations, Recovering, Restoring
  <2> HIDE DEF r
  <2>3. OpOK(r)
    BY <1>1, <1>2, <1>3, <1>5, <2>2 DEF OpOK, EarlySteps, PeerSteps, MainSteps, Preparing, At
  <2>4. Resumes(r)
    BY <1>1, <1>2, <1>3, <1>5, <2>2, <2>3 DEF Resumes, Onward, EarlySteps, Preparing, Unsaved, At
  <2> QED
    BY <2>1, <2>4 DEF o
<1>6. CASE op.reset = "no" /\ op.new = {}
  <2> DEFINE r == [o EXCEPT !.pc = "startIntact", !.target = Seed]
  <2>1. Recovery(o) = r
    BY <1>1, <1>6 DEF Recovery
  <2>2. /\ r \in Operations /\ r.pc = "startIntact" /\ r.failed = o.failed /\ r.recovering
        /\ r.completedAt = o.completedAt /\ r.new = o.new
        /\ r.reset = o.reset /\ r.cleared = o.cleared
    BY <1>1, MemberFacts DEF Operations, Recovering, Restoring
  <2> HIDE DEF r
  <2>3. OpOK(r)
    BY <1>1, <1>2, <1>3, <1>6, <2>2 DEF OpOK, EarlySteps, PeerSteps, MainSteps, Preparing, At
  <2>4. Resumes(r)
    BY <1>1, <1>2, <1>3, <1>6, <2>2, <2>3 DEF Resumes, Onward, EarlySteps, Preparing, Unsaved, At
  <2> QED
    BY <2>1, <2>4 DEF o
<1>7. CASE op.reset = "complete"
  <2> DEFINE r == [o EXCEPT !.pc = "startSeed"]
  <2>1. Recovery(o) = r
    BY <1>1, <1>7 DEF Recovery
  <2>2. /\ r \in Operations /\ r.pc = "startSeed" /\ r.failed = o.failed /\ r.recovering
        /\ r.completedAt = o.completedAt /\ r.new = o.new
        /\ r.reset = o.reset /\ r.cleared = o.cleared
    BY <1>1, MemberFacts DEF Operations, Recovering, Restoring
  <2> HIDE DEF r
  <2>3. OpOK(r)
    BY <1>1, <1>2, <1>3, <1>7, <2>2 DEF OpOK, EarlySteps, PeerSteps, MainSteps, Preparing, At
  <2>4. Resumes(r)
    BY <1>1, <1>2, <1>3, <1>7, <2>2, <2>3 DEF Resumes, Onward, EarlySteps, Preparing, Unsaved, At
  <2> QED
    BY <2>1, <2>4 DEF o
<1> QED
  BY <1>4, <1>5, <1>6, <1>7 DEF OpOK, Operations

(* The next peer, or what follows the last one.                              *)
LEMMA NextPeerFields ==
  ASSUME NEW o \in Operations, o.target \in Peers
  PROVE  /\ NextPeer(o) \in Operations
         /\ NextPeer(o).new = o.new /\ NextPeer(o).reset = o.reset
         /\ NextPeer(o).cleared = o.cleared /\ NextPeer(o).recovering = o.recovering
         /\ NextPeer(o).failed = o.failed /\ NextPeer(o).completedAt = o.completedAt
         /\ \/ /\ NextPeer(o).pc = "clearPeer" /\ o.target < MemberCount
               /\ NextPeer(o).target = o.target + 1
            \/ NextPeer(o).pc = "enterVerify" /\ o.target = MemberCount /\ ~o.recovering
            \/ /\ NextPeer(o).pc = IF o.failed THEN "saveFailed" ELSE "waitCluster"
               /\ o.target = MemberCount /\ o.recovering
<1>1. o.target \in Nat /\ o.target <= MemberCount /\ MemberCount \in Nat
  BY MemberFacts
<1>2. CASE o.target < MemberCount
  <2>1. NextPeer(o) = [o EXCEPT !.pc = "clearPeer", !.target = o.target + 1]
    BY <1>1, <1>2 DEF NextPeer
  <2>2. o.target + 1 \in Members
    BY <1>1, <1>2, MemberFacts DEF Members
  <2> QED
    BY <1>2, <2>1, <2>2 DEF Operations, Restoring
<1>3. CASE o.target = MemberCount /\ ~o.recovering
  <2>1. NextPeer(o) = [o EXCEPT !.pc = "enterVerify"]
    BY <1>1, <1>3 DEF NextPeer
  <2> QED
    BY <1>3, <2>1 DEF Operations, Restoring
<1>4. CASE o.target = MemberCount /\ o.recovering
  <2>1. NextPeer(o) = [o EXCEPT !.pc = IF o.failed THEN "saveFailed" ELSE "waitCluster"]
    BY <1>1, <1>4 DEF NextPeer
  <2>2. CASE o.failed
    <3>1. NextPeer(o) = [o EXCEPT !.pc = "saveFailed"]
      BY <2>1, <2>2
    <3> QED
      BY <1>4, <2>2, <3>1 DEF Operations, Recovering
  <2>3. CASE ~o.failed
    <3>1. NextPeer(o) = [o EXCEPT !.pc = "waitCluster"]
      BY <2>1, <2>3
    <3> QED
      BY <1>4, <2>3, <3>1 DEF Operations, Restoring
  <2> QED
    BY <2>2, <2>3
<1> QED
  BY <1>1, <1>2, <1>3, <1>4

(* The next member of an intact cluster, or what follows the last one.       *)
LEMMA NextIntactFields ==
  ASSUME NEW o \in Operations, o.pc = "startIntact"
  PROVE  /\ NextIntact(o) \in Operations
         /\ NextIntact(o).new = o.new /\ NextIntact(o).reset = o.reset
         /\ NextIntact(o).cleared = o.cleared /\ NextIntact(o).recovering = o.recovering
         /\ NextIntact(o).failed = o.failed /\ NextIntact(o).completedAt = o.completedAt
         /\ \/ NextIntact(o).pc = "startIntact"
            \/ NextIntact(o).pc = IF o.failed THEN "saveFailed" ELSE "waitCluster"
<1>1. o.target \in Members /\ o.target \in Nat
  BY MemberFacts DEF Operations
<1>2. CASE o.target < MemberCount
  <2>1. NextIntact(o) = [o EXCEPT !.target = o.target + 1]
    BY <1>2 DEF NextIntact
  <2>2. o.target + 1 \in Members
    BY <1>1, <1>2, MemberFacts, MemberCountAssumption DEF Members
  <2> QED
    BY <2>1, <2>2 DEF Operations
<1>3. CASE ~(o.target < MemberCount)
  <2>1. NextIntact(o) = [o EXCEPT !.pc = IF o.failed THEN "saveFailed" ELSE "waitCluster"]
    BY <1>3 DEF NextIntact
  <2>2. CASE o.failed
    <3>1. NextIntact(o) = [o EXCEPT !.pc = "saveFailed"]
      BY <2>1, <2>2
    <3> QED
      BY <2>2, <3>1 DEF Operations, Recovering
  <2>3. CASE ~o.failed
    <3>1. NextIntact(o) = [o EXCEPT !.pc = "waitCluster"]
      BY <2>1, <2>3
    <3> QED
      BY <2>3, <3>1 DEF Operations, Restoring
  <2> QED
    BY <2>2, <2>3
<1> QED
  BY <1>2, <1>3

(* A failed step ends the operation, or the recovery answers it.             *)
LEMMA FailureOnward ==
  ASSUME OpOK(op), op.pc # "idle"
  PROVE  AfterFailure = Idle \/ Resumes(AfterFailure)
<1> DEFINE o == [op EXCEPT !.failed = TRUE]
<1>1. /\ o \in Operations /\ o.failed /\ o.pc = op.pc /\ o.new = op.new /\ o.reset = op.reset
      /\ o.cleared = op.cleared /\ o.recovering = op.recovering
      /\ o.completedAt = op.completedAt /\ o.target = op.target /\ op \in Operations
  BY DEF OpOK, Operations
<1>2. op.pc \in Preparing \cup Restoring \cup Recovering
  BY DEF OpOK, Operations
<1>3. AfterFailure =
        CASE op.pc \in Preparing \cup {"saveFailed"} -> Idle
          [] op.pc \notin Preparing /\ ~op.recovering ->
               Recovery([op EXCEPT !.recovering = TRUE, !.completedAt = At("complete")])
          [] At("protectMark") -> Goto("protectStop")
          [] At("startIntact") -> NextIntact(o)
          [] op.recovering /\ op.pc \in {"clearPeer", "startPeer", "waitPeer"} -> NextPeer(o)
          [] OTHER -> [o EXCEPT !.pc = "saveFailed"]
  BY DEF AfterFailure
<1> HIDE DEF o
<1>4. CASE op.pc \in Preparing \cup {"saveFailed"}
  <2>1. op.pc = "saveFailed" => op.recovering
    BY DEF OpOK
  <2>2. op.pc \in Preparing => ~op.recovering
    BY DEF OpOK, EarlySteps
  <2> QED
    BY <1>3, <1>4, <2>1, <2>2 DEF At, Preparing
<1>5. CASE op.pc \notin Preparing /\ ~op.recovering
  <2>1. op.pc \notin {"saveFailed", "protectMark", "protectStop", "startIntact"}
    BY <1>5 DEF OpOK
  <2>2. op.pc \in Restoring
    BY <1>2, <1>5, <2>1 DEF Recovering
  <2>3. AfterFailure = Recovery([op EXCEPT !.recovering = TRUE, !.completedAt = At("complete")])
    BY <1>3, <1>5, <2>1 DEF At
  <2> QED
    BY <1>5, <2>2, <2>3, RecoveryOnward
<1>6. CASE At("protectMark")
  <2>1. op.reset = "no" /\ op.recovering /\ op.failed
    BY <1>6 DEF OpOK, At
  <2>2. AfterFailure = Goto("protectStop")
    BY <1>3, <1>6, <2>1 DEF At, Preparing
  <2>3. /\ Goto("protectStop").pc = "protectStop"
        /\ Goto("protectStop").new = op.new /\ Goto("protectStop").reset = op.reset
        /\ Goto("protectStop").cleared = op.cleared /\ Goto("protectStop").failed = op.failed
        /\ Goto("protectStop").recovering = op.recovering
        /\ Goto("protectStop").completedAt = op.completedAt
        /\ Goto("protectStop") \in Operations
    BY <1>1, GotoFields DEF Recovering
  <2>4. OpOK(Goto("protectStop"))
    BY <1>6, <2>1, <2>3 DEF OpOK, EarlySteps, PeerSteps, MainSteps, Preparing, At
  <2> QED
    BY <1>6, <2>2, <2>3, <2>4 DEF Resumes, Onward, Unsaved, At
<1>7. CASE At("startIntact")
  <2>1. op.reset = "no" /\ op.recovering /\ op.new = {} /\ op.cleared = {} /\ ~op.completedAt
    BY <1>7 DEF OpOK, At
  <2>2. AfterFailure = NextIntact(o)
    BY <1>3, <1>7, <2>1 DEF At, Preparing
  <2> DEFINE r == NextIntact(o)
  <2>3. /\ r \in Operations /\ r.new = {} /\ r.reset = "no" /\ r.cleared = {} /\ r.recovering
        /\ r.failed /\ ~r.completedAt /\ r.pc \in {"startIntact", "saveFailed"}
    BY <1>1, <1>7, <2>1, NextIntactFields DEF At
  <2> HIDE DEF r
  <2>4. OpOK(r)
    BY <2>3 DEF OpOK, EarlySteps, PeerSteps, MainSteps, Preparing
  <2>5. Resumes(r)
    BY <1>7, <2>1, <2>3, <2>4 DEF Resumes, Onward, Unsaved, At
  <2> QED
    BY <2>2, <2>5 DEF r
<1>8. CASE op.recovering /\ op.pc \in PeerSteps
  <2>1. op.reset = "complete" /\ op.target \in Peers
    BY <1>8 DEF OpOK
  <2>2. AfterFailure = NextPeer(o)
    BY <1>3, <1>8 DEF At, Preparing, PeerSteps
  <2> DEFINE r == NextPeer(o)
  <2>3. /\ r \in Operations /\ r.new = op.new /\ r.reset = "complete" /\ r.cleared = op.cleared
        /\ r.recovering /\ r.failed /\ r.completedAt = op.completedAt
    BY <1>1, <1>8, <2>1, NextPeerFields
  <2>4. r.pc \in {"clearPeer", "saveFailed"} /\ (r.pc = "clearPeer" => r.target \in Peers)
    <3>1. \/ r.pc = "clearPeer" /\ o.target < MemberCount /\ r.target = o.target + 1
          \/ r.pc = "saveFailed"
      BY <1>1, <1>8, <2>1, NextPeerFields
    <3> QED
      BY <1>1, <2>1, <3>1, MemberCountAssumption DEF Peers, Members, Seed
  <2> HIDE DEF r
  <2>5. op.completedAt => op.cleared = Peers
    BY DEF OpOK
  <2>6. OpOK(r)
    BY <2>3, <2>4, <2>5 DEF OpOK, EarlySteps, PeerSteps, MainSteps, Preparing
  <2>7. Resumes(r)
    BY <1>8, <2>1, <2>3, <2>4, <2>6 DEF Resumes, Onward, Unsaved, PeerSteps
  <2> QED
    BY <2>2, <2>7 DEF r
<1>9. CASE /\ op.recovering /\ op.pc \notin PeerSteps \cup {"saveFailed"}
           /\ ~At("protectMark") /\ ~At("startIntact")
  <2>1. op.pc \notin EarlySteps \cup MainSteps
    BY <1>9 DEF OpOK
  <2>2. AfterFailure = [o EXCEPT !.pc = "saveFailed"]
    BY <1>3, <1>9, <2>1 DEF PeerSteps, EarlySteps
  <2> DEFINE r == [o EXCEPT !.pc = "saveFailed"]
  <2>3. /\ r \in Operations /\ r.pc = "saveFailed" /\ r.new = op.new /\ r.reset = op.reset
        /\ r.cleared = op.cleared /\ r.recovering /\ r.failed /\ r.completedAt = op.completedAt
    BY <1>1, <1>9 DEF Operations, Recovering
  <2> HIDE DEF r
  <2>4. OpOK(r)
    <3>1. /\ op.completedAt => op.reset = "complete" /\ op.cleared = Peers
          /\ op.cleared # {} => op.reset = "complete"
      BY DEF OpOK
    <3> QED
      BY <2>3, <3>1 DEF OpOK, EarlySteps, PeerSteps, MainSteps, Preparing
  <2>5. Resumes(r)
    BY <2>1, <2>3, <2>4 DEF Resumes, Onward, Unsaved, MainSteps
  <2> QED
    BY <2>2, <2>5 DEF r
<1> QED
  BY <1>4, <1>5, <1>6, <1>7, <1>8, <1>9 DEF At

-----------------------------------------------------------------------------
(* What a step of an operation does to VMs, volumes and the journal, whether *)
(* it succeeds, fails or is cut short.                                       *)
Effect ==
  /\ vm' \in [Members -> {"missing", "stopped", "running"}]
  /\ data' \in [Members -> {"absent", "empty", "old", "snap", "torn", "fresh"}]
  /\ journal' \in Journals
  /\ \A m \in Members : vm'[m] = "running" =>
       m \in Up \/ (op.pc \in {"startSeed", "startPeer", "startIntact"} /\ m = Starting)
  /\ \/ data' = data
     \/ At("reset") /\ data' \in {Torn(Seed), SeedReset}
     \/ At("createVolume") /\ data' = VolumeMade
     \/ /\ At("clearPeer") /\ op.target \notin op.cleared \cup Up
        /\ data' \in {Torn(op.target), PeerCleared}
  /\ journal' = journal \/ (Saves /\ journal' = Saved)

(* What may be done to the VMs and volumes is of their types.                *)
LEMMA EffectTypes ==
  ASSUME TypeOK, NEW m \in Members
  PROVE  /\ Launched(m) \in [Members -> {"missing", "stopped", "running"}]
         /\ Halted(m) \in [Members -> {"missing", "stopped", "running"}]
         /\ Deleted(m) \in [Members -> {"missing", "stopped", "running"}]
         /\ \A n \in Members : Launched(m)[n] = "running" => n \in Up \/ n = m
         /\ \A n \in Members : Halted(m)[n] = "running" => n \in Up /\ n # m
         /\ \A n \in Members : Deleted(m)[n] = "running" => n \in Up /\ n # m
         /\ Torn(m) \in [Members -> {"absent", "empty", "old", "snap", "torn", "fresh"}]
         /\ \A n \in Members : Torn(m)[n] = IF n = m THEN "torn" ELSE data[n]
BY DEF TypeOK, Launched, Halted, Deleted, Torn, Up

(* The reset leaves the snapshot on member 1, and clearing empties one peer. *)
LEMMA DataTypes ==
  ASSUME TypeOK
  PROVE  /\ SeedReset \in [Members -> {"absent", "empty", "old", "snap", "torn", "fresh"}]
         /\ SeedReset[Seed] = "snap"
         /\ \A n \in Members \ {Seed} :
              SeedReset[n] = IF data[n] = "snap" THEN "old" ELSE data[n]
         /\ VolumeMade \in [Members -> {"absent", "empty", "old", "snap", "torn", "fresh"}]
         /\ \A n \in Members : VolumeMade[n] =
              IF n = op.target /\ data[n] = "absent" THEN "empty" ELSE data[n]
         /\ PeerCleared \in [Members -> {"absent", "empty", "old", "snap", "torn", "fresh"}]
         /\ \A n \in Members : PeerCleared[n] = IF n = op.target THEN "empty" ELSE data[n]
<1>1. op.target \in Members /\ data \in [Members -> {"absent", "empty", "old", "snap", "torn", "fresh"}]
  BY DEF TypeOK, Operations
<1>2. \A n \in Members : (CASE n = Seed -> "snap"
                            [] n # Seed /\ data[n] = "snap" -> "old"
                            [] OTHER -> data[n])
                         \in {"absent", "empty", "old", "snap", "torn", "fresh"}
  BY <1>1
<1> QED
  BY <1>1, <1>2, MemberFacts DEF SeedReset, VolumeMade, PeerCleared

(* What is saved is a journal, and says no more than the operation knows.    *)
LEMMA SavedFacts ==
  ASSUME TypeOK, Saves
  PROVE  /\ Saved \in Journals /\ Saved.prov = op.prov /\ Saved.new = op.new
         /\ Saved.phase # "none"
         /\ RuntimeSafe(Saved) => \/ At("complete")
                                  \/ At("saveFailed") /\ ~op.failed /\ ~op.completedAt
<1> DEFINE j == [NoJournal EXCEPT !.prov = op.prov, !.new = op.new]
<1>1. /\ j \in Journals /\ j.prov = op.prov /\ j.new = op.new /\ ~j.succeeded /\ ~j.completedAt
      /\ op.failed \in BOOLEAN /\ op.completedAt \in BOOLEAN
  BY DEF TypeOK, Operations, Journals, NoJournal, Phases
<1>2. Saved = CASE op.pc \in {"saveValidated", "saveJournal"} -> [j EXCEPT !.phase = "validated"]
                [] op.pc \in DOMAIN PhaseOf -> [j EXCEPT !.phase = PhaseOf[op.pc]]
                [] At("complete") -> [j EXCEPT !.phase = "completed", !.succeeded = TRUE,
                                               !.completedAt = TRUE]
                [] At("saveFailed") -> [j EXCEPT !.phase = "failed", !.succeeded = ~op.failed,
                                                 !.completedAt = op.completedAt]
  BY DEF Saved
<1> HIDE DEF j
<1>3. CASE op.pc \in {"saveValidated", "saveJournal"}
  <2>1. Saved = [j EXCEPT !.phase = "validated"]
    BY <1>2, <1>3, PhaseFacts DEF At
  <2>2. /\ Saved \in Journals /\ Saved.prov = op.prov /\ Saved.new = op.new
        /\ Saved.phase = "validated"
    BY <1>1, <2>1 DEF Journals, Phases
  <2> QED
    BY <2>2 DEF RuntimeSafe
<1>4. CASE op.pc \in DOMAIN PhaseOf
  <2>1. Saved = [j EXCEPT !.phase = PhaseOf[op.pc]]
    BY <1>2, <1>4, PhaseFacts DEF At
  <2>2. /\ Saved \in Journals /\ Saved.prov = op.prov /\ Saved.new = op.new
        /\ Saved.phase \notin {"none", "failed", "completed"}
    BY <1>1, <1>4, <2>1, PhaseFacts DEF Journals
  <2> QED
    BY <2>2 DEF RuntimeSafe
<1>5. CASE At("complete")
  <2>1. Saved = [j EXCEPT !.phase = "completed", !.succeeded = TRUE, !.completedAt = TRUE]
    BY <1>2, <1>5, PhaseFacts DEF At
  <2>2. /\ Saved \in Journals /\ Saved.prov = op.prov /\ Saved.new = op.new
        /\ Saved.phase = "completed"
    BY <1>1, <2>1 DEF Journals, Phases
  <2> QED
    BY <1>5, <2>2
<1>6. CASE At("saveFailed")
  <2>1. Saved = [j EXCEPT !.phase = "failed", !.succeeded = ~op.failed,
                          !.completedAt = op.completedAt]
    BY <1>2, <1>6, PhaseFacts DEF At
  <2>2. /\ Saved \in Journals /\ Saved.prov = op.prov /\ Saved.new = op.new
        /\ Saved.phase = "failed" /\ Saved.succeeded = ~op.failed
        /\ Saved.completedAt = op.completedAt
    BY <1>1, <2>1 DEF Journals, Phases
  <2> QED
    BY <1>6, <2>2 DEF RuntimeSafe, Readable
<1> QED
  BY <1>3, <1>4, <1>5, <1>6 DEF Saves, At

(* Each step of RestoreHA and RecoverHA has one of these effects.            *)
LEMMA OperationEffect ==
  ASSUME TypeOK, OperationStep
  PROVE  Effect
<1>1. /\ vm \in [Members -> {"missing", "stopped", "running"}]
      /\ data \in [Members -> {"absent", "empty", "old", "snap", "torn", "fresh"}]
      /\ journal \in Journals /\ op.target \in Members /\ Seed \in Members
  BY MemberFacts DEF TypeOK, Operations
<1>2. \A m \in Members : vm[m] = "running" => m \in Up
  BY DEF Up
<1>3. CASE vm' = vm /\ data' = data /\ journal' = journal
  BY <1>1, <1>2, <1>3 DEF Effect
<1>4. CASE CreateVolume
  BY <1>1, <1>2, <1>4, DataTypes DEF Effect, CreateVolume
<1>5. CASE SaveJournal
  BY <1>1, <1>2, <1>5, SavedFacts DEF Effect, SaveJournal
<1>6. CASE StopMember
  BY <1>1, <1>6, EffectTypes DEF Effect, StopMember
<1>7. CASE DeleteSeed
  BY <1>1, <1>7, EffectTypes DEF Effect, DeleteSeed
<1>8. CASE RunReset
  BY <1>1, <1>2, <1>8, DataTypes DEF Effect, RunReset
<1>9. CASE StartMember
  <2>1. Starting \in Members
    BY <1>1 DEF Starting
  <2> QED
    BY <1>1, <1>9, <2>1, EffectTypes DEF Effect, StartMember
<1>10. CASE ClearPeer
  <2>1. CASE op.target \in op.cleared
    BY <1>3, <1>10, <2>1 DEF ClearPeer
  <2>2. CASE op.target \notin op.cleared
    BY <1>1, <1>10, <2>2, EffectTypes, DataTypes DEF Effect, ClearPeer
  <2> QED
    BY <2>1, <2>2
<1>11. CASE ProtectStop
  <2>1. vm' = [m \in Members |-> IF m \in Up THEN "stopped" ELSE vm[m]]
    BY <1>11 DEF ProtectStop
  <2> QED
    BY <1>1, <1>2, <1>11, <2>1 DEF Effect, ProtectStop
<1> QED
  BY <1>3, <1>4, <1>5, <1>6, <1>7, <1>8, <1>9, <1>10, <1>11
     DEF OperationStep, PrepareStep, RestoreStep, MarkStopped, InstallToken, SaveConfig,
         CreateNetwork, FinalPreflight, MarkRunning, WaitSeed, WaitPeer, WaitCluster, StepRefused

(* So has a step that fails, or in which the process dies.                   *)
LEMMA PartEffect ==
  ASSUME TypeOK, PartOfStep
  PROVE  Effect
<1>1. /\ vm \in [Members -> {"missing", "stopped", "running"}]
      /\ data \in [Members -> {"absent", "empty", "old", "snap", "torn", "fresh"}]
      /\ journal \in Journals /\ op.target \in Members /\ Seed \in Members /\ Starting \in Members
  BY MemberFacts DEF TypeOK, Operations, Starting
<1>2. \A m \in Members : vm[m] = "running" => m \in Up
  BY DEF Up
<1>3. journal' \in Journals /\ (journal' = journal \/ (Saves /\ journal' = Saved))
  BY <1>1, SavedFacts DEF PartOfStep
<1> DEFINE VMs == /\ vm' \in [Members -> {"missing", "stopped", "running"}]
                  /\ \A m \in Members : vm'[m] = "running" =>
                       m \in Up \/ (op.pc \in {"startSeed", "startPeer", "startIntact"} /\ m = Starting)
           Volumes == /\ data' \in [Members -> {"absent", "empty", "old", "snap", "torn", "fresh"}]
                      /\ \/ data' = data
                         \/ At("reset") /\ data' \in {Torn(Seed), SeedReset}
                         \/ At("createVolume") /\ data' = VolumeMade
                         \/ /\ At("clearPeer") /\ op.target \notin op.cleared \cup Up
                            /\ data' \in {Torn(op.target), PeerCleared}
<1>4. /\ vm' = vm => VMs
      /\ data' = data => Volumes
  BY <1>1, <1>2
<1>5. VMs /\ Volumes
  <2>1. CASE At("reset")
    <3>1. vm' = vm /\ data' \in {data, Torn(Seed), SeedReset}
      BY <2>1 DEF PartOfStep, At
    <3> QED
      BY <1>1, <1>4, <2>1, <3>1, EffectTypes, DataTypes
  <2>2. CASE At("createVolume")
    <3>1. vm' = vm /\ data' \in {data, VolumeMade}
      BY <2>2 DEF PartOfStep, At
    <3> QED
      BY <1>1, <1>4, <2>2, <3>1, DataTypes
  <2>3. CASE At("stopMember")
    <3>1. vm' \in {vm, Halted(op.target)} /\ data' = data
      BY <2>3 DEF PartOfStep, At
    <3> QED
      BY <1>1, <1>4, <3>1, EffectTypes
  <2>4. CASE At("deleteSeed")
    <3>1. vm' \in {vm, Deleted(Seed)} /\ data' = data
      BY <2>4 DEF PartOfStep, At
    <3> QED
      BY <1>1, <1>4, <3>1, EffectTypes
  <2>5. CASE op.pc \in {"startSeed", "startPeer", "startIntact"}
    <3>1. vm' \in {vm, Deleted(Starting), Launched(Starting)} /\ data' = data
      BY <2>5 DEF PartOfStep, At
    <3> QED
      BY <1>1, <1>4, <2>5, <3>1, EffectTypes
  <2>6. CASE At("clearPeer")
    <3>1. CASE op.target \notin op.cleared \cup Up
      <4>1. vm' = Deleted(op.target) /\ data' \in {data, Torn(op.target), PeerCleared}
        BY <2>6, <3>1 DEF PartOfStep, At
      <4> QED
        BY <1>1, <1>4, <2>6, <3>1, <4>1, EffectTypes, DataTypes
    <3>2. CASE op.target \in op.cleared \cup Up
      <4>1. vm' = vm /\ data' = data
        BY <2>6, <3>2 DEF PartOfStep, At
      <4> QED
        BY <1>4, <4>1
    <3> QED
      BY <3>1, <3>2
  <2>7. CASE At("protectStop")
    <3>1. PICK left \in SUBSET Up :
            vm' = [m \in Members |-> IF m \in Up \ left THEN "stopped" ELSE vm[m]]
      BY <2>7 DEF PartOfStep, At
    <3>2. data' = data
      BY <2>7 DEF PartOfStep, At
    <3> QED
      BY <1>1, <1>2, <1>4, <3>1, <3>2
  <2>8. CASE op.pc \notin {"reset", "createVolume", "stopMember", "deleteSeed", "startSeed",
                           "startPeer", "startIntact", "clearPeer", "protectStop"}
    <3>1. vm' = vm /\ data' = data
      BY <2>8 DEF PartOfStep, At
    <3> QED
      BY <1>4, <3>1
  <2> QED
    BY <2>1, <2>2, <2>3, <2>4, <2>5, <2>6, <2>7, <2>8 DEF At
<1> QED
  BY <1>3, <1>5 DEF Effect

-----------------------------------------------------------------------------
(* How a step that succeeds goes on. *)

(* Before the seed's volume is touched, an operation carries nothing over    *)
(* but its provenance.                                                       *)
LEMMA EarlyOnward ==
  ASSUME OpOK(op), op.pc \in EarlySteps,
         NEW o \in Operations, o.pc \in EarlySteps, o.new = op.new, o.reset = op.reset,
         o.cleared = op.cleared, o.recovering = op.recovering, o.failed = op.failed,
         o.completedAt = op.completedAt
  PROVE  Onward(o)
<1>1. /\ op.reset = "no" /\ ~op.recovering /\ ~op.failed /\ ~op.completedAt /\ op.cleared = {}
      /\ op.pc # "complete"
  BY DEF OpOK, EarlySteps, Preparing
<1>2. OpOK(o)
  BY <1>1 DEF OpOK, EarlySteps, PeerSteps, MainSteps, Preparing
<1> QED
  BY <1>1, <1>2 DEF Onward, EarlySteps, Preparing

(* The preparations of RecoverHA, up to the journal of the restore.          *)
LEMMA PrepareOnward ==
  ASSUME OpOK(op), PrepareStep
  PROVE  op' = Idle \/ Onward(op')
<1>1. op \in Operations /\ op.target \in Members
  BY DEF OpOK, Operations
<1>2. CASE op.pc \in EarlySteps /\ \E s \in EarlySteps : op' = Goto(s)
  <2>1. PICK s \in EarlySteps : op' = Goto(s)
    BY <1>2
  <2>2. s \in Preparing \cup Restoring \cup Recovering \cup {"idle"}
    BY DEF EarlySteps, Restoring
  <2> QED
    BY <1>1, <1>2, <2>1, <2>2, GotoFields, EarlyOnward
<1>3. CASE At("createVolume") /\ op.target < MemberCount
           /\ op' = [op EXCEPT !.target = op.target + 1]
  <2>1. op.target + 1 \in Members
    BY <1>1, <1>3, MemberCountAssumption DEF Members
  <2>2. /\ op' \in Operations /\ op'.pc = op.pc /\ op'.new = op.new /\ op'.reset = op.reset
        /\ op'.cleared = op.cleared /\ op'.recovering = op.recovering
        /\ op'.failed = op.failed /\ op'.completedAt = op.completedAt
    BY <1>1, <1>3, <2>1 DEF Operations
  <2>3. op.pc \in EarlySteps
    BY <1>3 DEF At, EarlySteps, Preparing
  <2> QED
    BY <2>2, <2>3, EarlyOnward
<1>4. CASE At("protectMark") /\ op' = Goto("protectStop")
  <2>1. op.reset = "no" /\ op.recovering /\ op.failed
    BY <1>4 DEF OpOK, At
  <2>2. /\ op'.pc = "protectStop" /\ op'.new = op.new /\ op'.reset = op.reset
        /\ op'.cleared = op.cleared /\ op'.failed = op.failed /\ op'.recovering = op.recovering
        /\ op'.completedAt = op.completedAt /\ op' \in Operations
    BY <1>1, <1>4, GotoFields DEF Recovering
  <2>3. OpOK(op')
    BY <1>4, <2>1, <2>2 DEF OpOK, EarlySteps, PeerSteps, MainSteps, Preparing, At
  <2> QED
    BY <1>4, <2>2, <2>3 DEF Onward, Unsaved, At
<1>5. CASE MarkStopped
  BY <1>2, <1>4, <1>5 DEF MarkStopped, At, EarlySteps, Preparing
<1>6. CASE InstallToken \/ SaveConfig \/ CreateNetwork
  BY <1>2, <1>6 DEF InstallToken, SaveConfig, CreateNetwork, At, EarlySteps, Preparing
<1>7. CASE CreateVolume
  BY <1>2, <1>3, <1>7 DEF CreateVolume, At, EarlySteps, Preparing
<1>8. CASE FinalPreflight
  BY <1>2, <1>8 DEF FinalPreflight, At, EarlySteps, Preparing
<1> QED
  BY <1>5, <1>6, <1>7, <1>8 DEF PrepareStep

(* The first peer is cleared, or already is.                                 *)
LEMMA FirstPeerOnward ==
  ASSUME OpOK(op), op.reset = "complete", op.pc \in {"enterRejoin", "waitSeed"}
  PROVE  Onward(FirstPeer(op))
<1> DEFINE r == FirstPeer(op)
<1>1. /\ r \in Operations /\ r.pc = "clearPeer" /\ r.target = 2 /\ r.new = op.new
      /\ r.reset = op.reset /\ r.cleared = op.cleared /\ r.recovering = op.recovering
      /\ r.failed = op.failed /\ r.completedAt = op.completedAt
  BY MemberFacts DEF OpOK, Operations, FirstPeer, Restoring
<1> HIDE DEF r
<1>2. /\ ~op.recovering => ~op.failed
      /\ op.completedAt => op.recovering /\ op.cleared = Peers
  BY DEF OpOK
<1>3. \A p \in Peers : ~(p < 2)
  BY MemberFacts
<1>4. OpOK(r)
  BY <1>1, <1>2, <1>3, MemberFacts DEF OpOK, EarlySteps, PeerSteps, MainSteps, Preparing
<1>5. Onward(r)
  BY <1>1, <1>4 DEF Onward, Unsaved
<1> QED
  BY <1>5 DEF r

(* A save of the journal enters the next phase, or ends the operation.       *)
LEMMA SaveOnward ==
  ASSUME OpOK(op), SaveJournal
  PROVE  op' = Idle \/ Onward(op')
<1>1. op \in Operations
  BY DEF OpOK
<1>2. CASE op.pc \in {"saveValidated", "saveJournal", "enterReset"}
  <2>1. \E s \in {"installToken", "markRunning", "deleteSeed"} : op' = Goto(s)
    BY <1>2 DEF SaveJournal, At
  <2>2. PICK s \in {"installToken", "markRunning", "deleteSeed"} : op' = Goto(s)
    BY <2>1
  <2>3. s \in EarlySteps /\ op.pc \in EarlySteps
    BY <1>2 DEF EarlySteps, Preparing
  <2>4. s \in Preparing \cup Restoring \cup Recovering \cup {"idle"}
    BY DEF Preparing, Restoring
  <2> QED
    BY <1>1, <2>2, <2>3, <2>4, GotoFields, EarlyOnward
<1>3. CASE At("enterStopping")
  <2>1. op' = [op EXCEPT !.pc = "stopMember", !.target = MemberCount]
    BY <1>3 DEF SaveJournal, At
  <2>2. /\ op' \in Operations /\ op'.pc = "stopMember" /\ op'.new = op.new
        /\ op'.reset = op.reset /\ op'.cleared = op.cleared
        /\ op'.recovering = op.recovering /\ op'.failed = op.failed
        /\ op'.completedAt = op.completedAt
    BY <1>1, <2>1, MemberFacts DEF Operations, Restoring
  <2>3. op.pc \in EarlySteps /\ op'.pc \in EarlySteps
    BY <1>3, <2>2 DEF At, EarlySteps, Preparing
  <2> QED
    BY <2>2, <2>3, EarlyOnward
<1>4. CASE At("enterStart")
  <2>1. op' = Goto("startSeed")
    BY <1>4 DEF SaveJournal, At
  <2>2. /\ op'.pc = "startSeed" /\ op'.new = op.new /\ op'.reset = op.reset
        /\ op'.cleared = op.cleared /\ op'.failed = op.failed /\ op'.recovering = op.recovering
        /\ op'.completedAt = op.completedAt /\ op' \in Operations
    BY <1>1, <2>1, GotoFields DEF Restoring
  <2>3. op.reset = "complete" /\ ~op.recovering /\ ~op.failed /\ ~op.completedAt
    BY <1>4 DEF OpOK, At, MainSteps
  <2>4. OpOK(op')
    BY <2>2, <2>3 DEF OpOK, EarlySteps, PeerSteps, MainSteps, Preparing
  <2> QED
    BY <1>4, <2>2, <2>4 DEF Onward, Unsaved, At
<1>5. CASE At("enterRejoin")
  <2>1. op' = FirstPeer(op)
    BY <1>5 DEF SaveJournal, At
  <2>2. op.reset = "complete"
    BY <1>5 DEF OpOK, At
  <2> QED
    BY <1>5, <2>1, <2>2, FirstPeerOnward DEF At
<1>6. CASE At("enterVerify")
  <2>1. op' = Goto("waitCluster")
    BY <1>6 DEF SaveJournal, At
  <2>2. /\ op'.pc = "waitCluster" /\ op'.new = op.new /\ op'.reset = op.reset
        /\ op'.cleared = op.cleared /\ op'.failed = op.failed /\ op'.recovering = op.recovering
        /\ op'.completedAt = op.completedAt /\ op' \in Operations
    BY <1>1, <2>1, GotoFields DEF Restoring
  <2>3. op.reset = "complete" /\ ~op.recovering /\ ~op.failed /\ ~op.completedAt
        /\ op.cleared = Peers
    BY <1>6 DEF OpOK, At, MainSteps
  <2>4. OpOK(op')
    BY <2>2, <2>3 DEF OpOK, EarlySteps, PeerSteps, MainSteps, Preparing
  <2> QED
    BY <1>6, <2>2, <2>4 DEF Onward, Unsaved, At
<1>7. CASE At("complete") \/ At("saveFailed")
  BY <1>7 DEF SaveJournal, At
<1> QED
  BY <1>2, <1>3, <1>4, <1>5, <1>6, <1>7, PhaseFacts DEF SaveJournal, Saves, At

(* The steps that stop the members, and reset and start member 1.            *)
LEMMA SeedOnward ==
  ASSUME OpOK(op), MarkRunning \/ StopMember \/ DeleteSeed \/ RunReset \/ WaitSeed
  PROVE  Onward(op')
<1>1. op \in Operations
  BY DEF OpOK
<1>2. CASE MarkRunning
  <2>1. op' = Goto("enterStopping") /\ op.pc \in EarlySteps /\ "enterStopping" \in EarlySteps
    BY <1>2 DEF MarkRunning, At, EarlySteps, Preparing
  <2> QED
    BY <1>1, <2>1, GotoFields, EarlyOnward DEF EarlySteps, Preparing
<1>3. CASE StopMember
  <2>1. /\ op' \in Operations /\ op'.pc \in EarlySteps /\ op'.new = op.new
        /\ op'.reset = op.reset /\ op'.cleared = op.cleared
        /\ op'.recovering = op.recovering /\ op'.failed = op.failed
        /\ op'.completedAt = op.completedAt
    <3>1. CASE op.target > 1
      <4>1. op' = [op EXCEPT !.target = op.target - 1] /\ op.pc = "stopMember"
        BY <1>3, <3>1 DEF StopMember, At
      <4>2. op.target - 1 \in Members
        BY <1>1, <3>1, MemberFacts, MemberCountAssumption DEF Operations, Members
      <4> QED
        BY <1>1, <4>1, <4>2 DEF Operations, EarlySteps
    <3>2. CASE ~(op.target > 1)
      <4>1. op' = Goto("enterReset")
        BY <1>3, <3>2 DEF StopMember, AfterStopping
      <4> QED
        BY <1>1, <4>1, GotoFields DEF Restoring, EarlySteps
    <3> QED
      BY <3>1, <3>2
  <2>2. op.pc \in EarlySteps
    BY <1>3 DEF StopMember, At, EarlySteps
  <2> QED
    BY <2>1, <2>2, EarlyOnward
<1>4. CASE DeleteSeed
  <2>1. op' = [op EXCEPT !.pc = "reset", !.reset = "attempted"] /\ op.pc = "deleteSeed"
    BY <1>4 DEF DeleteSeed, At
  <2>2. /\ op' \in Operations /\ op'.pc = "reset" /\ op'.reset = "attempted" /\ op'.new = op.new
        /\ op'.cleared = op.cleared /\ op'.recovering = op.recovering
        /\ op'.failed = op.failed /\ op'.completedAt = op.completedAt
    BY <1>1, <2>1 DEF Operations, Restoring
  <2>3. ~op.recovering /\ ~op.failed /\ ~op.completedAt /\ op.cleared = {}
    BY <2>1 DEF OpOK, EarlySteps
  <2>4. OpOK(op')
    BY <2>2, <2>3 DEF OpOK, EarlySteps, PeerSteps, MainSteps, Preparing
  <2> QED
    BY <2>1, <2>2, <2>4 DEF Onward, Unsaved, EarlySteps
<1>5. CASE RunReset
  <2>1. /\ op' = [op EXCEPT !.pc = "enterStart", !.reset = "complete", !.target = Seed]
        /\ op.pc = "reset" /\ data' = SeedReset
    BY <1>5 DEF RunReset, At
  <2>2. /\ op' \in Operations /\ op'.pc = "enterStart" /\ op'.reset = "complete"
        /\ op'.new = op.new /\ op'.cleared = op.cleared /\ op'.recovering = op.recovering
        /\ op'.failed = op.failed /\ op'.completedAt = op.completedAt
    BY <1>1, <2>1, MemberFacts DEF Operations, Restoring
  <2>3. ~op.recovering /\ ~op.failed /\ ~op.completedAt /\ op.cleared = {}
    BY <2>1 DEF OpOK, MainSteps
  <2>4. OpOK(op')
    BY <2>2, <2>3 DEF OpOK, EarlySteps, PeerSteps, MainSteps, Preparing
  <2> QED
    BY <2>1, <2>2, <2>4 DEF Onward, Unsaved
<1>6. CASE WaitSeed
  <2>1. op.pc = "waitSeed" /\ op.reset = "complete"
    BY <1>6 DEF WaitSeed, OpOK, At
  <2>2. CASE op.recovering
    BY <1>6, <2>1, <2>2, FirstPeerOnward DEF WaitSeed
  <2>3. CASE ~op.recovering
    <3>1. op' = Goto("enterRejoin")
      BY <1>6, <2>3 DEF WaitSeed
    <3>2. /\ op'.pc = "enterRejoin" /\ op'.new = op.new /\ op'.reset = op.reset
          /\ op'.cleared = op.cleared /\ op'.failed = op.failed
          /\ op'.recovering = op.recovering
          /\ op'.completedAt = op.completedAt /\ op' \in Operations
      BY <1>1, <3>1, GotoFields DEF Restoring
    <3>3. ~op.failed /\ ~op.completedAt
      BY <2>3 DEF OpOK
    <3>4. OpOK(op')
      BY <2>1, <2>3, <3>2, <3>3 DEF OpOK, EarlySteps, PeerSteps, MainSteps, Preparing
    <3> QED
      BY <2>1, <3>2, <3>4 DEF Onward, Unsaved
  <2> QED
    BY <2>2, <2>3
<1> QED
  BY <1>2, <1>3, <1>4, <1>5, <1>6

(* A member is started, and waited for where the next step needs it.         *)
LEMMA StartOnward ==
  ASSUME OpOK(op), StartMember
  PROVE  Onward(op')
<1>1. op \in Operations
  BY DEF OpOK
<1>2. CASE At("startSeed") \/ At("startPeer")
  <2>1. \E s \in {"waitSeed", "waitPeer"} :
          op' = Goto(s) /\ (s = "waitPeer" <=> At("startPeer"))
    BY <1>2 DEF StartMember, At
  <2>2. PICK s \in {"waitSeed", "waitPeer"} :
          op' = Goto(s) /\ (s = "waitPeer" <=> At("startPeer"))
    BY <2>1
  <2>3. /\ op'.pc = s /\ op'.new = op.new /\ op'.reset = op.reset /\ op'.target = op.target
        /\ op'.cleared = op.cleared /\ op'.failed = op.failed /\ op'.recovering = op.recovering
        /\ op'.completedAt = op.completedAt /\ op' \in Operations
    BY <1>1, <2>2, GotoFields DEF Restoring
  <2>4. /\ op.reset = "complete"
        /\ ~op.recovering => ~op.failed
        /\ op.completedAt => op.recovering /\ op.cleared = Peers
        /\ At("startPeer") => op.target \in Peers
        /\ At("startPeer") /\ ~op.failed => \A p \in Peers : p <= op.target => p \in op.cleared
    BY <1>2 DEF OpOK, At, PeerSteps
  <2>5. OpOK(op')
    BY <2>2, <2>3, <2>4 DEF OpOK, EarlySteps, PeerSteps, MainSteps, Preparing
  <2> QED
    BY <1>2, <2>2, <2>3, <2>5 DEF Onward, Unsaved, At
<1>3. CASE At("startIntact")
  <2>1. op' = NextIntact(op)
    BY <1>3 DEF StartMember, At
  <2>2. op.reset = "no" /\ op.recovering /\ op.new = {} /\ op.cleared = {} /\ ~op.completedAt
    BY <1>3 DEF OpOK, At
  <2>3. /\ op' \in Operations /\ op'.new = {} /\ op'.reset = "no" /\ op'.cleared = {}
        /\ op'.recovering /\ op'.failed = op.failed /\ ~op'.completedAt
        /\ op'.pc \in {"startIntact"} \cup {IF op.failed THEN "saveFailed" ELSE "waitCluster"}
    BY <1>1, <1>3, <2>1, <2>2, NextIntactFields DEF At
  <2>4. OpOK(op')
    BY <2>3 DEF OpOK, EarlySteps, PeerSteps, MainSteps, Preparing
  <2> QED
    BY <1>3, <2>2, <2>3, <2>4 DEF Onward, Unsaved, At
<1> QED
  BY <1>2, <1>3 DEF StartMember, At

(* A peer is cleared, or already is.                                         *)
LEMMA ClearOnward ==
  ASSUME OpOK(op), ClearPeer
  PROVE  Onward(op')
<1>1. op \in Operations /\ op.pc = "clearPeer"
  BY DEF OpOK, ClearPeer, At
<1>2. /\ op.reset = "complete" /\ op.target \in Peers
      /\ ~op.recovering => ~op.failed
      /\ op.completedAt => op.recovering /\ op.cleared = Peers
      /\ ~op.failed => \A p \in Peers : p < op.target => p \in op.cleared
  BY <1>1 DEF OpOK, PeerSteps
<1>3. /\ op' \in Operations /\ op'.pc = "startPeer" /\ op'.new = op.new /\ op'.reset = op.reset
      /\ op'.target = op.target /\ op'.failed = op.failed /\ op'.recovering = op.recovering
      /\ op'.completedAt = op.completedAt /\ op'.cleared = op.cleared \cup {op.target}
      /\ op'.cleared = op.cleared \/ data' = PeerCleared
  <2>1. CASE op.target \in op.cleared
    <3>1. op' = Goto("startPeer") /\ op.cleared \cup {op.target} = op.cleared
      BY <2>1 DEF ClearPeer
    <3> QED
      BY <1>1, <3>1, GotoFields DEF Restoring
  <2>2. CASE op.target \notin op.cleared
    <3>1. /\ op' = [op EXCEPT !.pc = "startPeer", !.cleared = op.cleared \cup {op.target}]
          /\ data' = PeerCleared
      BY <2>2 DEF ClearPeer
    <3>2. op.cleared \cup {op.target} \in SUBSET Peers
      BY <1>1, <1>2 DEF Operations
    <3> QED
      BY <1>1, <3>1, <3>2 DEF Operations, Restoring
  <2> QED
    BY <2>1, <2>2
<1>4. ~op.failed => \A p \in Peers : p <= op.target => p \in op'.cleared
  BY <1>2, <1>3, MemberFacts
<1>5. op.completedAt => op'.cleared = Peers
  BY <1>2, <1>3
<1>6. OpOK(op')
  BY <1>2, <1>3, <1>4, <1>5 DEF OpOK, EarlySteps, PeerSteps, MainSteps, Preparing
<1> QED
  BY <1>1, <1>3, <1>6 DEF Onward, Unsaved

(* The waits for a peer and for all members.                                 *)
LEMMA WaitOnward ==
  ASSUME OpOK(op), WaitPeer \/ WaitCluster
  PROVE  Onward(op')
<1>1. op \in Operations
  BY DEF OpOK
<1>2. CASE WaitPeer
  <2>1. op.pc = "waitPeer" /\ op' = NextPeer(op)
    BY <1>2 DEF WaitPeer, At
  <2>2. /\ op.reset = "complete" /\ op.target \in Peers
        /\ ~op.recovering => ~op.failed
        /\ op.completedAt => op.recovering /\ op.cleared = Peers
        /\ ~op.failed => \A p \in Peers : p <= op.target => p \in op.cleared
    BY <2>1 DEF OpOK, PeerSteps
  <2>3. /\ op' \in Operations /\ op'.new = op.new /\ op'.reset = op.reset
        /\ op'.cleared = op.cleared /\ op'.failed = op.failed /\ op'.recovering = op.recovering
        /\ op'.completedAt = op.completedAt
    BY <1>1, <2>1, <2>2, NextPeerFields
  <2>4. \/ op'.pc = "clearPeer" /\ op.target < MemberCount /\ op'.target = op.target + 1
        \/ op'.pc = "enterVerify" /\ op.target = MemberCount /\ ~op.recovering
        \/ /\ op'.pc = IF op.failed THEN "saveFailed" ELSE "waitCluster"
           /\ op.target = MemberCount /\ op.recovering
    BY <1>1, <2>1, <2>2, NextPeerFields
  <2>5. op.cleared \in SUBSET Peers
    BY <1>1 DEF Operations
  <2>6. /\ op'.pc = "clearPeer" => op'.target \in Peers
        /\ op'.pc = "clearPeer" /\ ~op.failed =>
             \A p \in Peers : p < op'.target => p \in op.cleared
    BY <2>2, <2>4, MemberFacts, MemberCountAssumption DEF Peers, Members, Seed
  <2>7. op'.pc # "clearPeer" /\ ~op.failed => op.cleared = Peers
    BY <2>2, <2>4, <2>5, MemberFacts
  <2>8. OpOK(op')
    BY <2>2, <2>3, <2>4, <2>6, <2>7 DEF OpOK, EarlySteps, PeerSteps, MainSteps, Preparing
  <2> QED
    BY <2>1, <2>3, <2>4, <2>8 DEF Onward, Unsaved
<1>3. CASE WaitCluster
  <2>1. op.pc = "waitCluster" /\ AllServing
    BY <1>3 DEF WaitCluster, At
  <2>2. /\ ~op.failed
        /\ op.reset = "complete" => op.cleared = Peers
        /\ op.reset = "complete" \/ (op.reset = "no" /\ op.new = {} /\ op.recovering)
        /\ op.completedAt => op.recovering /\ op.reset = "complete"
        /\ op.cleared # {} => op.reset = "complete"
    BY <2>1 DEF OpOK
  <2>3. op' = Goto(IF op.recovering THEN "saveFailed" ELSE "complete")
    BY <1>3 DEF WaitCluster
  <2>4. \E s \in {"saveFailed", "complete"} : op' = Goto(s) /\ (s = "saveFailed" <=> op.recovering)
    BY <2>3
  <2>5. PICK s \in {"saveFailed", "complete"} : op' = Goto(s) /\ (s = "saveFailed" <=> op.recovering)
    BY <2>4
  <2>6. /\ op'.pc = s /\ op'.new = op.new /\ op'.reset = op.reset
        /\ op'.cleared = op.cleared /\ op'.failed = op.failed /\ op'.recovering = op.recovering
        /\ op'.completedAt = op.completedAt /\ op' \in Operations
    BY <1>1, <2>5, GotoFields DEF Restoring, Recovering
  <2>7. OpOK(op')
    BY <2>2, <2>5, <2>6 DEF OpOK, EarlySteps, PeerSteps, MainSteps, Preparing
  <2> QED
    BY <2>1, <2>6, <2>7 DEF Onward, Unsaved
<1> QED
  BY <1>2, <1>3

(* The protective stop ends in a failed journal.                             *)
LEMMA ProtectOnward ==
  ASSUME OpOK(op), ProtectStop
  PROVE  Onward(op')
<1>1. op \in Operations /\ op.pc = "protectStop" /\ op' = Goto("saveFailed")
  BY DEF OpOK, ProtectStop, At
<1>2. op.reset = "no" /\ op.recovering /\ op.failed /\ op.cleared = {} /\ ~op.completedAt
  BY <1>1 DEF OpOK
<1>3. /\ op'.pc = "saveFailed" /\ op'.new = op.new /\ op'.reset = op.reset
      /\ op'.cleared = op.cleared /\ op'.failed = op.failed /\ op'.recovering = op.recovering
      /\ op'.completedAt = op.completedAt /\ op' \in Operations
  BY <1>1, GotoFields DEF Recovering
<1>4. OpOK(op')
  BY <1>2, <1>3 DEF OpOK, EarlySteps, PeerSteps, MainSteps, Preparing
<1> QED
  BY <1>1, <1>2, <1>3, <1>4 DEF Onward, Unsaved

(* Every step of an operation that succeeds ends it or goes on.              *)
LEMMA OperationOnward ==
  ASSUME OpOK(op), OperationStep
  PROVE  op' = Idle \/ Onward(op')
<1>1. CASE StepRefused
  <2>1. op.pc # "idle" /\ op' = AfterFailure
    BY <1>1 DEF StepRefused, Refused, At
  <2> QED
    BY <2>1, FailureOnward DEF Resumes
<1> QED
  BY <1>1, PrepareOnward, SaveOnward, SeedOnward, StartOnward, ClearOnward, WaitOnward,
     ProtectOnward DEF OperationStep, RestoreStep

-----------------------------------------------------------------------------
(* Steps of an operation preserve the invariant. *)

(* A step of an operation, with its effect and how it goes on.               *)
Moves ==
  /\ Effect /\ op.pc # "idle"
  /\ op' = Idle \/ Onward(op')
  /\ op.pc = "saveFailed" => op' = Idle
  /\ op.pc \in Unsaved => op'.pc \in Unsaved \/ (Saves /\ journal' = Saved)
  /\ forgotten' = forgotten \/ (op.pc = "deleteSeed" /\ op'.reset = "attempted")

(* Which volumes a step of an operation may change.                          *)
LEMMA DataMoves ==
  ASSUME TypeOK, OpOK(op), Effect
  PROVE  \/ data' = data
         \/ /\ op.pc = "reset" /\ op.reset = "attempted" /\ ~op.completedAt /\ op.cleared = {}
            /\ data'[Seed] \in {"torn", "snap"}
            /\ \A p \in Peers : data'[p] = data[p] \/ (data[p] = "snap" /\ data'[p] = "old")
         \/ /\ op.pc = "createVolume" /\ op.reset = "no" /\ ~op.completedAt
            /\ \A m \in Members : data'[m] = data[m] \/ (data[m] = "absent" /\ data'[m] = "empty")
         \/ /\ op.pc = "clearPeer" /\ op.reset = "complete" /\ ~op.completedAt
            /\ op.target \in Peers \ op.cleared /\ op.target \notin Up
            /\ data'[op.target] \in {"torn", "empty"}
            /\ \A m \in Members \ {op.target} : data'[m] = data[m]
<1>1. Peers \subseteq Members \ {Seed} /\ Seed \in Members /\ op.target \in Members
  BY MemberFacts DEF TypeOK, Operations
<1>2. CASE At("reset") /\ data' \in {Torn(Seed), SeedReset}
  <2>1. op.pc = "reset" /\ op.reset = "attempted" /\ ~op.completedAt /\ op.cleared = {}
    BY <1>2 DEF At, OpOK, MainSteps
  <2>2. CASE data' = Torn(Seed)
    BY <1>1, <2>1, <2>2, EffectTypes
  <2>3. CASE data' = SeedReset
    BY <1>1, <2>1, <2>3, DataTypes
  <2> QED
    BY <1>2, <2>2, <2>3
<1>3. CASE At("createVolume") /\ data' = VolumeMade
  <2>1. op.pc = "createVolume" /\ op.reset = "no" /\ ~op.completedAt
    BY <1>3 DEF At, OpOK, EarlySteps, Preparing
  <2> QED
    BY <1>3, <2>1, DataTypes
<1>4. CASE /\ At("clearPeer") /\ op.target \notin op.cleared \cup Up
           /\ data' \in {Torn(op.target), PeerCleared}
  <2>1. op.pc = "clearPeer" /\ op.reset = "complete" /\ op.target \in Peers /\ ~op.completedAt
    BY <1>4 DEF At, OpOK, PeerSteps
  <2>2. CASE data' = Torn(op.target)
    BY <1>1, <1>4, <2>1, <2>2, EffectTypes
  <2>3. CASE data' = PeerCleared
    BY <1>1, <1>4, <2>1, <2>3, DataTypes
  <2> QED
    BY <1>4, <2>2, <2>3
<1> QED
  BY <1>2, <1>3, <1>4 DEF Effect

(* Members that all serve, the seed the snapshot and the peers what they     *)
(* found or joined, hold the snapshot all of them.                           *)
LEMMA ServingSnap ==
  ASSUME AllServing, data[Seed] = "snap", \A p \in Peers : data[p] \in {"empty", "snap"}
  PROVE  AllSnap
BY DEF AllServing, Serving, AllSnap, Peers

(* What the volumes hold stays what the operation's progress says.           *)
LEMMA DataKept ==
  ASSUME IInv, Moves
  PROVE  DataOK'
<1> USE DEF IInv
<1>1. /\ Peers \subseteq Members /\ Seed \in Members /\ Seed \notin Peers
      /\ op.cleared \subseteq Peers /\ op # Idle
      /\ forgotten \in BOOLEAN
  BY MemberFacts DEF TypeOK, Operations, Moves, Idle
<1>2. op' = Idle => op'.pc = "idle" /\ op'.reset = "no" /\ ~op'.completedAt
  BY DEF Idle
<1>3. op' # Idle => op'.new = op.new /\ Onward(op')
  BY DEF Moves, Onward
<1>4. /\ op.reset = "complete" =>
           data[Seed] = "snap" /\ \A p \in op.cleared : data[p] \in {"empty", "snap"}
      /\ op.new = {} => Absent = {}
      /\ op.reset = "no" /\ op.new = {} /\ ~forgotten => OneCluster
      /\ op.pc = "complete" \/ op.completedAt => AllSnap
      /\ op.pc = "saveFailed" /\ ~op.failed /\ op.reset = "complete" => AllSnap
      /\ AllowsSupervision /\ ~forgotten => OneCluster
  BY <1>1 DEF DataOK
<1>5. op'.reset = "complete" =>
        data'[Seed] = "snap" /\ \A p \in op'.cleared : data'[p] \in {"empty", "snap"}
  <2> SUFFICES ASSUME op'.reset = "complete"
               PROVE  data'[Seed] = "snap" /\ \A p \in op'.cleared : data'[p] \in {"empty", "snap"}
    OBVIOUS
  <2>1. Onward(op')
    BY <1>2, <1>3
  <2>2. CASE op.reset = "complete"
    <3>1. \/ op'.cleared = op.cleared
          \/ /\ op.pc = "clearPeer" /\ op'.cleared = op.cleared \cup {op.target}
             /\ data' = PeerCleared
      BY <2>1 DEF Onward
    <3>2. CASE op'.cleared = op.cleared
      BY <1>1, <1>4, <2>2, <3>2, DataMoves DEF Moves, OpOK
    <3>3. CASE /\ op.pc = "clearPeer" /\ op'.cleared = op.cleared \cup {op.target}
               /\ data' = PeerCleared
      <4>1. op.target \in Peers
        BY <3>3 DEF OpOK, PeerSteps
      <4> QED
        BY <1>1, <1>4, <2>2, <3>3, <4>1, DataTypes
    <3> QED
      BY <3>1, <3>2, <3>3
  <2>3. CASE op.reset # "complete"
    <3>1. op.pc = "reset" /\ data' = SeedReset /\ op'.cleared = op.cleared
      BY <2>1, <2>3 DEF Onward
    <3>2. op.cleared = {}
      BY <2>3 DEF OpOK
    <3> QED
      BY <3>1, <3>2, DataTypes
  <2> QED
    BY <2>2, <2>3
<1>6. op' # Idle /\ op'.new = {} => Absent' = {}
  <2> SUFFICES ASSUME op' # Idle, op'.new = {} PROVE Absent' = {}
    OBVIOUS
  <2>1. \A m \in Members : data[m] # "absent"
    BY <1>3, <1>4 DEF Absent
  <2>2. \A m \in Members : data'[m] # "absent"
    BY <1>1, <2>1, DataMoves DEF Moves, Peers
  <2> QED
    BY <2>2 DEF Absent
<1>7. OneCluster /\ op.new = {} /\ op.reset = "no" => OneCluster'
  <2> SUFFICES ASSUME OneCluster, op.new = {}, op.reset = "no" PROVE OneCluster'
    OBVIOUS
  <2>1. \A m \in Members : data[m] # "absent"
    BY <1>4 DEF Absent
  <2>2. \A m \in Members : data'[m] = data[m]
    BY <2>1, DataMoves DEF Moves
  <2> QED
    BY <2>2 DEF OneCluster
<1>8. op' # Idle /\ op'.reset = "no" /\ op'.new = {} /\ ~forgotten' => OneCluster'
  <2> SUFFICES ASSUME op' # Idle, op'.reset = "no", op'.new = {}, ~forgotten' PROVE OneCluster'
    OBVIOUS
  <2>1. op.reset = "no" /\ op.new = {} /\ ~forgotten
    BY <1>3 DEF Onward, Moves
  <2> QED
    BY <1>4, <1>7, <2>1
<1>9. AllServing /\ op.pc = "waitCluster" /\ op.reset = "complete" => AllSnap
  <2>1. op.pc = "waitCluster" /\ op.reset = "complete" => op.cleared = Peers
    BY DEF OpOK
  <2> QED
    BY <1>4, <2>1, ServingSnap
<1>10. op.pc \in {"complete", "waitCluster", "saveFailed"} \/ op.completedAt => data' = data
  BY DataMoves DEF Moves
<1>11. op'.pc = "complete" \/ op'.completedAt => AllSnap'
  <2> SUFFICES ASSUME op'.pc = "complete" \/ op'.completedAt PROVE AllSnap'
    OBVIOUS
  <2>1. Onward(op')
    BY <1>2, <1>3
  <2>2. CASE op'.completedAt
    <3>1. op.completedAt \/ op.pc = "complete"
      BY <2>1, <2>2 DEF Onward
    <3> QED
      BY <1>4, <1>10, <3>1 DEF AllSnap
  <2>3. CASE op'.pc = "complete"
    <3>1. op.pc = "waitCluster" /\ AllServing
      BY <2>1, <2>3 DEF Onward
    <3>2. op'.reset = "complete"
      BY <2>1, <2>3 DEF Onward, OpOK
    <3>3. op.reset = "complete"
      BY <2>1, <3>1, <3>2 DEF Onward
    <3> QED
      BY <1>9, <1>10, <3>1, <3>3 DEF AllSnap
  <2> QED
    BY <2>2, <2>3
<1>12. op'.pc = "saveFailed" /\ ~op'.failed /\ op'.reset = "complete" => AllSnap'
  <2> SUFFICES ASSUME op'.pc = "saveFailed", ~op'.failed, op'.reset = "complete" PROVE AllSnap'
    OBVIOUS
  <2>1. Onward(op')
    BY <1>2, <1>3
  <2>2. op.pc = "waitCluster" /\ AllServing /\ op.reset = "complete"
    BY <2>1 DEF Onward
  <2> QED
    BY <1>9, <1>10, <2>2 DEF AllSnap
<1>13. AllowsSupervision' /\ ~forgotten' => OneCluster'
  <2> SUFFICES ASSUME AllowsSupervision', ~forgotten' PROVE OneCluster'
    OBVIOUS
  <2>1. CASE journal' # journal
    <3>1. Saves /\ journal' = Saved
      BY <2>1 DEF Moves, Effect
    <3>2. At("complete") \/ (At("saveFailed") /\ ~op.failed /\ ~op.completedAt)
      BY <3>1, SavedFacts DEF AllowsSupervision, RuntimeSafe, Readable
    <3>3. data' = data /\ forgotten' = forgotten
      BY <1>10, <3>2 DEF At, Moves
    <3>4. AllSnap => OneCluster
      BY DEF AllSnap, OneCluster
    <3>5. At("saveFailed") /\ ~op.failed =>
            op.reset = "complete" \/ (op.reset = "no" /\ op.new = {})
      BY DEF OpOK, At
    <3>6. OneCluster
      BY <1>4, <3>2, <3>3, <3>4, <3>5 DEF At
    <3> QED
      BY <3>3, <3>6 DEF OneCluster
  <2>2. CASE journal' = journal
    <3>1. AllowsSupervision
      BY <2>2 DEF AllowsSupervision, RuntimeSafe, Readable
    <3>2. op.pc \in Unsaved \/ op.completedAt
      BY <3>1 DEF JournalOK
    <3>3. data' = data
      BY <1>10, <3>2, DataMoves DEF Unsaved, Moves
    <3>4. forgotten' = forgotten
      BY <3>2 DEF Moves, Unsaved, OpOK, EarlySteps
    <3> QED
      BY <1>4, <3>1, <3>3, <3>4 DEF OneCluster
  <2> QED
    BY <2>1, <2>2
<1> QED
  BY <1>5, <1>6, <1>8, <1>11, <1>12, <1>13 DEF DataOK

(* The journal of the operation keeps the supervisor away.                   *)
LEMMA JournalKept ==
  ASSUME IInv, Moves
  PROVE  JournalOK'
<1> USE DEF IInv
<1> SUFFICES ASSUME op'.pc \notin Unsaved
             PROVE  /\ ~op'.completedAt => ~AllowsSupervision'
                    /\ journal'.new = op'.new
  BY DEF JournalOK
<1>1. Onward(op')
  BY DEF Moves, Unsaved, Idle
<1>2. op'.new = op.new
  BY <1>1 DEF Onward
<1>3. ~op'.completedAt => ~op.completedAt /\ op.pc # "complete"
  BY <1>1 DEF Onward
<1>4. op.pc # "saveFailed"
  BY <1>1 DEF Moves, Onward, Idle
<1>5. CASE Saves /\ journal' = Saved
  <2>1. RuntimeSafe(Saved) => At("complete") \/ (At("saveFailed") /\ ~op.failed)
    BY <1>5, SavedFacts
  <2> QED
    BY <1>2, <1>3, <1>4, <1>5, <2>1, SavedFacts DEF AllowsSupervision, RuntimeSafe, Readable, At
<1>6. CASE journal' = journal /\ ~(Saves /\ journal' = Saved)
  <2>1. op.pc \notin Unsaved
    BY <1>6 DEF Moves
  <2> QED
    BY <1>2, <1>3, <1>6, <2>1 DEF JournalOK, AllowsSupervision, RuntimeSafe, Readable
<1> QED
  BY <1>5, <1>6 DEF Moves, Effect

(* Member 1 runs on no volume without data, and none is taken for old.       *)
LEMMA SeedKept ==
  ASSUME IInv, Moves
  PROVE  SeedOK'
<1> USE DEF IInv
<1>1. Seed \in Members /\ Seed \notin Peers /\ Peers \subseteq Members /\ op # Idle
  BY MemberFacts DEF Moves, Idle
<1>2. op' # Idle => op'.new = op.new
  BY DEF Moves, Onward
<1>3. \A m \in Members : data'[m] # "fresh"
  BY <1>1, DataMoves DEF Moves, SeedOK, Peers
<1>4. data'[Seed] \in {"absent", "empty"} =>
        data[Seed] \in {"absent", "empty"} /\ (data'[Seed] = data[Seed] \/ op.pc = "createVolume")
  BY <1>1, DataMoves DEF Moves
<1>5. data'[Seed] \in {"absent", "empty"} => Seed \notin Up' /\ (op' # Idle => Seed \in op'.new)
  <2> SUFFICES ASSUME data'[Seed] \in {"absent", "empty"}
               PROVE  Seed \notin Up' /\ (op' # Idle => Seed \in op'.new)
    OBVIOUS
  <2>1. data[Seed] \in {"absent", "empty"}
    BY <1>4
  <2>2. Seed \notin Up /\ Seed \in op.new
    BY <1>1, <2>1 DEF SeedOK
  <2>3. ~(op.pc = "startSeed")
    BY <2>1 DEF DataOK, OpOK
  <2>4. ~(op.pc = "startIntact")
    BY <2>2 DEF OpOK
  <2>5. op.pc = "startPeer" => Starting # Seed
    BY <1>1 DEF OpOK, PeerSteps, Starting, At
  <2>6. vm'[Seed] # "running"
    BY <1>1, <2>2, <2>3, <2>4, <2>5 DEF Moves, Effect
  <2> QED
    BY <1>2, <2>2, <2>6 DEF Up
<1>6. data'[Seed] = "empty" => ~AllowsSupervision' /\ Seed \in journal'.new
  <2> SUFFICES ASSUME data'[Seed] = "empty"
               PROVE  ~AllowsSupervision' /\ Seed \in journal'.new
    OBVIOUS
  <2>1. data[Seed] \in {"absent", "empty"} /\ Seed \in op.new
    BY <1>1, <1>4 DEF SeedOK
  <2>2. ~AllSnap /\ op.reset # "complete"
    BY <1>1, <2>1 DEF AllSnap, DataOK
  <2>3. CASE Saves /\ journal' = Saved
    <3>1. op.pc # "complete"
      BY <2>2 DEF DataOK
    <3>2. op.pc = "saveFailed" => op.failed
      BY <2>1, <2>2 DEF OpOK
    <3> QED
      BY <2>1, <2>3, <3>1, <3>2, SavedFacts DEF AllowsSupervision, RuntimeSafe, Readable, At
  <2>4. CASE journal' = journal
    <3>1. CASE data[Seed] = "empty"
      BY <2>4, <3>1 DEF SeedOK, AllowsSupervision, RuntimeSafe, Readable
    <3>2. CASE op.pc = "createVolume"
      <4>1. ~op.completedAt /\ op.pc \notin Unsaved
        BY <3>2 DEF OpOK, EarlySteps, Preparing, Unsaved
      <4> QED
        BY <2>1, <2>4, <4>1 DEF JournalOK, AllowsSupervision, RuntimeSafe, Readable
    <3> QED
      BY <1>4, <3>1, <3>2
  <2> QED
    BY <2>3, <2>4 DEF Moves, Effect
<1> QED
  BY <1>3, <1>5, <1>6 DEF SeedOK

(* The first failure of a step that saves the first journal ends it.         *)
LEMMA FailureEnds ==
  ASSUME OpOK(op), op.pc \in Unsaved \cup {"saveFailed"}, op.pc # "idle"
  PROVE  AfterFailure = Idle
<1>1. op.pc \in Preparing \cup {"saveFailed"} /\ (op.pc = "saveFailed" => op.recovering)
  BY DEF OpOK, Unsaved, Preparing
<1>2. ~At("protectMark") /\ ~At("startIntact") /\ op.pc \notin {"clearPeer", "startPeer", "waitPeer"}
  BY DEF Unsaved, At
<1> QED
  BY <1>1, <1>2 DEF AfterFailure, Preparing

(* A step of an operation, its failure and the death of its process are     *)
(* moves.                                                                    *)
LEMMA AllMove ==
  ASSUME IInv, OperationStep \/ StepFails \/ ProcessDies
  PROVE  Moves
<1> USE DEF IInv
<1>1. CASE OperationStep
  <2>1. op.pc # "idle"
    BY <1>1, PhaseFacts
       DEF OperationStep, PrepareStep, RestoreStep, MarkStopped, InstallToken, SaveConfig,
           CreateNetwork, CreateVolume, FinalPreflight, SaveJournal, Saves, MarkRunning, StopMember,
           DeleteSeed, RunReset, StartMember, WaitSeed, ClearPeer, WaitPeer, WaitCluster,
           ProtectStop, StepRefused, Refused, At
  <2>2. forgotten' = forgotten \/ (op.pc = "deleteSeed" /\ op'.reset = "attempted")
    <3>1. CASE DeleteSeed
      BY <3>1 DEF DeleteSeed, At, OpOK, Operations
    <3> QED
      BY <1>1, <3>1
         DEF OperationStep, PrepareStep, RestoreStep, MarkStopped, InstallToken, SaveConfig,
             CreateNetwork, CreateVolume, FinalPreflight, SaveJournal, MarkRunning, StopMember,
             RunReset, StartMember, WaitSeed, ClearPeer, WaitPeer, WaitCluster,
             ProtectStop, StepRefused
  <2>3. CASE op.pc \in Unsaved \cup {"saveFailed"}
    <3>1. SaveJournal \/ (MarkStopped /\ At("markStopped"))
      BY <1>1, <2>1, <2>3
         DEF OperationStep, PrepareStep, RestoreStep, MarkStopped, InstallToken, SaveConfig,
             CreateNetwork, CreateVolume, FinalPreflight, MarkRunning, StopMember,
             DeleteSeed, RunReset, StartMember, WaitSeed, ClearPeer, WaitPeer, WaitCluster,
             ProtectStop, StepRefused, Refused, At, Unsaved
    <3>2. CASE SaveJournal
      <4>1. op.pc = "saveFailed" => op' = Idle
        BY <3>2, PhaseFacts DEF SaveJournal, At
      <4> QED
        BY <1>1, <2>1, <2>2, <3>2, <4>1, OperationEffect, OperationOnward DEF Moves, SaveJournal
    <3>3. CASE MarkStopped /\ At("markStopped")
      <4>1. op'.pc \in Unsaved
        BY <3>3, GotoFields DEF MarkStopped, At, OpOK, Preparing, Unsaved
      <4> QED
        BY <1>1, <2>1, <2>2, <3>3, <4>1, OperationEffect, OperationOnward DEF Moves, At
    <3> QED
      BY <3>1, <3>2, <3>3
  <2> QED
    BY <1>1, <2>1, <2>2, <2>3, OperationEffect, OperationOnward DEF Moves
<1>2. CASE StepFails
  <2>1. op.pc # "idle" /\ op' = AfterFailure /\ forgotten' = forgotten
    BY <1>2 DEF StepFails, OpOK
  <2>2. Effect
    BY <1>2, PartEffect DEF StepFails
  <2>3. Idle.pc \in Unsaved
    BY DEF Idle, Unsaved
  <2> QED
    BY <2>1, <2>2, <2>3, FailureOnward, FailureEnds DEF Moves, Resumes
<1>3. CASE ProcessDies
  <2>1. op.pc # "idle" /\ op' = Idle /\ forgotten' = forgotten
    BY <1>3 DEF ProcessDies, OpOK
  <2>2. Effect
    BY <1>3, PartEffect DEF ProcessDies
  <2>3. Idle.pc \in Unsaved
    BY DEF Idle, Unsaved
  <2> QED
    BY <2>1, <2>2, <2>3 DEF Moves
<1> QED
  BY <1>1, <1>2, <1>3

(* The servers that were stopped stay so until the reset is over.            *)
LEMMA RestKept ==
  ASSUME IInv, OperationStep \/ StepFails \/ ProcessDies
  PROVE  RestOK'
<1> USE DEF IInv
<1>1. Moves
  BY AllMove
<1> SUFFICES ASSUME op'.pc \in {"stopMember", "enterReset", "deleteSeed", "reset"}
             PROVE  RestOK'
  BY DEF RestOK
<1>2. OperationStep /\ ~StepRefused /\ Onward(op')
  <2>1. op' # Idle
    BY DEF Idle
  <2>2. Onward(op')
    BY <1>1, <2>1 DEF Moves
  <2>3. StepFails \/ StepRefused => FALSE
    <3>1. StepFails \/ StepRefused => op' = AfterFailure
      BY DEF StepFails, StepRefused
    <3> QED
      BY <1>1, <2>1, <3>1, FailureOnward DEF Moves, Resumes
  <2> QED
    BY <2>1, <2>2, <2>3 DEF ProcessDies
<1>3. op.pc \in EarlySteps
  BY <1>2 DEF Onward
<1>4. Up' \subseteq Up
  BY <1>1, <1>3 DEF Moves, Effect, EarlySteps, Preparing, Up
<1>5. op \in Operations /\ op.target \in Members
  BY DEF OpOK, Operations
<1>6. SaveJournal \/ StopMember \/ DeleteSeed
  <2>1. CASE PrepareStep
    <3>1. \/ op' = Idle
          \/ \E s \in Preparing \cup {"protectStop"} : op' = Goto(s)
          \/ At("createVolume") /\ op' = [op EXCEPT !.target = op.target + 1]
      BY <2>1 DEF PrepareStep, MarkStopped, InstallToken, SaveConfig, CreateNetwork,
                  CreateVolume, FinalPreflight, Preparing
    <3>2. At("createVolume") /\ op' = [op EXCEPT !.target = op.target + 1] => op'.pc = "createVolume"
      BY <1>5 DEF Operations, At
    <3>3. \A s \in Preparing \cup {"protectStop"} : Goto(s).pc = s
      BY <1>5, GotoFields DEF Recovering
    <3> QED
      BY <3>1, <3>2, <3>3 DEF Idle, Preparing
  <2>2. CASE MarkRunning
    BY <1>5, <2>2, GotoFields DEF MarkRunning, Preparing
  <2> QED
    BY <1>2, <1>3, <2>1, <2>2
       DEF OperationStep, RestoreStep, RunReset, StartMember, WaitSeed, ClearPeer, WaitPeer,
           WaitCluster, ProtectStop, At, EarlySteps, Preparing
<1>7. CASE SaveJournal
  <2>1. CASE At("enterStopping")
    <3>1. op' = [op EXCEPT !.pc = "stopMember", !.target = MemberCount]
      BY <1>7, <2>1 DEF SaveJournal, At
    <3>2. op'.pc = "stopMember" /\ op'.target = MemberCount
      BY <1>5, <3>1 DEF Operations
    <3> QED
      BY <3>2, MemberFacts, MemberCountAssumption DEF RestOK
  <2>2. CASE At("enterReset")
    <3>1. op' = Goto("deleteSeed") /\ Up = {}
      BY <1>7, <2>2 DEF SaveJournal, At, RestOK
    <3>2. op'.pc = "deleteSeed"
      BY <1>5, <3>1, GotoFields DEF Restoring
    <3> QED
      BY <1>4, <3>1, <3>2 DEF RestOK
  <2>3. CASE At("saveValidated") \/ At("saveJournal")
    <3>1. op' = Goto("installToken") \/ op' = Goto("markRunning")
      BY <1>7, <2>3 DEF SaveJournal, At
    <3> QED
      BY <1>5, <3>1, GotoFields DEF Preparing
  <2> QED
    BY <1>3, <1>7, <2>1, <2>2, <2>3, PhaseFacts DEF SaveJournal, Saves, At, EarlySteps, Preparing
<1>8. CASE StopMember
  <2>1. op.pc = "stopMember" /\ \A m \in Members : m > op.target => m \notin Up
    BY <1>8 DEF StopMember, At, RestOK
  <2>2. \A m \in Members : m \in Up' => m \in Up /\ m # op.target
    BY <1>5, <1>8, EffectTypes DEF StopMember, Up
  <2>3. CASE op.target > 1
    <3>1. op' = [op EXCEPT !.target = op.target - 1]
      BY <1>8, <2>3 DEF StopMember
    <3>2. op'.pc = "stopMember" /\ op'.target = op.target - 1
      BY <1>5, <2>1, <3>1 DEF Operations
    <3>3. \A m \in Members : m > op.target - 1 => m \notin Up'
      BY <1>5, <2>1, <2>2, MemberFacts
    <3> QED
      BY <3>2, <3>3 DEF RestOK
  <2>4. CASE ~(op.target > 1)
    <3>1. op' = Goto("enterReset")
      BY <1>8, <2>4 DEF StopMember, AfterStopping
    <3>2. op'.pc = "enterReset"
      BY <1>5, <3>1, GotoFields DEF Restoring
    <3>3. \A m \in Members : m = op.target \/ m > op.target
      BY <1>5, <2>4, MemberFacts
    <3>4. Up' = {}
      BY <2>1, <2>2, <3>3 DEF Up
    <3> QED
      BY <3>2, <3>4 DEF RestOK
  <2> QED
    BY <2>3, <2>4
<1>9. CASE DeleteSeed
  <2>1. op'.pc = "reset" /\ Up = {}
    BY <1>5, <1>9 DEF DeleteSeed, At, Operations, RestOK
  <2> QED
    BY <1>4, <2>1 DEF RestOK
<1> QED
  BY <1>6, <1>7, <1>8, <1>9

-----------------------------------------------------------------------------
(* The other steps preserve the invariant. *)

(* What the writers of the desired state store is a desired state.           *)
LEMMA DesiredTypes ==
  /\ DefaultDesired \in DesiredStates
  /\ \A d \in DesiredStates : MarkedStopped(d) \in DesiredStates /\ MarkedRunning(d) \in DesiredStates
BY DEF DesiredStates, DefaultDesired, MarkedStopped, MarkedRunning

(* A rerun takes no volume without data for one that had some.               *)
LEMMA BeginKept ==
  ASSUME IInv, BeginStep
  PROVE  /\ OpOK(op') /\ DataOK' /\ JournalOK' /\ SeedOK' /\ RestOK'
         /\ forgotten' \in BOOLEAN
<1> USE DEF IInv
<1>1. \E step \in {"saveJournal", "markStopped"}, prov \in BOOLEAN, new \in SUBSET Members :
        /\ Begin(step, prov, new) /\ op = Idle
        /\ new = {} => Absent = {}
        /\ data[Seed] \in {"absent", "empty"} => Seed \in new
  <2>1. CASE BeginRestore
    <3>1. Begin("saveJournal", FALSE, {}) /\ op = Idle /\ Absent = {} /\ AllowsRestore
      BY <2>1 DEF BeginRestore, MayRestore
    <3>2. data[Seed] # "absent"
      BY <3>1, MemberFacts DEF Absent
    <3>3. data[Seed] # "empty"
      BY <3>1 DEF SeedOK, AllowsRestore, RequiresRecover, AllowsSupervision
    <3> WITNESS "saveJournal" \in {"saveJournal", "markStopped"}, FALSE \in BOOLEAN,
                {} \in SUBSET Members
    <3> QED
      BY <3>1, <3>2, <3>3
  <2>2. CASE BeginRecover
    <3>1. Begin("markStopped", TRUE, RecoveryNew) /\ op = Idle
      BY <2>2 DEF BeginRecover
    <3>2. RecoveryNew \in SUBSET Members /\ Absent \subseteq RecoveryNew
      BY DEF RecoveryNew, MergedNew, Absent, TypeOK, Journals
    <3>3. data[Seed] = "empty" => Seed \in RecoveryNew
      BY DEF SeedOK, RecoveryNew, MergedNew, AllowsSupervision, Interrupted
    <3>4. data[Seed] = "absent" => Seed \in RecoveryNew
      BY <3>2, MemberFacts DEF Absent
    <3> QED
      BY <3>1, <3>2, <3>3, <3>4
  <2> QED
    BY <2>1, <2>2 DEF BeginStep
<1>2. PICK step \in {"saveJournal", "markStopped"}, prov \in BOOLEAN, new \in SUBSET Members :
        /\ Begin(step, prov, new) /\ op = Idle
        /\ new = {} => Absent = {}
        /\ data[Seed] \in {"absent", "empty"} => Seed \in new
  BY <1>1
<1>3. /\ op' = [Idle EXCEPT !.pc = step, !.prov = prov, !.new = new]
      /\ forgotten' = (forgotten \/ (new = {} /\ ~OneCluster))
      /\ vm' = vm /\ data' = data /\ journal' = journal
  BY <1>2 DEF Begin
<1>4. /\ op' \in Operations /\ op'.pc = step /\ op'.new = new /\ op'.reset = "no"
      /\ op'.cleared = {} /\ ~op'.recovering /\ ~op'.failed /\ ~op'.completedAt
  BY <1>3, MemberFacts DEF Idle, Operations, Preparing
<1>5. OpOK(op')
  BY <1>4 DEF OpOK, PeerSteps, MainSteps
<1>6. OneCluster' = OneCluster /\ Absent' = Absent /\ Up' = Up
  BY <1>3 DEF OneCluster, Absent, Up
<1>7. AllowsSupervision' = AllowsSupervision
  BY <1>3 DEF AllowsSupervision, RuntimeSafe, Readable
<1>8. forgotten' \in BOOLEAN /\ (~forgotten' => ~forgotten /\ (new = {} => OneCluster))
  BY <1>3 DEF TypeOK
<1>9. DataOK'
  BY <1>2, <1>4, <1>6, <1>7, <1>8 DEF DataOK
<1>10. JournalOK'
  BY <1>4 DEF JournalOK, Unsaved
<1>11. SeedOK'
  BY <1>2, <1>3, <1>4, <1>6, <1>7 DEF SeedOK
<1>12. RestOK'
  BY <1>4 DEF RestOK
<1> QED
  BY <1>5, <1>8, <1>9, <1>10, <1>11, <1>12

(* A refused recovery only adds to the provenance.                           *)
LEMMA RejectKept ==
  ASSUME IInv, RejectRecover
  PROVE  /\ OpOK(op') /\ DataOK' /\ JournalOK' /\ SeedOK' /\ RestOK'
         /\ journal' \in Journals
<1> USE DEF IInv
<1>1. /\ op = Idle /\ journal' = [journal EXCEPT !.new = RecoveryNew]
      /\ Interrupted /\ vm' = vm /\ data' = data /\ op' = op /\ forgotten' = forgotten
  BY DEF RejectRecover
<1>2. RecoveryNew \in SUBSET Members /\ journal.new \subseteq RecoveryNew
  BY <1>1 DEF RecoveryNew, MergedNew, Absent, TypeOK, Journals
<1>3. /\ journal' \in Journals /\ journal'.new = RecoveryNew /\ journal'.phase = journal.phase
      /\ journal'.succeeded = journal.succeeded /\ journal'.completedAt = journal.completedAt
  BY <1>1, <1>2 DEF TypeOK, Journals
<1>4. AllowsSupervision' = AllowsSupervision
  BY <1>3 DEF AllowsSupervision, RuntimeSafe, Readable
<1>5. OneCluster' = OneCluster /\ Absent' = Absent /\ Up' = Up /\ AllSnap' = AllSnap
  BY <1>1 DEF OneCluster, Absent, Up, AllSnap
<1>6. DataOK'
  BY <1>1, <1>4, <1>5 DEF DataOK
<1>7. JournalOK'
  BY <1>1 DEF JournalOK, Unsaved, Idle
<1>8. SeedOK'
  BY <1>1, <1>2, <1>3, <1>4, <1>5 DEF SeedOK
<1>9. RestOK'
  BY <1>1 DEF RestOK, Idle
<1> QED
  BY <1>1, <1>3, <1>6, <1>7, <1>8, <1>9

(* VMs that the supervisor starts or stops, or that exit.                    *)
LEMMA VMsKept ==
  ASSUME IInv, SuperviseStep \/ VMExits
  PROVE  /\ OpOK(op') /\ DataOK' /\ JournalOK' /\ SeedOK' /\ RestOK'
         /\ vm' \in [Members -> {"missing", "stopped", "running"}]
<1> USE DEF IInv
<1>1. data' = data /\ journal' = journal /\ op' = op /\ forgotten' = forgotten
  BY DEF SuperviseStep, SuperviseStart, SuperviseStop, VMExits
<1>2. /\ vm' \in [Members -> {"missing", "stopped", "running"}]
      /\ \/ Up' \subseteq Up
         \/ op = Idle /\ AllowsSupervision /\ Absent = {}
  <2>1. CASE SuperviseStart
    <3>1. PICK m \in Members \ Up : /\ Supervised /\ Absent = {}
                                    /\ vm' = Launched(m)
      BY <2>1 DEF SuperviseStart
    <3> QED
      BY <3>1, EffectTypes DEF Supervised
  <2>2. CASE SuperviseStop \/ VMExits
    <3>1. PICK m \in Up : vm' = Halted(m)
      BY <2>2 DEF SuperviseStop, VMExits
    <3> QED
      BY <3>1, EffectTypes DEF Up
  <2> QED
    BY <2>1, <2>2 DEF SuperviseStep
<1>3. OneCluster' = OneCluster /\ Absent' = Absent /\ AllSnap' = AllSnap
  BY <1>1 DEF OneCluster, Absent, AllSnap
<1>4. AllowsSupervision' = AllowsSupervision
  BY <1>1 DEF AllowsSupervision, RuntimeSafe, Readable
<1>5. DataOK'
  BY <1>1, <1>3, <1>4 DEF DataOK
<1>6. JournalOK'
  BY <1>1, <1>4 DEF JournalOK
<1>7. SeedOK'
  <2>1. op = Idle /\ AllowsSupervision /\ Absent = {} => data[Seed] \notin {"absent", "empty"}
    BY MemberFacts DEF SeedOK, Absent
  <2> QED
    BY <1>1, <1>2, <1>4, <2>1 DEF SeedOK
<1>8. RestOK'
  BY <1>1, <1>2 DEF RestOK, Idle
<1> QED
  BY <1>1, <1>2, <1>5, <1>6, <1>7, <1>8

(* The recovery notes an error.                                              *)
LEMMA CleanupKept ==
  ASSUME IInv, CleanupFails
  PROVE  OpOK(op') /\ DataOK' /\ JournalOK' /\ SeedOK' /\ RestOK'
<1> USE DEF IInv
<1>1. /\ op.pc \in {"startIntact", "startSeed"} /\ op.recovering
      /\ op' = [op EXCEPT !.failed = TRUE] /\ vm' = vm /\ data' = data /\ journal' = journal
      /\ forgotten' = forgotten
  BY DEF CleanupFails
<1>2. /\ op' \in Operations /\ op'.pc = op.pc /\ op'.new = op.new /\ op'.reset = op.reset
      /\ op'.cleared = op.cleared /\ op'.recovering = op.recovering /\ op'.failed
      /\ op'.completedAt = op.completedAt /\ op'.target = op.target
  BY <1>1 DEF OpOK, Operations
<1>3. OpOK(op')
  BY <1>1, <1>2 DEF OpOK, EarlySteps, PeerSteps, MainSteps, Preparing
<1>4. OneCluster' = OneCluster /\ Absent' = Absent /\ Up' = Up /\ AllSnap' = AllSnap
  BY <1>1 DEF OneCluster, Absent, Up, AllSnap
<1>5. AllowsSupervision' = AllowsSupervision
  BY <1>1 DEF AllowsSupervision, RuntimeSafe, Readable
<1>6. op # Idle
  BY <1>1 DEF Idle
<1>7. DataOK'
  BY <1>1, <1>2, <1>4, <1>5, <1>6 DEF DataOK
<1>8. JournalOK'
  BY <1>1, <1>2, <1>5 DEF JournalOK
<1>9. SeedOK'
  BY <1>1, <1>2, <1>4, <1>5, <1>6 DEF SeedOK
<1>10. RestOK'
  BY <1>1, <1>2 DEF RestOK
<1> QED
  BY <1>3, <1>7, <1>8, <1>9, <1>10

(* A volume is lost while the journal keeps the supervisor away.             *)
LEMMA LostKept ==
  ASSUME IInv, VolumeLost
  PROVE  /\ OpOK(op') /\ DataOK' /\ JournalOK' /\ SeedOK' /\ RestOK'
         /\ data' \in [Members -> {"absent", "empty", "old", "snap", "torn", "fresh"}]
<1> USE DEF IInv
<1>1. PICK m \in Members \ Absent :
        /\ op = Idle /\ ~AllowsSupervision /\ m \notin Up
        /\ data' = [data EXCEPT ![m] = "absent"]
        /\ vm' = vm /\ journal' = journal /\ op' = op /\ forgotten' = forgotten
  BY DEF VolumeLost
<1>2. /\ data' \in [Members -> {"absent", "empty", "old", "snap", "torn", "fresh"}]
      /\ \A n \in Members : data'[n] = IF n = m THEN "absent" ELSE data[n]
  BY <1>1 DEF TypeOK
<1>3. Up' = Up /\ AllowsSupervision' = AllowsSupervision
  BY <1>1 DEF Up, AllowsSupervision, RuntimeSafe, Readable
<1>4. DataOK'
  BY <1>1, <1>3 DEF DataOK, Idle
<1>5. JournalOK'
  BY <1>1 DEF JournalOK, Unsaved, Idle
<1>6. SeedOK'
  BY <1>1, <1>2, <1>3, MemberFacts DEF SeedOK
<1>7. RestOK'
  BY <1>1 DEF RestOK, Idle
<1> QED
  BY <1>1, <1>2, <1>4, <1>5, <1>6, <1>7

(* A server joins member 1; member 1 itself never founds a cluster.          *)
LEMMA FoundsKept ==
  ASSUME IInv, NEW m \in Members, Founds(m)
  PROVE  /\ OpOK(op') /\ DataOK' /\ JournalOK' /\ SeedOK' /\ RestOK'
         /\ data' \in [Members -> {"absent", "empty", "old", "snap", "torn", "fresh"}]
         /\ m # Seed /\ data[m] = "empty" /\ data[Seed] \in {"old", "snap"}
<1> USE DEF IInv
<1>1. /\ m \in Up /\ data[m] = "empty" /\ (m = Seed \/ Serving(Seed))
      /\ data' = [data EXCEPT ![m] = IF m = Seed THEN "fresh" ELSE data[Seed]]
      /\ vm' = vm /\ journal' = journal /\ op' = op /\ forgotten' = forgotten
  BY DEF Founds, CanFound
<1>2. m # Seed
  BY <1>1 DEF SeedOK
<1>3. data[Seed] \in {"old", "snap"}
  BY <1>1, <1>2, MemberFacts DEF Serving, SeedOK
<1>4. /\ data' \in [Members -> {"absent", "empty", "old", "snap", "torn", "fresh"}]
      /\ data'[m] = data[Seed] /\ \A n \in Members \ {m} : data'[n] = data[n]
  BY <1>1, <1>2, <1>3 DEF TypeOK
<1>5. ~OneCluster /\ ~AllSnap /\ Up' = Up
  BY <1>1 DEF OneCluster, AllSnap, Up
<1>6. AllowsSupervision' = AllowsSupervision
  BY <1>1 DEF AllowsSupervision, RuntimeSafe, Readable
<1>7. Absent' = Absent
  BY <1>1, <1>3, <1>4 DEF Absent
<1>8. op.cleared \subseteq Members \ {Seed} /\ data'[Seed] = data[Seed]
  BY <1>2, <1>4, MemberFacts DEF TypeOK, Operations
<1>9. DataOK'
  <2>1. op.reset = "complete" =>
          data'[Seed] = "snap" /\ \A p \in op.cleared : data'[p] \in {"empty", "snap"}
    BY <1>4, <1>8 DEF DataOK
  <2> QED
    BY <1>1, <1>5, <1>6, <1>7, <2>1 DEF DataOK
<1>10. JournalOK'
  BY <1>1, <1>6 DEF JournalOK
<1>11. SeedOK'
  BY <1>1, <1>3, <1>4, <1>5, <1>8 DEF SeedOK
<1>12. RestOK'
  BY <1>1, <1>5 DEF RestOK
<1> QED
  BY <1>1, <1>2, <1>3, <1>4, <1>9, <1>10, <1>11, <1>12

-----------------------------------------------------------------------------
(* The invariant. *)

(* A host is intact, damaged or empty before the first command.              *)
LEMMA InitInvariant == Init => IInv
<1> SUFFICES ASSUME Init PROVE IInv
  OBVIOUS
<1>1. NoJournal \in Journals /\ NoJournal.phase = "none" /\ Idle \in Operations
  BY IdleOK DEF NoJournal, Journals, Phases, OpOK
<1>2. /\ vm \in [Members -> {"missing", "stopped", "running"}]
      /\ data \in [Members -> {"absent", "old"}]
      /\ network \in BOOLEAN /\ config \in BOOLEAN /\ token \in BOOLEAN
      /\ desired \in DesiredStates
      /\ data[Seed] = "absent" => Seed \notin Up
  BY DesiredTypes, MemberFacts DEF Init, Up
<1>3. TypeOK
  <2>1. data \in [Members -> {"absent", "empty", "old", "snap", "torn", "fresh"}]
    BY <1>2
  <2>2. journal = NoJournal /\ op = Idle /\ forgotten = FALSE /\ faults = 0 /\ 0 \in 0..MaxFaults
    BY RecoveryAssumption DEF Init
  <2> QED
    BY <1>1, <1>2, <2>1, <2>2 DEF TypeOK
<1>4. OneCluster /\ op = Idle
  BY <1>2 DEF OneCluster, Init
<1>5. DataOK
  BY <1>4 DEF DataOK, Idle
<1>6. JournalOK /\ RestOK
  BY <1>4 DEF JournalOK, RestOK, Idle, Unsaved
<1>7. SeedOK
  BY <1>2, <1>4, MemberFacts DEF SeedOK
<1> QED
  BY <1>3, <1>4, <1>5, <1>6, <1>7, IdleOK DEF IInv

(* Every step keeps the types, given that it keeps the operation's.          *)
LEMMA TypeKept ==
  ASSUME IInv, Next, OpOK(op')
  PROVE  TypeOK'
<1> USE DEF IInv
<1>1. op' \in Operations
  BY DEF OpOK
<1>2. /\ forgotten' \in BOOLEAN
      /\ faults' \in 0..MaxFaults
  <2>1. forgotten' \in BOOLEAN
    <3>1. CASE BeginStep
      BY <3>1, BeginKept
    <3> QED
      BY <3>1 DEF TypeOK, Next, RejectRecover, OperationStep, PrepareStep, RestoreStep, MarkStopped,
             InstallToken, SaveConfig, CreateNetwork, CreateVolume, FinalPreflight, SaveJournal,
             MarkRunning, StopMember, DeleteSeed, RunReset, StartMember, WaitSeed, ClearPeer,
             WaitPeer, WaitCluster, ProtectStop, StepRefused, SuperviseStep, SuperviseStart,
             SuperviseStop, FaultStep, StepFails, ProcessDies, CleanupFails, VMExits, VolumeLost,
             Founds
  <2>2. CASE Fault
    BY <2>1, <2>2, RecoveryAssumption DEF Fault, TypeOK
  <2>3. CASE faults' = faults
    BY <2>1, <2>3 DEF TypeOK
  <2>4. Fault \/ faults' = faults
    BY DEF Next, BeginStep, BeginRestore, BeginRecover, Begin, RejectRecover, OperationStep,
           PrepareStep, RestoreStep, MarkStopped,
           InstallToken, SaveConfig, CreateNetwork, CreateVolume, FinalPreflight, SaveJournal,
           MarkRunning, StopMember, DeleteSeed, RunReset, StartMember, WaitSeed, ClearPeer,
           WaitPeer, WaitCluster, ProtectStop, StepRefused, SuperviseStep, SuperviseStart,
           SuperviseStop, FaultStep, StepFails, ProcessDies, CleanupFails, VMExits, VolumeLost,
           Founds
  <2> QED
    BY <2>2, <2>3, <2>4
<1>3. /\ network' \in BOOLEAN /\ config' \in BOOLEAN /\ token' \in BOOLEAN
      /\ desired' \in DesiredStates
  <2>1. CASE MarkStopped \/ MarkRunning
    BY <2>1, DesiredTypes DEF MarkStopped, MarkRunning, TypeOK
  <2>2. CASE InstallToken \/ SaveConfig \/ CreateNetwork
    BY <2>2 DEF InstallToken, SaveConfig, CreateNetwork, files, TypeOK
  <2>3. CASE UNCHANGED <<network, files>>
    BY <2>3 DEF files, TypeOK
  <2> QED
    BY <2>1, <2>2, <2>3
       DEF Next, BeginStep, BeginRestore, BeginRecover, Begin, RejectRecover, OperationStep,
           PrepareStep, RestoreStep, CreateVolume, FinalPreflight, SaveJournal,
           StopMember, DeleteSeed, RunReset, StartMember, WaitSeed, ClearPeer,
           WaitPeer, WaitCluster, ProtectStop, StepRefused, SuperviseStep, SuperviseStart,
           SuperviseStop, FaultStep, StepFails, PartOfStep, ProcessDies, CleanupFails, VMExits,
           VolumeLost, Founds
<1>4. /\ vm' \in [Members -> {"missing", "stopped", "running"}]
      /\ data' \in [Members -> {"absent", "empty", "old", "snap", "torn", "fresh"}]
      /\ journal' \in Journals
  <2>1. CASE OperationStep \/ StepFails \/ ProcessDies
    BY <2>1, AllMove DEF Moves, Effect
  <2>2. CASE BeginStep \/ CleanupFails
    BY <2>2 DEF TypeOK, BeginStep, BeginRestore, BeginRecover, Begin, CleanupFails
  <2>3. CASE RejectRecover
    BY <2>3, RejectKept DEF TypeOK, RejectRecover
  <2>4. CASE SuperviseStep \/ VMExits
    BY <2>4, VMsKept DEF TypeOK, SuperviseStep, SuperviseStart, SuperviseStop, VMExits
  <2>5. CASE VolumeLost
    BY <2>5, LostKept DEF TypeOK, VolumeLost
  <2>6. CASE \E m \in Members : Founds(m)
    BY <2>6, FoundsKept DEF TypeOK, Founds
  <2> QED
    BY <2>1, <2>2, <2>3, <2>4, <2>5, <2>6 DEF Next, FaultStep
<1> QED
  BY <1>1, <1>2, <1>3, <1>4 DEF TypeOK

(* Every step keeps the invariant. *)
LEMMA StepInvariant == IInv /\ [Next]_vars => IInv'
<1> SUFFICES ASSUME IInv, [Next]_vars PROVE IInv'
  OBVIOUS
<1>1. CASE UNCHANGED vars
  <2>1. /\ vm' = vm /\ data' = data /\ network' = network /\ config' = config /\ token' = token
        /\ desired' = desired /\ journal' = journal /\ op' = op /\ forgotten' = forgotten
        /\ faults' = faults
    BY <1>1 DEF vars, files
  <2>2. /\ OneCluster' = OneCluster /\ Absent' = Absent /\ Up' = Up /\ AllSnap' = AllSnap
        /\ AllowsSupervision' = AllowsSupervision
    BY <2>1 DEF OneCluster, Absent, Up, AllSnap, AllowsSupervision, RuntimeSafe, Readable
  <2>3. TypeOK'
    BY <2>1 DEF IInv, TypeOK
  <2>4. DataOK' /\ JournalOK' /\ SeedOK' /\ RestOK'
    BY <2>1, <2>2 DEF IInv, DataOK, JournalOK, SeedOK, RestOK
  <2> QED
    BY <2>1, <2>3, <2>4 DEF IInv
<1>2. CASE Next
  <2>1. OpOK(op') /\ DataOK' /\ JournalOK' /\ SeedOK' /\ RestOK'
    <3>1. CASE OperationStep \/ StepFails \/ ProcessDies
      <4>1. OpOK(op')
        BY <3>1, AllMove, IdleOK DEF Moves, Onward
      <4> QED
        BY <3>1, <4>1, AllMove, DataKept, JournalKept, SeedKept, RestKept
    <3> QED
      BY <1>2, <3>1, BeginKept, RejectKept, VMsKept, CleanupKept, LostKept, FoundsKept
         DEF Next, FaultStep
  <2>2. TypeOK'
    BY <1>2, <2>1, TypeKept
  <2> QED
    BY <2>1, <2>2 DEF IInv
<1> QED
  BY <1>1, <1>2

-----------------------------------------------------------------------------
(* The theorems. *)

(* IInv holds in every state (restoreHAValidatedLocked and its recovery).    *)
THEOREM Invariant == Spec => []IInv
<1> QED
  BY InitInvariant, StepInvariant, PTL DEF Spec

(* The journal, the operation and the volumes stay what their types say      *)
(* (HARecoveryState, haRestoreProgress).                                     *)
THEOREM RecoveryTypeCorrect == Spec => []TypeOK
<1>1. IInv => TypeOK
  BY DEF IInv
<1> QED
  BY <1>1, Invariant, PTL

(* However often restore and recover fail, die and are repeated, the journal *)
(* admits the supervisor only to volumes of one cluster, unless an attempt   *)
(* forgot what an earlier one did (haRecoveryJournalRuntimeSafe).            *)
THEOREM ResumesSafely == Spec => []ResumesUnlessForgotten
<1>1. IInv => ResumesUnlessForgotten
  BY DEF IInv, DataOK, ResumesUnlessForgotten
<1> QED
  BY <1>1, Invariant, PTL

(* No server founds an empty cluster on a volume that RecoverHA created or   *)
(* that was lost (mergeHARecoveryVolumeProvenance).                          *)
THEOREM NeverManufactures == Spec => []NoManufacturedCluster
<1>1. IInv => NoManufacturedCluster
  BY DEF IInv, SeedOK, NoManufacturedCluster
<1> QED
  BY <1>1, Invariant, PTL

(* Member 1 is reset while no server runs; a peer's data is given up while   *)
(* its own server does not run and member 1 holds the snapshot               *)
(* (restoreHAValidatedLocked, clearHAPeerDataForRecovery).                   *)
THEOREM RewritesOnlyAtRest == Spec => RewritesAtRest
<1> DEFINE A == /\ At("reset") /\ data' # data => Up = {}
                /\ \A p \in Peers \ Absent : data'[p] # data[p] /\ data'[p] \in {"empty", "torn"}
                     => p \notin Up /\ data[Seed] = "snap"
<1>1. IInv /\ [Next]_vars => [A]_vars
  <2> SUFFICES ASSUME IInv, Next PROVE A
    OBVIOUS
  <2> USE DEF IInv
  <2>1. At("reset") => Up = {}
    BY DEF RestOK, At
  <2>2. ASSUME NEW p \in Peers \ Absent, data'[p] # data[p], data'[p] \in {"empty", "torn"}
        PROVE  p \notin Up /\ data[Seed] = "snap"
    <3>1. p \in Members /\ p \in Peers /\ data[p] # "absent"
      BY MemberFacts DEF Absent
    <3>2. CASE OperationStep \/ StepFails \/ ProcessDies
      <4>1. /\ op.pc = "clearPeer" /\ op.reset = "complete" /\ op.target \notin Up
            /\ p = op.target
        BY <2>2, <3>1, <3>2, AllMove, DataMoves DEF Moves
      <4> QED
        BY <4>1 DEF DataOK
    <3>3. CASE VolumeLost
      <4>1. PICK m \in Members \ Absent : data' = [data EXCEPT ![m] = "absent"]
        BY <3>3 DEF VolumeLost
      <4> QED
        BY <2>2, <3>1, <4>1 DEF TypeOK
    <3>4. CASE \E m \in Members : Founds(m)
      <4>1. PICK m \in Members : Founds(m)
        BY <3>4
      <4>2. m # Seed /\ data[Seed] \in {"old", "snap"}
            /\ data' = [data EXCEPT ![m] = IF m = Seed THEN "fresh" ELSE data[Seed]]
        BY <4>1, FoundsKept DEF Founds
      <4> QED
        BY <2>2, <3>1, <4>2 DEF TypeOK
    <3>5. CASE data' = data
      BY <2>2, <3>5
    <3> QED
      BY <3>2, <3>3, <3>4, <3>5
         DEF Next, BeginStep, BeginRestore, BeginRecover, Begin, RejectRecover, SuperviseStep,
             SuperviseStart, SuperviseStop, FaultStep, CleanupFails, VMExits
  <2> QED
    BY <2>1, <2>2
<1> QED
  BY <1>1, Invariant, PTL DEF Spec, RewritesAtRest
=============================================================================
