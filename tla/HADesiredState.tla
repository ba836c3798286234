--------------------------- MODULE HADesiredState ---------------------------
(***************************************************************************)
(* The operator intent that internal/cluster/ha_desired_state.go keeps in  *)
(* ha-desired-state.json, as a value.  The file is replaced atomically, so *)
(* the transitions below are the only ways the stored intent changes.  A   *)
(* missing file reads as DefaultDesired.                                   *)
(***************************************************************************)
EXTENDS Integers, FiniteSets

CONSTANT MemberCount     (* haMemberCount: 3 in the source *)

ASSUME MemberCountAssumption == MemberCount \in Nat /\ MemberCount >= 3

Members == 1..MemberCount

DesiredStates == [cluster : {"Running", "Stopped"}, stopped : SUBSET Members]

DefaultDesired == [cluster |-> "Running", stopped |-> {}]

(* Mutant: one too many. *)
ValidDesired_Two(d) == Cardinality(d.stopped) <= 2

(* validateHADesiredState: at most one member may carry stop intent. *)
ValidDesired(d) == Cardinality(d.stopped) <= 1

(* The value setHAMemberIntentLocked asks to save; saveHADesiredState       *)
(* refuses it, and leaves the file alone, when it is not ValidDesired.      *)
WithMemberIntent(d, id, stop) ==
  [d EXCEPT !.stopped = IF stop THEN @ \cup {id} ELSE @ \ {id}]

(* markHAClusterStoppedLocked keeps the member intent ... *)
MarkedStopped(d) == [d EXCEPT !.cluster = "Stopped"]

(* ... and markHAClusterRunningLocked clears it. *)
MarkedRunning(d) == [cluster |-> "Running", stopped |-> {}]
=============================================================================
