--------------------------- MODULE OperationMutex ---------------------------
(***************************************************************************)
(* What the operation lock of an HA cluster promises to the commands and   *)
(* to the supervisor that share the cluster: one of them at a time.  It    *)
(* promises no order among them and no end to any of them.                 *)
(***************************************************************************)
CONSTANT Processes

VARIABLE holders    (* the processes that may change the cluster *)

Init == holders = {}

Enter(p) ==
  /\ holders = {}
  /\ holders' = {p}

Leave(p) ==
  /\ holders = {p}
  /\ holders' = {}

Next == \E p \in Processes : Enter(p) \/ Leave(p)

Spec == Init /\ [][Next]_holders
=============================================================================
