------------------------------ MODULE HAIntent ------------------------------
(***************************************************************************)
(* What an HA cluster promises of the operator's intent, whatever commands,*)
(* passes of the supervisor, retries and deaths make up its life:          *)
(*                                                                         *)
(*  - only an operator's turn changes the intent, and only a full delete   *)
(*    forgets it, when no VM is up any more;                               *)
(*  - intent comes before mutation: nobody launches a member that is to    *)
(*    stay offline, and the supervisor launches nothing in a cluster that  *)
(*    is to be stopped.  There an operator may bring back the one member   *)
(*    that is missing;                                                     *)
(*  - in a cluster that is to run, a member is only taken down beside      *)
(*    peers that are all up.                                               *)
(*                                                                         *)
(* The last two speak of a sound cluster: once a VM has failed by itself,  *)
(* a VM that goes down may have failed as well.                            *)
(***************************************************************************)
EXTENDS HADesiredState

VARIABLES intent,   (* the stored intent                                   *)
          up,       (* the members whose VM runs                           *)
          turn,     (* whose turn it is to change the cluster              *)
          sound     (* no VM has failed so far                             *)

vars == <<intent, up, turn, sound>>

Actors == {"operator", "deletion", "supervisor"}

Init ==
  /\ intent = DefaultDesired
  /\ up \in {{}, Members}
  /\ turn = "none"
  /\ sound = TRUE

-----------------------------------------------------------------------------
Take(who) ==
  /\ turn = "none"
  /\ turn' = who
  /\ UNCHANGED <<intent, up, sound>>

(* A turn ends with its operation or, at any moment, with its process. *)
MayEnd == turn' \in {turn, "none"}

Leave ==
  /\ turn' = "none"
  /\ UNCHANGED <<intent, up, sound>>

Orders ==
  {d \in {WithMemberIntent(intent, m, stop) : m \in Members, stop \in BOOLEAN} : ValidDesired(d)}
    \cup {MarkedStopped(intent), MarkedRunning(intent)}

Order ==
  /\ turn = "operator"
  /\ intent' \in Orders
  /\ UNCHANGED <<up, turn, sound>>

Forget ==
  /\ turn = "deletion"
  /\ up = {}
  /\ intent' = DefaultDesired
  /\ UNCHANGED <<up, turn, sound>>

PeersUp(m) == Members \ {m} \subseteq up

Launch(m) ==
  /\ m \notin up \cup intent.stopped
  /\ \/ turn \in {"operator", "supervisor"} /\ intent.cluster = "Running"
     \/ turn = "operator" /\ (sound => PeersUp(m))
  /\ up' = up \cup {m}
  /\ MayEnd
  /\ UNCHANGED <<intent, sound>>

TakeDown(m) ==
  /\ m \in up
  /\ \/ turn = "deletion"
     \/ turn \in {"operator", "supervisor"} /\ intent.cluster = "Stopped"
     \/ turn \in {"operator", "supervisor"} /\ PeersUp(m)
  /\ up' = up \ {m}
  /\ MayEnd
  /\ UNCHANGED <<intent, sound>>

(* VMs fail, one or, with the Mac, all of them. *)
Fail ==
  /\ up' \in SUBSET up
  /\ sound' = FALSE
  /\ MayEnd
  /\ UNCHANGED intent

-----------------------------------------------------------------------------
Next == \/ \E who \in Actors : Take(who)
        \/ Leave \/ Order \/ Forget \/ Fail
        \/ \E m \in Members : Launch(m) \/ TakeDown(m)

Spec == Init /\ [][Next]_vars
=============================================================================
