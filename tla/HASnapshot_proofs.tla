------------------------- MODULE HASnapshot_proofs --------------------------
(***************************************************************************)
(* The safety of HASnapshot for any outputs and any number of faults,      *)
(* whether or not a supervisor runs and whether or not the runtime lets    *)
(* two VMs mount one volume.                                               *)
(*                                                                         *)
(* None of the properties is inductive: each is about the end of an        *)
(* operation, or about a death at any point of it, and follows from what   *)
(* its steps have established so far.                                      *)
(*                                                                         *)
(* The last part is about the other end of a snapshot: the package that a  *)
(* restore works with (HAPackage).                                         *)
(***************************************************************************)
EXTENDS HASnapshot, TLAPS

(* What the flags that the deferred functions look at say of the step.       *)
WithHelper    == {"copySnapshot", "copyToken", "flush", "drop"}
SourceDown    == {"helper"} \cup WithHelper
WhileDown     == SourceDown \cup {"secureSnapshot", "secureToken", "manifest", "start"}
AfterStart    == {"wait", "cluster", "syncPackage", "rename", "syncParent"}
BeforeStop    == {"save", "find", "mkdir", "stop"}
Undoing       == {"undoHelper", "undoStop", "undoWait"}

Flags ==
  /\ op.pc \in Steps => ~op.err /\ ~op.undoErr
  /\ op.pc \in Undoing => op.err
  /\ op.pc \in WithHelper \cup {"undoHelper"} => op.helperStarted
  /\ op.pc \in Steps \ WithHelper => ~op.helperStarted
  /\ op.pc \in WhileDown \cup {"wait"} => op.sourceStopped

(* The VMs, as far as nobody excuses the helper.                             *)
Mounts ==
  /\ op.pc \in SourceDown \cup {"undoHelper"} => source \notin Running
  /\ helper = "running" /\ ~excused => op.pc \in WithHelper \cup {"undoHelper"}

(* What the package holds when.  A helper that ended takes its buffers along. *)
Packed ==
  /\ op.pc = "copyToken" /\ helper = "running" => package["snapshot"] = "cached"
  /\ op.pc = "flush" /\ helper = "running" =>
       package["snapshot"] = "cached" /\ package["token"] = "cached"
  /\ op.pc \in {"drop", "secureSnapshot"} => package["snapshot"] = "written"
  /\ op.pc \in {"drop", "secureSnapshot", "secureToken"} => package["token"] = "written"
  /\ op.pc \in {"secureToken", "manifest"} => package["snapshot"] = "synced"
  /\ op.pc = "manifest" => package["token"] = "synced"
  /\ op.pc \in {"start"} \cup AfterStart => \A f \in Files : package[f] = "synced"
  /\ op.pc \in {"rename", "syncParent"} => flushed

(* What has a name is on the disk; what was promised, its name is too.       *)
Kept ==
  /\ \A o \in Outputs : out[o].state # "none" =>
       out[o].flushed /\ \A f \in Files : out[o].files[f] = "synced"
  /\ \A o \in promised : out[o].state = "durable"
  /\ op.pc \in Steps \ {"syncParent"} => out[op.out].state = "none"
  /\ op.pc = "syncParent" => out[op.out].state = "named"
  /\ op.pc \in Deferred /\ ~op.err => out[op.out].state = "durable"

(* Where the source is up, if it did not die and no failure was reported.    *)
Returns ==
  /\ op.pc \in BeforeStop \cup AfterStart \cup {"undoWait", "removeTemp", "removeGuest", "release"}
       => source \in Running \/ died \/ op.undoErr
  /\ op.pc = "release" /\ op.known => op.guestErr \/ ~guest

IInv == TypeOK /\ Flags /\ Mounts /\ Packed /\ Kept /\ Returns

-----------------------------------------------------------------------------
(* How an operation goes on *)

(* The operation is r, but for its step and its error.                       *)
Like(r) ==
  /\ op'.out = r.out /\ op'.known = r.known
  /\ op'.helperStarted = r.helperStarted /\ op'.sourceStopped = r.sourceStopped
  /\ op'.undoErr = r.undoErr /\ op'.guestErr = r.guestErr

LEMMA Going ==
  ASSUME TypeOK, NEW s \in Steps \cup Deferred \cup {"idle"}, Goto(s)
  PROVE  op' \in Operations /\ op'.pc = s /\ op'.err = op.err /\ Like(op)
  BY DEF TypeOK, Operations, Goto, Like

(* Where a failure leads: to the first deferred function that has something  *)
(* to do.                                                                    *)
LEMMA Failing ==
  ASSUME NEW r \in Operations, FailsWith(r)
  PROVE  /\ op' \in Operations /\ op'.err /\ Like(r)
         /\ op'.pc \in {"undoHelper", "undoStop", "removeTemp", "release"}
         /\ op'.pc = "undoHelper" <=> r.helperStarted
         /\ op'.pc = "undoStop" <=> ~r.helperStarted /\ r.sourceStopped
         /\ op'.pc = "release" => ~r.known
<1> DEFINE e == [r EXCEPT !.err = TRUE]
<1>1. /\ e \in Operations /\ e.err
      /\ e.out = r.out /\ e.known = r.known
      /\ e.helperStarted = r.helperStarted /\ e.sourceStopped = r.sourceStopped
      /\ e.undoErr = r.undoErr /\ e.guestErr = r.guestErr
  BY DEF Operations
<1>2. op' = [e EXCEPT !.pc = Unwind(e)]
  BY DEF FailsWith
<1> HIDE DEF e
<1>3. /\ Unwind(e) \in {"undoHelper", "undoStop", "removeTemp", "release"}
      /\ Unwind(e) = "undoHelper" <=> e.helperStarted
      /\ Unwind(e) = "undoStop" <=> ~e.helperStarted /\ e.sourceStopped
      /\ Unwind(e) = "release" => ~e.known
  BY <1>1 DEF Unwind, Operations
<1>4. /\ op' \in Operations /\ op'.pc = Unwind(e) /\ op'.err = e.err /\ Like(e)
  BY <1>1, <1>2, <1>3 DEF Operations, Like, Deferred
<1> QED BY <1>1, <1>3, <1>4 DEF Like

(* The operation ends as an idle one.                                        *)
LEMMA IdleIsOne ==
  /\ Idle \in Operations /\ Idle.pc = "idle"
  /\ ~Idle.helperStarted /\ ~Idle.sourceStopped /\ ~Idle.err /\ ~Idle.undoErr
BY OutputsAssumption DEF Idle, Operations

(* A step that fails, whatever it had an effect on.                          *)
LEMMA FailureKeeps ==
  ASSUME IInv, op.pc \in Steps, NEW r \in Operations, FailsWith(r), r.out = op.out,
         r.known = op.known, r.undoErr = op.undoErr, r.helperStarted => r.sourceStopped,
         UNCHANGED <<out, promised, died, excused>>,
         r.sourceStopped \/ (op.pc \in BeforeStop \cup AfterStart /\ source' = source),
         r.helperStarted => source' \notin Running,
         r.helperStarted \/ (helper' = helper /\ op.pc \notin WithHelper)
  PROVE  /\ op' \in Operations /\ (op'.helperStarted => op'.sourceStopped)
         /\ op'.pc \notin {"copySnapshot", "copyToken", "flush"}
         /\ Flags' /\ Mounts' /\ Packed' /\ Kept' /\ Returns'
<1>1. /\ op' \in Operations /\ op'.err /\ Like(r)
      /\ op'.pc \in {"undoHelper", "undoStop", "removeTemp", "release"}
      /\ op'.pc = "undoHelper" <=> r.helperStarted
      /\ op'.pc = "undoStop" <=> ~r.helperStarted /\ r.sourceStopped
      /\ op'.pc = "release" => ~r.known
  BY Failing
<1> USE <1>1
<1>2. Flags' /\ Packed'
  BY DEF Flags, Packed, Like, Steps, Undoing, WithHelper, WhileDown, SourceDown, AfterStart
<1>3. Mounts'
  BY DEF IInv, Mounts, Steps, WithHelper, SourceDown
<1>4. Kept'
  BY DEF IInv, Kept, Steps
<1>5. Returns'
  <2>1. op.pc \in BeforeStop \cup AfterStart => source \in Running \/ died \/ op.undoErr
    BY DEF IInv, Returns
  <2> QED
    BY <2>1 DEF Returns, Like, BeforeStop, AfterStart
<1> QED BY <1>2, <1>3, <1>4, <1>5 DEF Like

-----------------------------------------------------------------------------
(* The export.  A step either goes on or fails, as FailureKeeps has it.      *)
USE DEF Steps, Deferred, Undoing, WithHelper, SourceDown, WhileDown, AfterStart, BeforeStop

LEMMA SaveKeeps == ASSUME IInv, Save, UNCHANGED shared PROVE IInv'
<1>1. /\ op.pc = "save" /\ op \in Operations
      /\ UNCHANGED <<source, helper, package, flushed, out, promised, died, excused>>
  BY DEF Save, At, IInv, TypeOK, files, vms
<1>2. \/ source \in Running /\ guest' = TRUE /\ NoFault /\ Goto("find")
      \/ /\ guest' \in BOOLEAN /\ (IF source \in Running THEN Fault ELSE NoFault)
         /\ FailsWith(op)
  BY <1>1 DEF Save, Fails, IInv, TypeOK
<1>3. CASE source \in Running /\ guest' = TRUE /\ NoFault /\ Goto("find")
  <2>1. op' \in Operations /\ op'.pc = "find" /\ op'.err = op.err /\ Like(op)
    BY <1>3, Going DEF IInv
  <2>2. TypeOK'
    BY <1>1, <1>3, <2>1 DEF IInv, TypeOK, Flags, Like, NoFault
  <2>3. Flags' /\ Mounts'
    BY <1>1, <1>3, <2>1 DEF IInv, Flags, Mounts, Like
  <2>4. Packed'
    BY <1>1, <1>3, <2>1 DEF IInv, Packed, Flags, Mounts
  <2>5. Kept'
    BY <1>1, <1>3, <2>1 DEF IInv, Kept, Like
  <2>6. Returns'
    BY <1>1, <1>3, <2>1 DEF IInv, Returns, Running, Like
  <2> QED BY <2>2, <2>3, <2>4, <2>5, <2>6 DEF IInv
<1>4. CASE /\ guest' \in BOOLEAN /\ (IF source \in Running THEN Fault ELSE NoFault)
           /\ FailsWith(op)
  <2>1. /\ op' \in Operations /\ (op'.helperStarted => op'.sourceStopped)
        /\ op'.pc \notin {"copySnapshot", "copyToken", "flush"}
        /\ Flags' /\ Mounts' /\ Packed' /\ Kept' /\ Returns'
    BY <1>1, <1>4, FailureKeeps DEF IInv, TypeOK, Flags, Mounts
  <2>2. TypeOK'
    BY <1>1, <1>4, <2>1, BoundsAssumption DEF IInv, TypeOK, Fault, NoFault
  <2> QED BY <2>1, <2>2 DEF IInv
<1> QED BY <1>2, <1>3, <1>4

LEMMA FindKeeps == ASSUME IInv, Find, UNCHANGED shared PROVE IInv'
<1>1. /\ op.pc = "find" /\ op \in Operations
      /\ UNCHANGED <<source, helper, guest, package, flushed, out, promised, died, excused>>
  BY DEF Find, At, IInv, TypeOK, files, vms
<1>2. \/ source \in Running /\ NoFault /\ op' = [op EXCEPT !.pc = "mkdir", !.known = TRUE]
      \/ (IF source \in Running THEN Fault ELSE NoFault) /\ FailsWith(op)
  BY <1>1 DEF Find, Fails, IInv, TypeOK
<1>3. CASE source \in Running /\ NoFault /\ op' = [op EXCEPT !.pc = "mkdir", !.known = TRUE]
  <2>1. /\ op' \in Operations /\ op'.pc = "mkdir" /\ op'.out = op.out /\ op'.known = TRUE
        /\ op'.helperStarted = op.helperStarted
        /\ op'.sourceStopped = op.sourceStopped /\ op'.err = op.err
        /\ op'.undoErr = op.undoErr /\ op'.guestErr = op.guestErr
    BY <1>1, <1>3 DEF Operations
  <2>2. TypeOK'
    BY <1>1, <1>3, <2>1 DEF IInv, TypeOK, Flags, NoFault
  <2>3. Flags' /\ Mounts'
    BY <1>1, <1>3, <2>1 DEF IInv, Flags, Mounts
  <2>4. Packed'
    BY <1>1, <1>3, <2>1 DEF IInv, Packed, Flags, Mounts
  <2>5. Kept'
    BY <1>1, <1>3, <2>1 DEF IInv, Kept
  <2>6. Returns'
    BY <1>1, <1>3, <2>1 DEF IInv, Returns, Running
  <2> QED BY <2>2, <2>3, <2>4, <2>5, <2>6 DEF IInv
<1>4. CASE (IF source \in Running THEN Fault ELSE NoFault) /\ FailsWith(op)
  <2>1. /\ op' \in Operations /\ (op'.helperStarted => op'.sourceStopped)
        /\ op'.pc \notin {"copySnapshot", "copyToken", "flush"}
        /\ Flags' /\ Mounts' /\ Packed' /\ Kept' /\ Returns'
    BY <1>1, <1>4, FailureKeeps DEF IInv, TypeOK, Flags, Mounts
  <2>2. TypeOK'
    BY <1>1, <1>4, <2>1, BoundsAssumption DEF IInv, TypeOK, Fault, NoFault
  <2> QED BY <2>1, <2>2 DEF IInv
<1> QED BY <1>2, <1>3, <1>4

LEMMA MakeTemporaryKeeps == ASSUME IInv, MakeTemporary, UNCHANGED shared PROVE IInv'
<1>1. /\ op.pc = "mkdir" /\ op \in Operations
      /\ UNCHANGED <<source, helper, guest, package, flushed, out, promised, died, excused>>
  BY DEF MakeTemporary, At, IInv, TypeOK, files, vms
<1>2. \/ NoFault /\ Goto("stop")
      \/ Fault /\ FailsWith(op)
  BY <1>1 DEF MakeTemporary, Fails, IInv, TypeOK
<1>3. CASE NoFault /\ Goto("stop")
  <2>1. op' \in Operations /\ op'.pc = "stop" /\ op'.err = op.err /\ Like(op)
    BY <1>3, Going DEF IInv
  <2>2. TypeOK'
    BY <1>1, <1>3, <2>1 DEF IInv, TypeOK, Flags, Like, NoFault
  <2>3. Flags' /\ Mounts'
    BY <1>1, <1>3, <2>1 DEF IInv, Flags, Mounts, Like
  <2>4. Packed'
    BY <1>1, <1>3, <2>1 DEF IInv, Packed, Flags, Mounts
  <2>5. Kept'
    BY <1>1, <1>3, <2>1 DEF IInv, Kept, Like
  <2>6. Returns'
    BY <1>1, <1>3, <2>1 DEF IInv, Returns, Running, Like
  <2> QED BY <2>2, <2>3, <2>4, <2>5, <2>6 DEF IInv
<1>4. CASE Fault /\ FailsWith(op)
  <2>1. /\ op' \in Operations /\ (op'.helperStarted => op'.sourceStopped)
        /\ op'.pc \notin {"copySnapshot", "copyToken", "flush"}
        /\ Flags' /\ Mounts' /\ Packed' /\ Kept' /\ Returns'
    BY <1>1, <1>4, FailureKeeps DEF IInv, TypeOK, Flags, Mounts
  <2>2. TypeOK'
    BY <1>1, <1>4, <2>1, BoundsAssumption DEF IInv, TypeOK, Fault, NoFault
  <2> QED BY <2>1, <2>2 DEF IInv
<1> QED BY <1>2, <1>3, <1>4

LEMMA StopKeeps == ASSUME IInv, Stop, UNCHANGED shared PROVE IInv'
<1>1. /\ op.pc = "stop" /\ op \in Operations
      /\ UNCHANGED <<helper, guest, package, flushed, out, promised, died, excused>>
  BY DEF Stop, At, IInv, TypeOK, files, vms
<1>2. \/ /\ source' = "stopped" /\ NoFault
         /\ op' = [op EXCEPT !.pc = "helper", !.sourceStopped = TRUE]
      \/ /\ source' \in {source, "stopped"} /\ Fault
         /\ FailsWith([op EXCEPT !.sourceStopped = TRUE])
  BY <1>1 DEF Stop, Fails, Running, IInv, TypeOK
<1>3. CASE /\ source' = "stopped" /\ NoFault
           /\ op' = [op EXCEPT !.pc = "helper", !.sourceStopped = TRUE]
  <2>1. /\ op' \in Operations /\ op'.pc = "helper" /\ op'.out = op.out
        /\ op'.known = op.known /\ op'.helperStarted = op.helperStarted
        /\ op'.sourceStopped = TRUE /\ op'.err = op.err /\ op'.undoErr = op.undoErr
        /\ op'.guestErr = op.guestErr
    BY <1>1, <1>3 DEF Operations
  <2>2. TypeOK'
    BY <1>1, <1>3, <2>1 DEF IInv, TypeOK, Flags, NoFault, Running
  <2>3. Flags' /\ Mounts'
    BY <1>1, <1>3, <2>1 DEF IInv, Flags, Mounts, Running
  <2>4. Packed'
    BY <1>1, <1>3, <2>1 DEF IInv, Packed, Flags, Mounts
  <2>5. Kept'
    BY <1>1, <1>3, <2>1 DEF IInv, Kept
  <2>6. Returns'
    BY <1>1, <1>3, <2>1 DEF IInv, Returns, Running
  <2> QED BY <2>2, <2>3, <2>4, <2>5, <2>6 DEF IInv
<1>4. CASE /\ source' \in {source, "stopped"} /\ Fault
           /\ FailsWith([op EXCEPT !.sourceStopped = TRUE])
  <2> DEFINE r == [op EXCEPT !.sourceStopped = TRUE]
  <2>1. /\ r \in Operations /\ r.out = op.out /\ r.known = op.known
        /\ r.undoErr = op.undoErr
        /\ r.helperStarted = op.helperStarted
        /\ r.sourceStopped = TRUE
    BY <1>1 DEF Operations
  <2>2. FailsWith(r)
    BY <1>4
  <2> HIDE DEF r
  <2>3. /\ op' \in Operations /\ (op'.helperStarted => op'.sourceStopped)
        /\ op'.pc \notin {"copySnapshot", "copyToken", "flush"}
        /\ Flags' /\ Mounts' /\ Packed' /\ Kept' /\ Returns'
    BY <1>1, <1>4, <2>1, <2>2, FailureKeeps DEF IInv, TypeOK, Flags, Mounts, Running
  <2>4. TypeOK'
    BY <1>1, <1>4, <2>3, BoundsAssumption DEF IInv, TypeOK, Fault, NoFault, Running
  <2> QED BY <2>3, <2>4 DEF IInv
<1> QED BY <1>2, <1>3, <1>4

LEMMA StartHelperKeeps == ASSUME IInv, StartHelper, UNCHANGED shared PROVE IInv'
<1>1. /\ op.pc = "helper" /\ op \in Operations
      /\ UNCHANGED <<source, guest, package, flushed, out, promised, died, excused>>
  BY DEF StartHelper, At, IInv, TypeOK, files, vms
<1>2. \/ /\ helper' = "running" /\ NoFault
         /\ op' = [op EXCEPT !.pc = "copySnapshot", !.helperStarted = TRUE]
      \/ /\ helper' \in {helper, "running"} /\ Fault
         /\ FailsWith([op EXCEPT !.helperStarted = TRUE])
  BY <1>1 DEF StartHelper, VolumeFree, Fails, IInv, TypeOK
<1>3. CASE /\ helper' = "running" /\ NoFault
           /\ op' = [op EXCEPT !.pc = "copySnapshot", !.helperStarted = TRUE]
  <2>1. /\ op' \in Operations /\ op'.pc = "copySnapshot" /\ op'.out = op.out
        /\ op'.known = op.known /\ op'.helperStarted = TRUE
        /\ op'.sourceStopped = op.sourceStopped /\ op'.err = op.err
        /\ op'.undoErr = op.undoErr /\ op'.guestErr = op.guestErr
    BY <1>1, <1>3 DEF Operations
  <2>2. TypeOK'
    BY <1>1, <1>3, <2>1 DEF IInv, TypeOK, Flags, NoFault
  <2>3. Flags' /\ Mounts'
    BY <1>1, <1>3, <2>1 DEF IInv, Flags, Mounts
  <2>4. Packed'
    BY <1>1, <1>3, <2>1 DEF IInv, Packed, Flags, Mounts
  <2>5. Kept'
    BY <1>1, <1>3, <2>1 DEF IInv, Kept
  <2>6. Returns'
    BY <1>1, <1>3, <2>1 DEF IInv, Returns, Running
  <2> QED BY <2>2, <2>3, <2>4, <2>5, <2>6 DEF IInv
<1>4. CASE /\ helper' \in {helper, "running"} /\ Fault
           /\ FailsWith([op EXCEPT !.helperStarted = TRUE])
  <2> DEFINE r == [op EXCEPT !.helperStarted = TRUE]
  <2>1. /\ r \in Operations /\ r.out = op.out /\ r.known = op.known
        /\ r.undoErr = op.undoErr
        /\ r.helperStarted = TRUE
        /\ r.sourceStopped = op.sourceStopped
    BY <1>1 DEF Operations
  <2>2. FailsWith(r)
    BY <1>4
  <2> HIDE DEF r
  <2>3. /\ op' \in Operations /\ (op'.helperStarted => op'.sourceStopped)
        /\ op'.pc \notin {"copySnapshot", "copyToken", "flush"}
        /\ Flags' /\ Mounts' /\ Packed' /\ Kept' /\ Returns'
    BY <1>1, <1>4, <2>1, <2>2, FailureKeeps DEF IInv, TypeOK, Flags, Mounts
  <2>4. TypeOK'
    BY <1>1, <1>4, <2>3, BoundsAssumption DEF IInv, TypeOK, Fault, NoFault
  <2> QED BY <2>3, <2>4 DEF IInv
<1> QED BY <1>2, <1>3, <1>4

LEMMA CopySnapshotKeeps == ASSUME IInv, CopySnapshot, UNCHANGED shared PROVE IInv'
<1>1. /\ op.pc = "copySnapshot" /\ op \in Operations
      /\ UNCHANGED <<source, helper, guest, flushed, out, promised, died, excused>>
  BY DEF CopySnapshot, Copy, At, IInv, TypeOK, files, vms
<1>2. \/ /\ helper = "running" /\ package' = [package EXCEPT !["snapshot"] = "cached"]
         /\ NoFault /\ Goto("copyToken")
      \/ /\ package' \in {package, [package EXCEPT !["snapshot"] = "torn"]}
         /\ (Fault \/ NoFault) /\ FailsWith(op)
  BY <1>1 DEF CopySnapshot, Copy, Fails, NoFault, IInv, TypeOK
<1>3. CASE /\ helper = "running" /\ package' = [package EXCEPT !["snapshot"] = "cached"]
           /\ NoFault /\ Goto("copyToken")
  <2>1. op' \in Operations /\ op'.pc = "copyToken" /\ op'.err = op.err /\ Like(op)
    BY <1>3, Going DEF IInv
  <2>2. TypeOK'
    BY <1>1, <1>3, <2>1 DEF IInv, TypeOK, Flags, Like, NoFault, Content, Files, Lost
  <2>3. Flags' /\ Mounts'
    BY <1>1, <1>3, <2>1 DEF IInv, Flags, Mounts, Like
  <2>4. Packed'
    BY <1>1, <1>3, <2>1 DEF IInv, Packed, Flags, Mounts, TypeOK, Files, Content, Lost
  <2>5. Kept'
    BY <1>1, <1>3, <2>1 DEF IInv, Kept, Like
  <2>6. Returns'
    BY <1>1, <1>3, <2>1 DEF IInv, Returns, Running, Like
  <2> QED BY <2>2, <2>3, <2>4, <2>5, <2>6 DEF IInv
<1>4. CASE /\ package' \in {package, [package EXCEPT !["snapshot"] = "torn"]}
           /\ (Fault \/ NoFault) /\ FailsWith(op)
  <2>1. /\ op' \in Operations /\ (op'.helperStarted => op'.sourceStopped)
        /\ op'.pc \notin {"copySnapshot", "copyToken", "flush"}
        /\ Flags' /\ Mounts' /\ Packed' /\ Kept' /\ Returns'
    BY <1>1, <1>4, FailureKeeps DEF IInv, TypeOK, Flags, Mounts
  <2>2. TypeOK'
    BY <1>1, <1>4, <2>1, BoundsAssumption DEF IInv, TypeOK, Fault, NoFault, Content, Files, Lost
  <2> QED BY <2>1, <2>2 DEF IInv
<1> QED BY <1>2, <1>3, <1>4

LEMMA CopyTokenKeeps == ASSUME IInv, CopyToken, UNCHANGED shared PROVE IInv'
<1>1. /\ op.pc = "copyToken" /\ op \in Operations
      /\ UNCHANGED <<source, helper, guest, flushed, out, promised, died, excused>>
  BY DEF CopyToken, Copy, At, IInv, TypeOK, files, vms
<1>2. \/ /\ helper = "running" /\ package' = [package EXCEPT !["token"] = "cached"]
         /\ NoFault /\ Goto("flush")
      \/ /\ package' \in {package, [package EXCEPT !["token"] = "torn"]}
         /\ (Fault \/ NoFault) /\ FailsWith(op)
  BY <1>1 DEF CopyToken, Copy, Fails, NoFault, IInv, TypeOK
<1>3. CASE /\ helper = "running" /\ package' = [package EXCEPT !["token"] = "cached"]
           /\ NoFault /\ Goto("flush")
  <2>1. op' \in Operations /\ op'.pc = "flush" /\ op'.err = op.err /\ Like(op)
    BY <1>3, Going DEF IInv
  <2>2. TypeOK'
    BY <1>1, <1>3, <2>1 DEF IInv, TypeOK, Flags, Like, NoFault, Content, Files, Lost
  <2>3. Flags' /\ Mounts'
    BY <1>1, <1>3, <2>1 DEF IInv, Flags, Mounts, Like
  <2>4. Packed'
    BY <1>1, <1>3, <2>1 DEF IInv, Packed, Flags, Mounts, TypeOK, Files, Content, Lost
  <2>5. Kept'
    BY <1>1, <1>3, <2>1 DEF IInv, Kept, Like
  <2>6. Returns'
    BY <1>1, <1>3, <2>1 DEF IInv, Returns, Running, Like
  <2> QED BY <2>2, <2>3, <2>4, <2>5, <2>6 DEF IInv
<1>4. CASE /\ package' \in {package, [package EXCEPT !["token"] = "torn"]}
           /\ (Fault \/ NoFault) /\ FailsWith(op)
  <2>1. /\ op' \in Operations /\ (op'.helperStarted => op'.sourceStopped)
        /\ op'.pc \notin {"copySnapshot", "copyToken", "flush"}
        /\ Flags' /\ Mounts' /\ Packed' /\ Kept' /\ Returns'
    BY <1>1, <1>4, FailureKeeps DEF IInv, TypeOK, Flags, Mounts
  <2>2. TypeOK'
    BY <1>1, <1>4, <2>1, BoundsAssumption DEF IInv, TypeOK, Fault, NoFault, Content, Files, Lost
  <2> QED BY <2>1, <2>2 DEF IInv
<1> QED BY <1>2, <1>3, <1>4

LEMMA FlushKeeps == ASSUME IInv, Flush, UNCHANGED shared PROVE IInv'
<1>1. /\ op.pc = "flush" /\ op \in Operations
      /\ UNCHANGED <<source, helper, guest, flushed, out, promised, died, excused>>
  BY DEF Flush, At, IInv, TypeOK, files, vms
<1>2. \/ /\ helper = "running"
         /\ package' = [f \in Files |-> IF package[f] = "cached" THEN "written" ELSE package[f]]
         /\ NoFault /\ Goto("drop")
      \/ package' = package /\ (Fault \/ NoFault) /\ FailsWith(op)
  BY <1>1 DEF Flush, Fails, NoFault, IInv, TypeOK
<1>3. CASE /\ helper = "running"
           /\ package' = [f \in Files |-> IF package[f] = "cached" THEN "written" ELSE package[f]]
           /\ NoFault /\ Goto("drop")
  <2>1. op' \in Operations /\ op'.pc = "drop" /\ op'.err = op.err /\ Like(op)
    BY <1>3, Going DEF IInv
  <2>2. TypeOK'
    BY <1>1, <1>3, <2>1 DEF IInv, TypeOK, Flags, Like, NoFault, Content, Files, Lost
  <2>3. Flags' /\ Mounts'
    BY <1>1, <1>3, <2>1 DEF IInv, Flags, Mounts, Like
  <2>4. Packed'
    BY <1>1, <1>3, <2>1 DEF IInv, Packed, Flags, Mounts, TypeOK, Files, Content, Lost
  <2>5. Kept'
    BY <1>1, <1>3, <2>1 DEF IInv, Kept, Like
  <2>6. Returns'
    BY <1>1, <1>3, <2>1 DEF IInv, Returns, Running, Like
  <2> QED BY <2>2, <2>3, <2>4, <2>5, <2>6 DEF IInv
<1>4. CASE package' = package /\ (Fault \/ NoFault) /\ FailsWith(op)
  <2>1. /\ op' \in Operations /\ (op'.helperStarted => op'.sourceStopped)
        /\ op'.pc \notin {"copySnapshot", "copyToken", "flush"}
        /\ Flags' /\ Mounts' /\ Packed' /\ Kept' /\ Returns'
    BY <1>1, <1>4, FailureKeeps DEF IInv, TypeOK, Flags, Mounts
  <2>2. TypeOK'
    BY <1>1, <1>4, <2>1, BoundsAssumption DEF IInv, TypeOK, Fault, NoFault, Content, Files, Lost
  <2> QED BY <2>1, <2>2 DEF IInv
<1> QED BY <1>2, <1>3, <1>4

LEMMA DropHelperKeeps == ASSUME IInv, DropHelper, UNCHANGED shared PROVE IInv'
<1>1. /\ op.pc = "drop" /\ op \in Operations
      /\ UNCHANGED <<source, guest, flushed, out, promised, died, excused>>
  BY DEF DropHelper, DeletesHelper, KeepsHelper, At, IInv, TypeOK, files, vms
<1>2. \/ /\ helper' = "none" /\ package' = Lost(package) /\ NoFault
         /\ op' = [op EXCEPT !.pc = "secureSnapshot", !.helperStarted = FALSE]
      \/ /\ helper' \in {helper, "stopped"} /\ package' \in {package, Lost(package)}
         /\ Fault /\ FailsWith(op)
  BY <1>1 DEF DropHelper, DeletesHelper, KeepsHelper, Fails, IInv, TypeOK
<1>3. CASE /\ helper' = "none" /\ package' = Lost(package) /\ NoFault
           /\ op' = [op EXCEPT !.pc = "secureSnapshot", !.helperStarted = FALSE]
  <2>1. /\ op' \in Operations /\ op'.pc = "secureSnapshot" /\ op'.out = op.out
        /\ op'.known = op.known /\ op'.helperStarted = FALSE
        /\ op'.sourceStopped = op.sourceStopped /\ op'.err = op.err
        /\ op'.undoErr = op.undoErr /\ op'.guestErr = op.guestErr
    BY <1>1, <1>3 DEF Operations
  <2>2. TypeOK'
    BY <1>1, <1>3, <2>1 DEF IInv, TypeOK, Flags, NoFault, Content, Files, Lost
  <2>3. Flags' /\ Mounts'
    BY <1>1, <1>3, <2>1 DEF IInv, Flags, Mounts
  <2>4. Packed'
    BY <1>1, <1>3, <2>1 DEF IInv, Packed, Flags, Mounts, TypeOK, Files, Content, Lost
  <2>5. Kept'
    BY <1>1, <1>3, <2>1 DEF IInv, Kept
  <2>6. Returns'
    BY <1>1, <1>3, <2>1 DEF IInv, Returns, Running
  <2> QED BY <2>2, <2>3, <2>4, <2>5, <2>6 DEF IInv
<1>4. CASE /\ helper' \in {helper, "stopped"} /\ package' \in {package, Lost(package)}
           /\ Fault /\ FailsWith(op)
  <2>1. /\ op' \in Operations /\ (op'.helperStarted => op'.sourceStopped)
        /\ op'.pc \notin {"copySnapshot", "copyToken", "flush"}
        /\ Flags' /\ Mounts' /\ Packed' /\ Kept' /\ Returns'
    BY <1>1, <1>4, FailureKeeps DEF IInv, TypeOK, Flags, Mounts
  <2>2. TypeOK'
    BY <1>1, <1>4, <2>1, BoundsAssumption DEF IInv, TypeOK, Fault, NoFault, Content, Files, Lost
  <2> QED BY <2>1, <2>2 DEF IInv
<1> QED BY <1>2, <1>3, <1>4

LEMMA SecureSnapshotKeeps == ASSUME IInv, SecureSnapshot, UNCHANGED shared PROVE IInv'
<1>1. /\ op.pc = "secureSnapshot" /\ op \in Operations
      /\ UNCHANGED <<source, helper, guest, flushed, out, promised, died, excused>>
  BY DEF SecureSnapshot, Secure, At, IInv, TypeOK, files, vms
<1>2. \/ /\ package["snapshot"] # "none"
         /\ package' = [package EXCEPT !["snapshot"] = IF @ = "written" THEN "synced" ELSE @]
         /\ NoFault /\ Goto("secureToken")
      \/ package' = package /\ Fault /\ FailsWith(op)
  BY <1>1 DEF SecureSnapshot, Secure, Fails, IInv, TypeOK
<1>3. CASE /\ package["snapshot"] # "none"
           /\ package' = [package EXCEPT !["snapshot"] = IF @ = "written" THEN "synced" ELSE @]
           /\ NoFault /\ Goto("secureToken")
  <2>1. op' \in Operations /\ op'.pc = "secureToken" /\ op'.err = op.err /\ Like(op)
    BY <1>3, Going DEF IInv
  <2>2. TypeOK'
    BY <1>1, <1>3, <2>1 DEF IInv, TypeOK, Flags, Like, NoFault, Content, Files, Lost
  <2>3. Flags' /\ Mounts'
    BY <1>1, <1>3, <2>1 DEF IInv, Flags, Mounts, Like
  <2>4. Packed'
    BY <1>1, <1>3, <2>1 DEF IInv, Packed, Flags, Mounts, TypeOK, Files, Content, Lost
  <2>5. Kept'
    BY <1>1, <1>3, <2>1 DEF IInv, Kept, Like
  <2>6. Returns'
    BY <1>1, <1>3, <2>1 DEF IInv, Returns, Running, Like
  <2> QED BY <2>2, <2>3, <2>4, <2>5, <2>6 DEF IInv
<1>4. CASE package' = package /\ Fault /\ FailsWith(op)
  <2>1. /\ op' \in Operations /\ (op'.helperStarted => op'.sourceStopped)
        /\ op'.pc \notin {"copySnapshot", "copyToken", "flush"}
        /\ Flags' /\ Mounts' /\ Packed' /\ Kept' /\ Returns'
    BY <1>1, <1>4, FailureKeeps DEF IInv, TypeOK, Flags, Mounts
  <2>2. TypeOK'
    BY <1>1, <1>4, <2>1, BoundsAssumption DEF IInv, TypeOK, Fault, NoFault, Content, Files, Lost
  <2> QED BY <2>1, <2>2 DEF IInv
<1> QED BY <1>2, <1>3, <1>4

LEMMA SecureTokenKeeps == ASSUME IInv, SecureToken, UNCHANGED shared PROVE IInv'
<1>1. /\ op.pc = "secureToken" /\ op \in Operations
      /\ UNCHANGED <<source, helper, guest, flushed, out, promised, died, excused>>
  BY DEF SecureToken, Secure, At, IInv, TypeOK, files, vms
<1>2. \/ /\ package["token"] # "none"
         /\ package' = [package EXCEPT !["token"] = IF @ = "written" THEN "synced" ELSE @]
         /\ NoFault /\ Goto("manifest")
      \/ package' = package /\ Fault /\ FailsWith(op)
  BY <1>1 DEF SecureToken, Secure, Fails, IInv, TypeOK
<1>3. CASE /\ package["token"] # "none"
           /\ package' = [package EXCEPT !["token"] = IF @ = "written" THEN "synced" ELSE @]
           /\ NoFault /\ Goto("manifest")
  <2>1. op' \in Operations /\ op'.pc = "manifest" /\ op'.err = op.err /\ Like(op)
    BY <1>3, Going DEF IInv
  <2>2. TypeOK'
    BY <1>1, <1>3, <2>1 DEF IInv, TypeOK, Flags, Like, NoFault, Content, Files, Lost
  <2>3. Flags' /\ Mounts'
    BY <1>1, <1>3, <2>1 DEF IInv, Flags, Mounts, Like
  <2>4. Packed'
    BY <1>1, <1>3, <2>1 DEF IInv, Packed, Flags, Mounts, TypeOK, Files, Content, Lost
  <2>5. Kept'
    BY <1>1, <1>3, <2>1 DEF IInv, Kept, Like
  <2>6. Returns'
    BY <1>1, <1>3, <2>1 DEF IInv, Returns, Running, Like
  <2> QED BY <2>2, <2>3, <2>4, <2>5, <2>6 DEF IInv
<1>4. CASE package' = package /\ Fault /\ FailsWith(op)
  <2>1. /\ op' \in Operations /\ (op'.helperStarted => op'.sourceStopped)
        /\ op'.pc \notin {"copySnapshot", "copyToken", "flush"}
        /\ Flags' /\ Mounts' /\ Packed' /\ Kept' /\ Returns'
    BY <1>1, <1>4, FailureKeeps DEF IInv, TypeOK, Flags, Mounts
  <2>2. TypeOK'
    BY <1>1, <1>4, <2>1, BoundsAssumption DEF IInv, TypeOK, Fault, NoFault, Content, Files, Lost
  <2> QED BY <2>1, <2>2 DEF IInv
<1> QED BY <1>2, <1>3, <1>4

LEMMA WriteManifestKeeps == ASSUME IInv, WriteManifest, UNCHANGED shared PROVE IInv'
<1>1. /\ op.pc = "manifest" /\ op \in Operations
      /\ UNCHANGED <<source, helper, guest, flushed, out, promised, died, excused>>
  BY DEF WriteManifest, At, IInv, TypeOK, files, vms
<1>2. \/ package' = [package EXCEPT !["manifest"] = "synced"] /\ NoFault /\ Goto("start")
      \/ /\ package' \in {package, [package EXCEPT !["manifest"] = "synced"]} /\ Fault
         /\ FailsWith(op)
  BY <1>1 DEF WriteManifest, Fails, IInv, TypeOK
<1>3. CASE package' = [package EXCEPT !["manifest"] = "synced"] /\ NoFault /\ Goto("start")
  <2>1. op' \in Operations /\ op'.pc = "start" /\ op'.err = op.err /\ Like(op)
    BY <1>3, Going DEF IInv
  <2>2. TypeOK'
    BY <1>1, <1>3, <2>1 DEF IInv, TypeOK, Flags, Like, NoFault, Content, Files, Lost
  <2>3. Flags' /\ Mounts'
    BY <1>1, <1>3, <2>1 DEF IInv, Flags, Mounts, Like
  <2>4. Packed'
    BY <1>1, <1>3, <2>1 DEF IInv, Packed, Flags, Mounts, TypeOK, Files, Content, Lost
  <2>5. Kept'
    BY <1>1, <1>3, <2>1 DEF IInv, Kept, Like
  <2>6. Returns'
    BY <1>1, <1>3, <2>1 DEF IInv, Returns, Running, Like
  <2> QED BY <2>2, <2>3, <2>4, <2>5, <2>6 DEF IInv
<1>4. CASE /\ package' \in {package, [package EXCEPT !["manifest"] = "synced"]} /\ Fault
           /\ FailsWith(op)
  <2>1. /\ op' \in Operations /\ (op'.helperStarted => op'.sourceStopped)
        /\ op'.pc \notin {"copySnapshot", "copyToken", "flush"}
        /\ Flags' /\ Mounts' /\ Packed' /\ Kept' /\ Returns'
    BY <1>1, <1>4, FailureKeeps DEF IInv, TypeOK, Flags, Mounts
  <2>2. TypeOK'
    BY <1>1, <1>4, <2>1, BoundsAssumption DEF IInv, TypeOK, Fault, NoFault, Content, Files, Lost
  <2> QED BY <2>1, <2>2 DEF IInv
<1> QED BY <1>2, <1>3, <1>4

LEMMA StartSourceKeeps == ASSUME IInv, StartSource, UNCHANGED shared PROVE IInv'
<1>1. /\ op.pc = "start" /\ op \in Operations
      /\ UNCHANGED <<helper, guest, package, flushed, out, promised, died, excused>>
  BY DEF StartSource, StartsSource, StartFails, At, IInv, TypeOK, files, vms
<1>2. \/ source' \in Running /\ NoFault /\ Goto("wait")
      \/ source' \in {source, "missing", "running"} /\ (Fault \/ NoFault) /\ FailsWith(op)
  BY <1>1 DEF StartSource, StartsSource, StartFails, VolumeFree, Fails, Running, IInv, TypeOK
<1>3. CASE source' \in Running /\ NoFault /\ Goto("wait")
  <2>1. op' \in Operations /\ op'.pc = "wait" /\ op'.err = op.err /\ Like(op)
    BY <1>3, Going DEF IInv
  <2>2. TypeOK'
    BY <1>1, <1>3, <2>1 DEF IInv, TypeOK, Flags, Like, NoFault, Running
  <2>3. Flags' /\ Mounts'
    BY <1>1, <1>3, <2>1 DEF IInv, Flags, Mounts, Like, Running
  <2>4. Packed'
    BY <1>1, <1>3, <2>1 DEF IInv, Packed, Flags, Mounts
  <2>5. Kept'
    BY <1>1, <1>3, <2>1 DEF IInv, Kept, Like
  <2>6. Returns'
    BY <1>1, <1>3, <2>1 DEF IInv, Returns, Running, Like
  <2> QED BY <2>2, <2>3, <2>4, <2>5, <2>6 DEF IInv
<1>4. CASE source' \in {source, "missing", "running"} /\ (Fault \/ NoFault) /\ FailsWith(op)
  <2>1. /\ op' \in Operations /\ (op'.helperStarted => op'.sourceStopped)
        /\ op'.pc \notin {"copySnapshot", "copyToken", "flush"}
        /\ Flags' /\ Mounts' /\ Packed' /\ Kept' /\ Returns'
    BY <1>1, <1>4, FailureKeeps DEF IInv, TypeOK, Flags, Mounts, Running
  <2>2. TypeOK'
    BY <1>1, <1>4, <2>1, BoundsAssumption DEF IInv, TypeOK, Fault, NoFault, Running
  <2> QED BY <2>1, <2>2 DEF IInv
<1> QED BY <1>2, <1>3, <1>4

LEMMA WaitSourceKeeps == ASSUME IInv, WaitSource, UNCHANGED shared PROVE IInv'
<1>1. /\ op.pc = "wait" /\ op \in Operations
      /\ UNCHANGED <<source, helper, guest, package, flushed, out, promised, died, excused>>
  BY DEF WaitSource, Waits, At, IInv, TypeOK, files, vms
<1>2. \/ /\ source = "ready" /\ NoFault
         /\ op' = [op EXCEPT !.pc = "cluster", !.sourceStopped = FALSE]
      \/ (IF source \in Running THEN Fault ELSE NoFault) /\ FailsWith(op)
  BY <1>1 DEF WaitSource, Waits, Fails, IInv, TypeOK
<1>3. CASE /\ source = "ready" /\ NoFault
           /\ op' = [op EXCEPT !.pc = "cluster", !.sourceStopped = FALSE]
  <2>1. /\ op' \in Operations /\ op'.pc = "cluster" /\ op'.out = op.out
        /\ op'.known = op.known /\ op'.helperStarted = op.helperStarted
        /\ op'.sourceStopped = FALSE /\ op'.err = op.err /\ op'.undoErr = op.undoErr
        /\ op'.guestErr = op.guestErr
    BY <1>1, <1>3 DEF Operations
  <2>2. TypeOK'
    BY <1>1, <1>3, <2>1 DEF IInv, TypeOK, Flags, NoFault
  <2>3. Flags' /\ Mounts'
    BY <1>1, <1>3, <2>1 DEF IInv, Flags, Mounts
  <2>4. Packed'
    BY <1>1, <1>3, <2>1 DEF IInv, Packed, Flags, Mounts
  <2>5. Kept'
    BY <1>1, <1>3, <2>1 DEF IInv, Kept
  <2>6. Returns'
    BY <1>1, <1>3, <2>1 DEF IInv, Returns, Running
  <2> QED BY <2>2, <2>3, <2>4, <2>5, <2>6 DEF IInv
<1>4. CASE (IF source \in Running THEN Fault ELSE NoFault) /\ FailsWith(op)
  <2>1. /\ op' \in Operations /\ (op'.helperStarted => op'.sourceStopped)
        /\ op'.pc \notin {"copySnapshot", "copyToken", "flush"}
        /\ Flags' /\ Mounts' /\ Packed' /\ Kept' /\ Returns'
    BY <1>1, <1>4, FailureKeeps DEF IInv, TypeOK, Flags, Mounts
  <2>2. TypeOK'
    BY <1>1, <1>4, <2>1, BoundsAssumption DEF IInv, TypeOK, Fault, NoFault
  <2> QED BY <2>1, <2>2 DEF IInv
<1> QED BY <1>2, <1>3, <1>4

LEMMA WaitClusterKeeps == ASSUME IInv, WaitCluster, UNCHANGED shared PROVE IInv'
<1>1. /\ op.pc = "cluster" /\ op \in Operations
      /\ UNCHANGED <<source, helper, guest, package, flushed, out, promised, died, excused>>
  BY DEF WaitCluster, Waits, At, IInv, TypeOK, files, vms
<1>2. \/ source = "ready" /\ NoFault /\ Goto("syncPackage")
      \/ (IF source \in Running THEN Fault ELSE NoFault) /\ FailsWith(op)
  BY <1>1 DEF WaitCluster, Waits, Fails, IInv, TypeOK
<1>3. CASE source = "ready" /\ NoFault /\ Goto("syncPackage")
  <2>1. op' \in Operations /\ op'.pc = "syncPackage" /\ op'.err = op.err /\ Like(op)
    BY <1>3, Going DEF IInv
  <2>2. TypeOK'
    BY <1>1, <1>3, <2>1 DEF IInv, TypeOK, Flags, Like, NoFault
  <2>3. Flags' /\ Mounts'
    BY <1>1, <1>3, <2>1 DEF IInv, Flags, Mounts, Like
  <2>4. Packed'
    BY <1>1, <1>3, <2>1 DEF IInv, Packed, Flags, Mounts
  <2>5. Kept'
    BY <1>1, <1>3, <2>1 DEF IInv, Kept, Like
  <2>6. Returns'
    BY <1>1, <1>3, <2>1 DEF IInv, Returns, Running, Like
  <2> QED BY <2>2, <2>3, <2>4, <2>5, <2>6 DEF IInv
<1>4. CASE (IF source \in Running THEN Fault ELSE NoFault) /\ FailsWith(op)
  <2>1. /\ op' \in Operations /\ (op'.helperStarted => op'.sourceStopped)
        /\ op'.pc \notin {"copySnapshot", "copyToken", "flush"}
        /\ Flags' /\ Mounts' /\ Packed' /\ Kept' /\ Returns'
    BY <1>1, <1>4, FailureKeeps DEF IInv, TypeOK, Flags, Mounts
  <2>2. TypeOK'
    BY <1>1, <1>4, <2>1, BoundsAssumption DEF IInv, TypeOK, Fault, NoFault
  <2> QED BY <2>1, <2>2 DEF IInv
<1> QED BY <1>2, <1>3, <1>4

LEMMA SyncPackageKeeps == ASSUME IInv, SyncPackage, UNCHANGED shared PROVE IInv'
<1>1. /\ op.pc = "syncPackage" /\ op \in Operations
      /\ UNCHANGED <<source, helper, guest, package, out, promised, died, excused>>
  BY DEF SyncPackage, At, IInv, TypeOK, files, vms
<1>2. \/ flushed' = TRUE /\ NoFault /\ Goto("rename")
      \/ flushed' = flushed /\ Fault /\ FailsWith(op)
  BY <1>1 DEF SyncPackage, Fails, IInv, TypeOK
<1>3. CASE flushed' = TRUE /\ NoFault /\ Goto("rename")
  <2>1. op' \in Operations /\ op'.pc = "rename" /\ op'.err = op.err /\ Like(op)
    BY <1>3, Going DEF IInv
  <2>2. TypeOK'
    BY <1>1, <1>3, <2>1 DEF IInv, TypeOK, Flags, Like, NoFault
  <2>3. Flags' /\ Mounts'
    BY <1>1, <1>3, <2>1 DEF IInv, Flags, Mounts, Like
  <2>4. Packed'
    BY <1>1, <1>3, <2>1 DEF IInv, Packed, Flags, Mounts
  <2>5. Kept'
    BY <1>1, <1>3, <2>1 DEF IInv, Kept, Like
  <2>6. Returns'
    BY <1>1, <1>3, <2>1 DEF IInv, Returns, Running, Like
  <2> QED BY <2>2, <2>3, <2>4, <2>5, <2>6 DEF IInv
<1>4. CASE flushed' = flushed /\ Fault /\ FailsWith(op)
  <2>1. /\ op' \in Operations /\ (op'.helperStarted => op'.sourceStopped)
        /\ op'.pc \notin {"copySnapshot", "copyToken", "flush"}
        /\ Flags' /\ Mounts' /\ Packed' /\ Kept' /\ Returns'
    BY <1>1, <1>4, FailureKeeps DEF IInv, TypeOK, Flags, Mounts
  <2>2. TypeOK'
    BY <1>1, <1>4, <2>1, BoundsAssumption DEF IInv, TypeOK, Fault, NoFault
  <2> QED BY <2>1, <2>2 DEF IInv
<1> QED BY <1>2, <1>3, <1>4

LEMMA PublishKeeps == ASSUME IInv, Publish, UNCHANGED shared PROVE IInv'
<1>1. /\ op.pc = "rename" /\ op \in Operations
      /\ UNCHANGED <<source, helper, guest, package, flushed, promised, died, excused>>
  BY DEF Publish, At, IInv, TypeOK, files, vms
<1>2. \/ /\ out' = [out EXCEPT ![op.out] = [state |-> "named", files |-> package, flushed |-> flushed]]
         /\ NoFault /\ Goto("syncParent")
      \/ out' = out /\ Fault /\ FailsWith(op)
  BY <1>1 DEF Publish, Fails, IInv, TypeOK
<1>3. CASE /\ out' = [out EXCEPT ![op.out] = [state |-> "named", files |-> package, flushed |-> flushed]]
           /\ NoFault /\ Goto("syncParent")
  <2>1. op' \in Operations /\ op'.pc = "syncParent" /\ op'.err = op.err /\ Like(op)
    BY <1>3, Going DEF IInv
  <2>2. TypeOK'
    BY <1>1, <1>3, <2>1 DEF IInv, TypeOK, Flags, Like, NoFault, Content, Files
  <2>3. Flags' /\ Mounts'
    BY <1>1, <1>3, <2>1 DEF IInv, Flags, Mounts, Like
  <2>4. Packed'
    BY <1>1, <1>3, <2>1 DEF IInv, Packed, Flags, Mounts
  <2>5. Kept'
    BY <1>1, <1>3, <2>1 DEF IInv, Kept, Like, TypeOK, Operations, Packed
  <2>6. Returns'
    BY <1>1, <1>3, <2>1 DEF IInv, Returns, Running, Like
  <2> QED BY <2>2, <2>3, <2>4, <2>5, <2>6 DEF IInv
<1>4. CASE out' = out /\ Fault /\ FailsWith(op)
  <2>1. /\ op' \in Operations /\ (op'.helperStarted => op'.sourceStopped)
        /\ op'.pc \notin {"copySnapshot", "copyToken", "flush"}
        /\ Flags' /\ Mounts' /\ Packed' /\ Kept' /\ Returns'
    BY <1>1, <1>4, FailureKeeps DEF IInv, TypeOK, Flags, Mounts
  <2>2. TypeOK'
    BY <1>1, <1>4, <2>1, BoundsAssumption DEF IInv, TypeOK, Fault, NoFault, Content, Files
  <2> QED BY <2>1, <2>2 DEF IInv
<1> QED BY <1>2, <1>3, <1>4

LEMMA BeginKeeps == ASSUME IInv, NEW o \in Outputs, Begin(o), UNCHANGED shared PROVE IInv'
<1>1. /\ source = "ready" /\ helper = "none" /\ out[o].state = "none"
      /\ package' = NoPackage /\ flushed' = FALSE /\ guest' = FALSE
      /\ died' = FALSE /\ excused' = FALSE
      /\ UNCHANGED <<shared, source, helper, out, promised, faults>>
  BY DEF Begin
<1>2. /\ op' \in Operations /\ op'.pc = "save" /\ op'.out = o
      /\ ~op'.helperStarted /\ ~op'.sourceStopped /\ ~op'.err /\ ~op'.undoErr
  BY IdleIsOne DEF Begin, Operations
<1>3. TypeOK'
  BY <1>1, <1>2 DEF IInv, TypeOK, NoPackage, Content
<1>4. Flags' /\ Mounts' /\ Packed' /\ Returns'
  BY <1>1, <1>2 DEF Flags, Mounts, Packed, Returns, Running
<1>5. Kept'
  BY <1>1, <1>2 DEF IInv, Kept
<1> QED BY <1>3, <1>4, <1>5 DEF IInv

LEMMA SyncParentKeeps == ASSUME IInv, SyncParent, UNCHANGED shared PROVE IInv'
<1>1. /\ op.pc = "syncParent" /\ op \in Operations
      /\ UNCHANGED <<source, helper, guest, package, flushed, promised, died, excused>>
  BY DEF SyncParent, At, IInv, TypeOK, vms
<1>2. CASE out' = [out EXCEPT ![op.out].state = "durable"] /\ Goto(Unwind(op)) /\ NoFault
  <2>1. Unwind(op) \in {"removeTemp", "release"} /\ (Unwind(op) = "release" => ~op.known)
    BY <1>1 DEF IInv, Flags, Unwind
  <2>2. op' \in Operations /\ op'.pc = Unwind(op) /\ op'.err = op.err /\ Like(op)
    BY <1>2, <2>1, Going DEF IInv
  <2>3. /\ \A o \in Outputs : out'[o].files = out[o].files /\ out'[o].flushed = out[o].flushed
        /\ \A o \in Outputs : o # op.out => out'[o] = out[o]
        /\ out'[op.out].state = "durable" /\ out[op.out].state = "named"
    BY <1>1, <1>2 DEF IInv, TypeOK, Operations, Kept
  <2>4. out' \in [Outputs -> [state : {"none", "named", "durable"}, files : [Files -> Content],
                              flushed : BOOLEAN]]
    BY <1>1, <1>2 DEF IInv, TypeOK, Operations
  <2>5. TypeOK'
    BY <1>1, <1>2, <2>1, <2>2, <2>4 DEF IInv, TypeOK, Flags, Like, NoFault
  <2>6. Flags' /\ Mounts' /\ Packed'
    BY <1>1, <2>1, <2>2 DEF IInv, Flags, Mounts, Packed, Like
  <2>7. Kept'
    BY <1>1, <2>1, <2>2, <2>3 DEF IInv, TypeOK, Kept, Like
  <2>8. Returns'
    BY <1>1, <2>1, <2>2 DEF IInv, Returns, Like
  <2> QED BY <2>5, <2>6, <2>7, <2>8 DEF IInv
<1>3. CASE FailsWith(op) /\ Fault /\ UNCHANGED out
  <2>1. /\ op' \in Operations /\ (op'.helperStarted => op'.sourceStopped)
        /\ op'.pc \notin {"copySnapshot", "copyToken", "flush"}
        /\ Flags' /\ Mounts' /\ Packed' /\ Kept' /\ Returns'
    BY <1>1, <1>3, FailureKeeps DEF IInv, TypeOK, Flags, Mounts
  <2>2. TypeOK'
    BY <1>1, <1>3, <2>1, BoundsAssumption DEF IInv, TypeOK, Fault
  <2> QED BY <2>1, <2>2 DEF IInv
<1> QED BY <1>2, <1>3 DEF SyncParent, Fails

-----------------------------------------------------------------------------
(* The deferred functions                                                    *)
LEMMA UndoHelperKeeps == ASSUME IInv, UndoHelper, UNCHANGED shared PROVE IInv'
<1>1. /\ op.pc = "undoHelper" /\ op \in Operations
      /\ UNCHANGED <<source, guest, flushed, out, promised, died>>
  BY DEF UndoHelper, At, IInv, TypeOK, files, vms
<1>2. \/ /\ helper' = "none" /\ package' = Lost(package) /\ excused' = excused /\ NoFault
         /\ Goto("undoStop")
      \/ /\ helper' \in {helper, "stopped"} /\ package' \in {package, Lost(package)}
         /\ excused' = TRUE /\ Fault
         /\ op' = [op EXCEPT !.pc = "undoStop", !.undoErr = TRUE]
  BY <1>1 DEF UndoHelper, DeletesHelper, KeepsHelper, NoFault, IInv, TypeOK
<1>3. CASE /\ helper' = "none" /\ package' = Lost(package) /\ excused' = excused /\ NoFault
           /\ Goto("undoStop")
  <2>1. /\ op' \in Operations /\ op'.pc = "undoStop" /\ op'.out = op.out
        /\ op'.known = op.known /\ op'.helperStarted = op.helperStarted
        /\ op'.sourceStopped = op.sourceStopped /\ op'.err = op.err
        /\ op'.undoErr = op.undoErr /\ op'.guestErr = op.guestErr
    BY <1>1, <1>3 DEF Operations, Goto
  <2>2. TypeOK'
    BY <1>1, <1>3, <2>1, BoundsAssumption DEF IInv, TypeOK, Flags, Fault, NoFault, Content, Files, Lost
  <2>3. Flags' /\ Mounts'
    BY <1>1, <1>3, <2>1 DEF IInv, Flags, Mounts
  <2>4. Packed'
    BY <1>1, <1>3, <2>1 DEF IInv, Packed
  <2>5. Kept'
    BY <1>1, <1>3, <2>1 DEF IInv, Kept
  <2>6. Returns'
    BY <1>1, <1>3, <2>1 DEF IInv, Returns, Running
  <2> QED BY <2>2, <2>3, <2>4, <2>5, <2>6 DEF IInv
<1>4. CASE /\ helper' \in {helper, "stopped"} /\ package' \in {package, Lost(package)}
           /\ excused' = TRUE /\ Fault
           /\ op' = [op EXCEPT !.pc = "undoStop", !.undoErr = TRUE]
  <2>1. /\ op' \in Operations /\ op'.pc = "undoStop" /\ op'.out = op.out
        /\ op'.known = op.known /\ op'.helperStarted = op.helperStarted
        /\ op'.sourceStopped = op.sourceStopped /\ op'.err = op.err /\ op'.undoErr = TRUE
        /\ op'.guestErr = op.guestErr
    BY <1>1, <1>4 DEF Operations, Goto
  <2>2. TypeOK'
    BY <1>1, <1>4, <2>1, BoundsAssumption DEF IInv, TypeOK, Flags, Fault, NoFault, Content, Files, Lost
  <2>3. Flags' /\ Mounts'
    BY <1>1, <1>4, <2>1 DEF IInv, Flags, Mounts
  <2>4. Packed'
    BY <1>1, <1>4, <2>1 DEF IInv, Packed
  <2>5. Kept'
    BY <1>1, <1>4, <2>1 DEF IInv, Kept
  <2>6. Returns'
    BY <1>1, <1>4, <2>1 DEF IInv, Returns, Running
  <2> QED BY <2>2, <2>3, <2>4, <2>5, <2>6 DEF IInv
<1> QED BY <1>2, <1>3, <1>4

LEMMA UndoStopKeeps == ASSUME IInv, UndoStop, UNCHANGED shared PROVE IInv'
<1>1. /\ op.pc = "undoStop" /\ op \in Operations
      /\ UNCHANGED <<helper, guest, package, flushed, out, promised, died, excused>>
  BY DEF UndoStop, At, IInv, TypeOK, files, vms
<1>2. \/ source' \in Running /\ NoFault /\ Goto("undoWait")
      \/ /\ source' \in {source, "missing", "running"} /\ (Fault \/ NoFault)
         /\ op' = [op EXCEPT !.pc = "removeTemp", !.undoErr = TRUE]
  BY <1>1 DEF UndoStop, StartsSource, StartFails, VolumeFree, Running, NoFault, IInv, TypeOK
<1>3. CASE source' \in Running /\ NoFault /\ Goto("undoWait")
  <2>1. /\ op' \in Operations /\ op'.pc = "undoWait" /\ op'.out = op.out
        /\ op'.known = op.known /\ op'.helperStarted = op.helperStarted
        /\ op'.sourceStopped = op.sourceStopped /\ op'.err = op.err
        /\ op'.undoErr = op.undoErr /\ op'.guestErr = op.guestErr
    BY <1>1, <1>3 DEF Operations, Goto
  <2>2. TypeOK'
    BY <1>1, <1>3, <2>1, BoundsAssumption DEF IInv, TypeOK, Flags, Fault, NoFault, Running
  <2>3. Flags' /\ Mounts'
    BY <1>1, <1>3, <2>1 DEF IInv, Flags, Mounts, Running
  <2>4. Packed'
    BY <1>1, <1>3, <2>1 DEF IInv, Packed
  <2>5. Kept'
    BY <1>1, <1>3, <2>1 DEF IInv, Kept
  <2>6. Returns'
    BY <1>1, <1>3, <2>1 DEF IInv, Returns, Running
  <2> QED BY <2>2, <2>3, <2>4, <2>5, <2>6 DEF IInv
<1>4. CASE /\ source' \in {source, "missing", "running"} /\ (Fault \/ NoFault)
           /\ op' = [op EXCEPT !.pc = "removeTemp", !.undoErr = TRUE]
  <2>1. /\ op' \in Operations /\ op'.pc = "removeTemp" /\ op'.out = op.out
        /\ op'.known = op.known /\ op'.helperStarted = op.helperStarted
        /\ op'.sourceStopped = op.sourceStopped /\ op'.err = op.err /\ op'.undoErr = TRUE
        /\ op'.guestErr = op.guestErr
    BY <1>1, <1>4 DEF Operations, Goto
  <2>2. TypeOK'
    BY <1>1, <1>4, <2>1, BoundsAssumption DEF IInv, TypeOK, Flags, Fault, NoFault, Running
  <2>3. Flags' /\ Mounts'
    BY <1>1, <1>4, <2>1 DEF IInv, Flags, Mounts, Running
  <2>4. Packed'
    BY <1>1, <1>4, <2>1 DEF IInv, Packed
  <2>5. Kept'
    BY <1>1, <1>4, <2>1 DEF IInv, Kept
  <2>6. Returns'
    BY <1>1, <1>4, <2>1 DEF IInv, Returns, Running
  <2> QED BY <2>2, <2>3, <2>4, <2>5, <2>6 DEF IInv
<1> QED BY <1>2, <1>3, <1>4

LEMMA UndoWaitKeeps == ASSUME IInv, UndoWait, UNCHANGED shared PROVE IInv'
<1>1. /\ op.pc = "undoWait" /\ op \in Operations
      /\ UNCHANGED <<source, helper, guest, package, flushed, out, promised, died, excused>>
  BY DEF UndoWait, At, IInv, TypeOK, files, vms
<1>2. \/ source = "ready" /\ NoFault /\ Goto("removeTemp")
      \/ (Fault \/ NoFault) /\ op' = [op EXCEPT !.pc = "removeTemp", !.undoErr = TRUE]
  BY <1>1 DEF UndoWait, Waits, NoFault, IInv, TypeOK
<1>3. CASE source = "ready" /\ NoFault /\ Goto("removeTemp")
  <2>1. /\ op' \in Operations /\ op'.pc = "removeTemp" /\ op'.out = op.out
        /\ op'.known = op.known /\ op'.helperStarted = op.helperStarted
        /\ op'.sourceStopped = op.sourceStopped /\ op'.err = op.err
        /\ op'.undoErr = op.undoErr /\ op'.guestErr = op.guestErr
    BY <1>1, <1>3 DEF Operations, Goto
  <2>2. TypeOK'
    BY <1>1, <1>3, <2>1, BoundsAssumption DEF IInv, TypeOK, Flags, Fault, NoFault
  <2>3. Flags' /\ Mounts'
    BY <1>1, <1>3, <2>1 DEF IInv, Flags, Mounts
  <2>4. Packed'
    BY <1>1, <1>3, <2>1 DEF IInv, Packed
  <2>5. Kept'
    BY <1>1, <1>3, <2>1 DEF IInv, Kept
  <2>6. Returns'
    BY <1>1, <1>3, <2>1 DEF IInv, Returns, Running
  <2> QED BY <2>2, <2>3, <2>4, <2>5, <2>6 DEF IInv
<1>4. CASE (Fault \/ NoFault) /\ op' = [op EXCEPT !.pc = "removeTemp", !.undoErr = TRUE]
  <2>1. /\ op' \in Operations /\ op'.pc = "removeTemp" /\ op'.out = op.out
        /\ op'.known = op.known /\ op'.helperStarted = op.helperStarted
        /\ op'.sourceStopped = op.sourceStopped /\ op'.err = op.err /\ op'.undoErr = TRUE
        /\ op'.guestErr = op.guestErr
    BY <1>1, <1>4 DEF Operations, Goto
  <2>2. TypeOK'
    BY <1>1, <1>4, <2>1, BoundsAssumption DEF IInv, TypeOK, Flags, Fault, NoFault
  <2>3. Flags' /\ Mounts'
    BY <1>1, <1>4, <2>1 DEF IInv, Flags, Mounts
  <2>4. Packed'
    BY <1>1, <1>4, <2>1 DEF IInv, Packed
  <2>5. Kept'
    BY <1>1, <1>4, <2>1 DEF IInv, Kept
  <2>6. Returns'
    BY <1>1, <1>4, <2>1 DEF IInv, Returns, Running
  <2> QED BY <2>2, <2>3, <2>4, <2>5, <2>6 DEF IInv
<1> QED BY <1>2, <1>3, <1>4

LEMMA RemoveTemporaryKeeps == ASSUME IInv, RemoveTemporary, UNCHANGED shared PROVE IInv'
<1>1. /\ op.pc = "removeTemp" /\ op \in Operations
      /\ UNCHANGED <<source, helper, guest, flushed, out, promised, died, excused, faults>>
  BY DEF RemoveTemporary, At, IInv, TypeOK, files, vms
<1>2. \/ package' = NoPackage /\ faults' = faults /\ Goto("removeGuest")
  BY <1>1 DEF RemoveTemporary, NoFault, IInv, TypeOK
<1>3. CASE package' = NoPackage /\ faults' = faults /\ Goto("removeGuest")
  <2>1. /\ op' \in Operations /\ op'.pc = "removeGuest" /\ op'.out = op.out
        /\ op'.known = op.known /\ op'.helperStarted = op.helperStarted
        /\ op'.sourceStopped = op.sourceStopped /\ op'.err = op.err
        /\ op'.undoErr = op.undoErr /\ op'.guestErr = op.guestErr
    BY <1>1, <1>3 DEF Operations, Goto
  <2>2. TypeOK'
    BY <1>1, <1>3, <2>1, BoundsAssumption DEF IInv, TypeOK, Flags, Fault, NoFault, Content, NoPackage
  <2>3. Flags' /\ Mounts'
    BY <1>1, <1>3, <2>1 DEF IInv, Flags, Mounts
  <2>4. Packed'
    BY <1>1, <1>3, <2>1 DEF IInv, Packed
  <2>5. Kept'
    BY <1>1, <1>3, <2>1 DEF IInv, Kept
  <2>6. Returns'
    BY <1>1, <1>3, <2>1 DEF IInv, Returns, Running
  <2> QED BY <2>2, <2>3, <2>4, <2>5, <2>6 DEF IInv
<1> QED BY <1>2, <1>3

LEMMA RemoveGuestKeeps == ASSUME IInv, RemoveGuest, UNCHANGED shared PROVE IInv'
<1>1. /\ op.pc = "removeGuest" /\ op \in Operations
      /\ UNCHANGED <<source, helper, package, flushed, out, promised, died, excused>>
  BY DEF RemoveGuest, At, IInv, TypeOK, files, vms
<1>2. \/ source \in Running /\ guest' = FALSE /\ NoFault /\ Goto("release")
      \/ /\ guest' \in BOOLEAN /\ (Fault \/ NoFault)
         /\ op' = [op EXCEPT !.pc = "release", !.guestErr = TRUE]
  BY <1>1 DEF RemoveGuest, NoFault, IInv, TypeOK
<1>3. CASE source \in Running /\ guest' = FALSE /\ NoFault /\ Goto("release")
  <2>1. /\ op' \in Operations /\ op'.pc = "release" /\ op'.out = op.out
        /\ op'.known = op.known /\ op'.helperStarted = op.helperStarted
        /\ op'.sourceStopped = op.sourceStopped /\ op'.err = op.err
        /\ op'.undoErr = op.undoErr /\ op'.guestErr = op.guestErr
    BY <1>1, <1>3 DEF Operations, Goto
  <2>2. TypeOK'
    BY <1>1, <1>3, <2>1, BoundsAssumption DEF IInv, TypeOK, Flags, Fault, NoFault
  <2>3. Flags' /\ Mounts'
    BY <1>1, <1>3, <2>1 DEF IInv, Flags, Mounts
  <2>4. Packed'
    BY <1>1, <1>3, <2>1 DEF IInv, Packed
  <2>5. Kept'
    BY <1>1, <1>3, <2>1 DEF IInv, Kept
  <2>6. Returns'
    BY <1>1, <1>3, <2>1 DEF IInv, Returns, Running
  <2> QED BY <2>2, <2>3, <2>4, <2>5, <2>6 DEF IInv
<1>4. CASE /\ guest' \in BOOLEAN /\ (Fault \/ NoFault)
           /\ op' = [op EXCEPT !.pc = "release", !.guestErr = TRUE]
  <2>1. /\ op' \in Operations /\ op'.pc = "release" /\ op'.out = op.out
        /\ op'.known = op.known /\ op'.helperStarted = op.helperStarted
        /\ op'.sourceStopped = op.sourceStopped /\ op'.err = op.err
        /\ op'.undoErr = op.undoErr /\ op'.guestErr = TRUE
    BY <1>1, <1>4 DEF Operations, Goto
  <2>2. TypeOK'
    BY <1>1, <1>4, <2>1, BoundsAssumption DEF IInv, TypeOK, Flags, Fault, NoFault
  <2>3. Flags' /\ Mounts'
    BY <1>1, <1>4, <2>1 DEF IInv, Flags, Mounts
  <2>4. Packed'
    BY <1>1, <1>4, <2>1 DEF IInv, Packed
  <2>5. Kept'
    BY <1>1, <1>4, <2>1 DEF IInv, Kept
  <2>6. Returns'
    BY <1>1, <1>4, <2>1 DEF IInv, Returns, Running
  <2> QED BY <2>2, <2>3, <2>4, <2>5, <2>6 DEF IInv
<1> QED BY <1>2, <1>3, <1>4

LEMMA ReleaseKeeps == ASSUME IInv, Release, UNCHANGED shared PROVE IInv'
<1>1. /\ op.pc = "release" /\ op \in Operations
      /\ promised' = IF op.err THEN promised ELSE promised \cup {op.out}
      /\ UNCHANGED <<shared, source, helper, guest, package, flushed, out, died, excused, faults>>
  BY DEF Release, At, IInv, TypeOK, vms
<1>2. op' \in Operations /\ op'.pc = "idle" /\ op'.err = op.err /\ Like(op)
  BY Going DEF Release, Goto, IInv
<1>3. TypeOK'
  BY <1>1, <1>2 DEF IInv, TypeOK, Operations, Like
<1>4. Flags' /\ Mounts' /\ Packed' /\ Returns'
  BY <1>1, <1>2 DEF IInv, Flags, Mounts, Packed, Returns, Like
<1>5. Kept'
  BY <1>1, <1>2 DEF IInv, Kept
<1> QED BY <1>3, <1>4, <1>5 DEF IInv

-----------------------------------------------------------------------------
(* The environment                                                           *)
LEMMA HelperEndsKeeps == ASSUME IInv, HelperEnds, UNCHANGED shared PROVE IInv'
<1>1. /\ helper = "running" /\ helper' = "stopped" /\ package' = Lost(package)
      /\ UNCHANGED <<shared, source, guest, flushed, out, promised, op, died, excused, faults>>
  BY DEF HelperEnds
<1>2. TypeOK'
  BY <1>1 DEF IInv, TypeOK, Files, Content, Lost
<1>3. Flags' /\ Mounts' /\ Kept' /\ Returns'
  BY <1>1 DEF IInv, Flags, Mounts, Kept, Returns
<1>4. \A f \in Files : package[f] # "cached" => package'[f] = package[f]
  BY <1>1 DEF Lost
<1>5. Packed'
  BY <1>1, <1>4 DEF IInv, Packed, Files
<1> QED BY <1>2, <1>3, <1>5 DEF IInv

LEMMA HelperRemovedKeeps == ASSUME IInv, HelperRemoved, UNCHANGED shared PROVE IInv'
<1>1. /\ op.pc = "idle" /\ helper' = "none" /\ package' = Lost(package)
      /\ UNCHANGED <<shared, source, guest, flushed, out, promised, op, died, excused, faults>>
  BY DEF HelperRemoved, At
<1>2. TypeOK'
  BY <1>1 DEF IInv, TypeOK, Files, Content, Lost
<1>3. Flags' /\ Mounts' /\ Packed' /\ Kept' /\ Returns'
  BY <1>1 DEF IInv, Flags, Mounts, Packed, Kept, Returns
<1> QED BY <1>2, <1>3 DEF IInv

(* The supervisor launches nothing while an operation has the lock.          *)
LEMMA PassKeeps == ASSUME IInv, Pass, UNCHANGED shared PROVE IInv'
<1>1. /\ op.pc = "idle" /\ source' \in {"running", "missing"}
      /\ UNCHANGED <<shared, helper, guest, package, flushed, out, promised, op, died, excused, faults>>
  BY DEF Pass, At, files
<1>2. TypeOK'
  BY <1>1 DEF IInv, TypeOK, Running
<1>3. Flags' /\ Mounts' /\ Packed' /\ Kept' /\ Returns'
  BY <1>1 DEF IInv, Flags, Mounts, Packed, Kept, Returns
<1> QED BY <1>2, <1>3 DEF IInv

(* A member that runs becomes ready or dies, at any step.                    *)
LEMMA MemberReadyKeeps == ASSUME IInv, MemberReady, UNCHANGED shared PROVE IInv'
<1>1. /\ source = "running" /\ source' = "ready"
      /\ UNCHANGED <<shared, helper, guest, package, flushed, out, promised, op, died, excused, faults>>
  BY DEF MemberReady, files
<1>2. TypeOK'
  BY <1>1 DEF IInv, TypeOK, Running
<1>3. Flags' /\ Mounts' /\ Packed' /\ Kept' /\ Returns'
  BY <1>1 DEF IInv, Flags, Mounts, Packed, Kept, Returns, Running
<1> QED BY <1>2, <1>3 DEF IInv

LEMMA MemberDiesKeeps == ASSUME IInv, MemberDies, UNCHANGED shared PROVE IInv'
<1>1. /\ source' = "stopped" /\ died' = TRUE /\ Fault
      /\ UNCHANGED <<shared, helper, guest, package, flushed, out, promised, op, excused>>
  BY DEF MemberDies, files
<1>2. TypeOK'
  BY <1>1, BoundsAssumption DEF IInv, TypeOK, Fault
<1>3. Flags' /\ Mounts' /\ Packed' /\ Kept' /\ Returns'
  BY <1>1 DEF IInv, Flags, Mounts, Packed, Kept, Returns, Running
<1> QED BY <1>2, <1>3 DEF IInv

(* A helper that runs is excused from here on: only its own steps and the    *)
(* cleanup that follows them are carried out beside it.                      *)
LEMMA ProcessDiesKeeps == ASSUME IInv, ProcessDies, UNCHANGED shared PROVE IInv'
<1>1. /\ op' = Idle /\ Fault /\ died' = FALSE /\ excused' = (excused \/ op.helperStarted)
      /\ package' \in {package, Lost(package)}
      /\ UNCHANGED <<shared, source, helper, guest, flushed, out, promised>>
  BY DEF ProcessDies, vms
<1>2. helper = "running" /\ ~excused => op.helperStarted
  BY DEF IInv, Mounts, Flags
<1>3. TypeOK'
  <2>1. excused' \in BOOLEAN
    BY <1>1
  <2>2. package' \in [Files -> Content]
    BY <1>1 DEF IInv, TypeOK, Files, Content, Lost
  <2>3. faults' \in 0..MaxFaults
    BY <1>1, BoundsAssumption DEF IInv, TypeOK, Fault
  <2> QED BY <1>1, <2>1, <2>2, <2>3, IdleIsOne DEF IInv, TypeOK
<1>4. Flags' /\ Mounts' /\ Packed' /\ Returns'
  BY <1>1, <1>2, IdleIsOne DEF Flags, Mounts, Packed, Returns
<1>5. Kept'
  BY <1>1, IdleIsOne DEF IInv, Kept
<1> QED BY <1>3, <1>4, <1>5 DEF IInv

(* What has a name is on the disk whole: the name may go, but no file.       *)
LEMMA HostDiesKeeps == ASSUME IInv, HostDies, UNCHANGED shared PROVE IInv'
<1>1. /\ op' = Idle /\ Fault /\ died' = FALSE /\ package' = NoPackage /\ flushed' = FALSE
      /\ UNCHANGED <<shared, guest, promised>>
  BY DEF HostDies
<1>2. /\ source' \in {"stopped", "missing"} /\ helper' \in {"none", "stopped"}
      /\ excused' \in BOOLEAN
  BY DEF HostDies, IInv, TypeOK, Operations, Running
<1>3. PICK kept \in BOOLEAN :
        out' = [o \in Outputs |->
                  IF out[o].state # "named" THEN out[o]
                  ELSE IF kept THEN [out[o] EXCEPT !.state = "durable",
                                                   !.files = Survives(@, out[o].flushed)]
                  ELSE NoOutput]
  BY DEF HostDies
<1> DEFINE Entry == [state : {"none", "named", "durable"}, files : [Files -> Content], flushed : BOOLEAN]
<1>4. ASSUME NEW o \in Outputs
      PROVE  /\ out'[o] \in Entry
             /\ out[o].state # "named" => out'[o] = out[o]
             /\ out[o].state = "named" /\ out'[o].state # "none" =>
                  out'[o].flushed = out[o].flushed
                  /\ out'[o].files = Survives(out[o].files, out[o].flushed)
  <2>1. out[o] \in Entry
    BY DEF IInv, TypeOK
  <2>2. Survives(out[o].files, out[o].flushed) \in [Files -> Content]
    BY <2>1 DEF Survives, Content
  <2>3. NoOutput \in Entry /\ NoOutput.state = "none"
    BY DEF NoOutput, NoPackage, Content
  <2>4. out'[o] = IF out[o].state # "named" THEN out[o]
                  ELSE IF kept THEN [out[o] EXCEPT !.state = "durable",
                                                   !.files = Survives(@, out[o].flushed)]
                  ELSE NoOutput
    BY <1>3
  <2>5. CASE out[o].state # "named"
    BY <2>1, <2>4, <2>5
  <2>6. CASE out[o].state = "named" /\ kept
    <3>1. out'[o] = [out[o] EXCEPT !.state = "durable", !.files = Survives(@, out[o].flushed)]
      BY <2>4, <2>6
    <3> QED BY <2>1, <2>2, <2>6, <3>1
  <2>7. CASE out[o].state = "named" /\ ~kept
    BY <2>3, <2>4, <2>7
  <2> QED BY <2>5, <2>6, <2>7
<1>5. out' \in [Outputs -> Entry]
  BY <1>3, <1>4
<1>6. TypeOK'
  <2>1. package' \in [Files -> Content]
    BY <1>1 DEF NoPackage, Content
  <2>2. faults' \in 0..MaxFaults
    BY <1>1, BoundsAssumption DEF IInv, TypeOK, Fault
  <2> QED BY <1>1, <1>2, <1>5, <2>1, <2>2, IdleIsOne DEF IInv, TypeOK
<1>7. Flags' /\ Mounts' /\ Packed' /\ Returns'
  BY <1>1, <1>2, IdleIsOne DEF Flags, Mounts, Packed, Returns, Running
<1>8. Kept'
  <2>1. ASSUME NEW o \in Outputs, out'[o].state # "none"
        PROVE  out'[o].flushed /\ \A f \in Files : out'[o].files[f] = "synced"
    <3>1. out[o].state # "none"
      BY <1>4, <2>1
    <3>2. out[o].flushed /\ \A f \in Files : out[o].files[f] = "synced"
      BY <3>1 DEF IInv, Kept
    <3>3. CASE out[o].state # "named"
      BY <1>4, <3>2, <3>3
    <3>4. CASE out[o].state = "named"
      <4>1. /\ out'[o].flushed = out[o].flushed
            /\ out'[o].files = Survives(out[o].files, out[o].flushed)
        BY <1>4, <2>1, <3>4
      <4> QED BY <3>2, <4>1 DEF Survives
    <3> QED BY <3>3, <3>4
  <2>2. \A o \in promised' : out'[o].state = "durable"
    BY <1>1, <1>4 DEF IInv, Kept, TypeOK
  <2> QED BY <1>1, <2>1, <2>2, IdleIsOne DEF Kept
<1> QED BY <1>6, <1>7, <1>8 DEF IInv

-----------------------------------------------------------------------------
(* The invariant of the specification *)
LEMMA InitHolds == Init => IInv
<1> SUFFICES ASSUME Init PROVE IInv
  OBVIOUS
<1>1. /\ source = "ready" /\ helper = "none" /\ op = Idle /\ promised = {}
      /\ \A o \in Outputs : out[o] = NoOutput
  BY DEF Init
<1>2. TypeOK
  <2>1. NoPackage \in [Files -> Content]
    BY DEF NoPackage, Content
  <2>2. out \in [Outputs -> [state : {"none", "named", "durable"}, files : [Files -> Content],
                             flushed : BOOLEAN]]
    BY <2>1 DEF Init, NoOutput
  <2>3. guest \in BOOLEAN /\ flushed \in BOOLEAN /\ died \in BOOLEAN /\ excused \in BOOLEAN
    BY DEF Init
  <2>4. /\ shared \in BOOLEAN /\ source \in Running \cup {"stopped", "missing"}
        /\ helper \in {"none", "running", "stopped"} /\ package = NoPackage
        /\ promised \subseteq Outputs /\ faults = 0
    BY DEF Init, Running
  <2> QED BY <1>1, <2>1, <2>2, <2>3, <2>4, IdleIsOne, BoundsAssumption DEF TypeOK
<1>3. Flags /\ Mounts /\ Packed /\ Kept /\ Returns
  BY <1>1, IdleIsOne DEF Flags, Mounts, Packed, Kept, Returns, NoOutput
<1> QED BY <1>2, <1>3 DEF IInv

LEMMA StepKeeps == IInv /\ [Next]_vars => IInv'
<1> SUFFICES ASSUME IInv, [Next]_vars PROVE IInv'
  OBVIOUS
<1>1. CASE UNCHANGED vars
  <2>1. UNCHANGED <<shared, source, helper, guest, package, flushed, out, promised, op, died,
                    excused, faults>>
    BY <1>1 DEF vars, vms, files
  <2> QED BY <2>1 DEF IInv, TypeOK, Flags, Mounts, Packed, Kept, Returns
<1>2. CASE Export /\ UNCHANGED shared
  BY <1>2, BeginKeeps, SaveKeeps, FindKeeps, MakeTemporaryKeeps, StopKeeps, StartHelperKeeps,
     CopySnapshotKeeps, CopyTokenKeeps, FlushKeeps, DropHelperKeeps, SecureSnapshotKeeps,
     SecureTokenKeeps, WriteManifestKeeps, StartSourceKeeps, WaitSourceKeeps, WaitClusterKeeps,
     SyncPackageKeeps, PublishKeeps, SyncParentKeeps DEF Export
<1>3. CASE Undo /\ UNCHANGED shared
  BY <1>3, UndoHelperKeeps, UndoStopKeeps, UndoWaitKeeps, RemoveTemporaryKeeps, RemoveGuestKeeps,
     ReleaseKeeps DEF Undo
<1>4. CASE /\ HelperEnds \/ HelperRemoved \/ Pass \/ MemberReady \/ MemberDies \/ ProcessDies \/ HostDies
           /\ UNCHANGED shared
  BY <1>4, HelperEndsKeeps, HelperRemovedKeeps, PassKeeps, MemberReadyKeeps, MemberDiesKeeps,
     ProcessDiesKeeps, HostDiesKeeps
<1> QED BY <1>1, <1>2, <1>3, <1>4 DEF Next

LEMMA Invariant == Spec => []IInv
BY InitHolds, StepKeeps, PTL DEF Spec

(* The state stays typed, and the copies go on only while the deferred       *)
(* removal of the helper and the deferred start of the source are armed.     *)
THEOREM SnapshotTypeCorrect == Spec => []TypeOK
<1>1. IInv => TypeOK
  BY DEF IInv
<1> QED BY Invariant, <1>1, PTL

(* Whatever died and when, a directory of the output's name holds the three  *)
(* files whole, and the output of a SnapshotHA that returned without an      *)
(* error is there: the files and the directory are flushed before the rename *)
(* and the directory of the output after it, before the return.              *)
THEOREM OutputIsKept == Spec => []OutputKept
<1>1. IInv => OutputKept
  BY DEF IInv, TypeOK, Kept, OutputKept, PublishedIsWhole, SuccessSurvives
<1> QED BY Invariant, <1>1, PTL

(* No two VMs have the source's volume mounted by SnapshotHA's own doing: it *)
(* starts the helper only after a stop that succeeded, and the source again  *)
(* only when it saw the helper go, on its way out after a failure as well.   *)
THEOREM VolumeMountedOnce == Spec => []MountedOnce
<1>1. IInv => MountedOnce
  BY DEF IInv, Mounts, MountedOnce
<1> QED BY Invariant, <1>1, PTL

(* SnapshotHA returns with the source up, and with no snapshot of its own in *)
(* the member's volume, unless it reports that this failed or the VM died.   *)
THEOREM LeftoversReported == Spec => ReportsLeftovers
<1>1. IInv /\ At("release") /\ op'.pc = "idle" /\ ~op.undoErr /\ ~died => source \in Running
  BY DEF IInv, Returns, At
<1>2. IInv /\ At("release") /\ op.known /\ ~op.guestErr => ~guest
  BY DEF IInv, Returns, At
<1>3. IInv /\ [Next]_vars => [At("release") /\ op'.pc = "idle" /\ ~op.undoErr /\ ~died
                              => source \in Running]_vars
  BY <1>1
<1>4. IInv /\ [Next]_vars => [At("release") /\ op.known /\ ~op.guestErr => ~guest]_vars
  BY <1>2
<1> QED BY Invariant, <1>3, <1>4, PTL DEF Spec, ReportsLeftovers, ReturnsSourceUp, NoSilentLeftover

-----------------------------------------------------------------------------
(* The package between its check and its use, for any number of versions,    *)
(* files and changes.  It is another system, of another time, with           *)
(* parameters and a state of its own.                                        *)
CONSTANTS Versions, Current, Identities, None, Commands, MaxChanges
VARIABLES path, open, staged, resetHelper, reset, changes, deaths

Pkg == INSTANCE HAPackage WITH helper <- resetHelper, op <- reset, faults <- deaths

PackageAssumptions ==
  Pkg!CommandsAssumption /\ Pkg!VersionsAssumption /\ Pkg!BoundsAssumption

-----------------------------------------------------------------------------
(* What is known of the operation, of the copy and of the helper at each     *)
(* step; none of it depends on the files in the operator's directory.        *)

AfterToken    == {"cleanHelper", "cleanStaging", "reset"} \cup Pkg!Staging
AfterManifest == {"snapshot", "token", "tokenAgain"} \cup AfterToken

Trusted ==
  /\ reset.cmd = "recover" /\ reset.pc \in AfterManifest => reset.manifest = Pkg!Of(Current)
  /\ reset.pc \in AfterToken => reset.token = Pkg!Of(Pkg!IdentityIn(reset.manifest))
  /\ reset.cmd = "restore" /\ reset.pc \in AfterToken => reset.token = Pkg!Of(Current)

Copied ==
  /\ reset.pc \in {"stageSnapshot", "stageToken", "reset"} => staged["manifest"] = reset.manifest
  /\ reset.pc \in {"stageToken", "reset"} => staged["snapshot"] = Pkg!DigestIn(reset.manifest, "snapshot")
  /\ reset.pc = "reset" => staged["token"] = Pkg!DigestIn(reset.manifest, "token")

Held ==
  /\ reset.pc \in {"cleanStaging", "reset", "unstage"} \cup Pkg!Staging => resetHelper = "none"
  /\ Pkg!HelperHasPackage

PackageInv == Pkg!TypeOK /\ Trusted /\ Copied /\ Held

-----------------------------------------------------------------------------
(* Typing of the parts. *)

LEMMA OfType == ASSUME NEW v \in Versions PROVE Pkg!Of(v) \in Pkg!Contents /\ \A b \in 1..2 : Pkg!Of(v)[b] = v
BY DEF Pkg!Of, Pkg!Contents

LEMMA DigestType ==
  ASSUME NEW m \in Pkg!Contents, NEW n
  PROVE  Pkg!DigestIn(m, n) \in Pkg!Contents /\ Pkg!IdentityIn(m) \in Versions
BY OfType DEF Pkg!DigestIn, Pkg!IdentityIn, Pkg!Contents

LEMMA NameType == Pkg!Name \in Pkg!Names
BY DEF Pkg!Name, Pkg!NameOf, Pkg!Names

LEMMA GotType == ASSUME PackageAssumptions, Pkg!TypeOK PROVE Pkg!Got \in Pkg!Contents
BY DEF Pkg!TypeOK, Pkg!Operations, Pkg!Got, Pkg!Contents

LEMMA IdleType ==
  ASSUME PackageAssumptions
  PROVE  Pkg!Idle \in Pkg!Operations /\ Pkg!Idle.pc = "idle" /\ Pkg!Idle.cmd = "restore"
<1>1. Pkg!Of(Current) \in Pkg!Contents /\ Current \in Versions
  BY OfType DEF PackageAssumptions
<1> QED
  BY <1>1 DEF Pkg!Idle, Pkg!Operations, Pkg!Rest

LEMMA NoFilesType == Pkg!NoFiles \in [Pkg!Names -> Pkg!Contents \cup {None}]
BY DEF Pkg!NoFiles

LEMMA ClosedType ==
  ASSUME PackageAssumptions
  PROVE  Pkg!Closed \in [id : Identities \cup {None}, content : Pkg!Contents] /\ Pkg!Closed.id = None
BY OfType DEF Pkg!Closed, PackageAssumptions

(* A step of the operation alone, to a step that reads nothing.              *)
LEMMA GotoType ==
  ASSUME PackageAssumptions, reset \in Pkg!Operations,
         NEW s \in Pkg!Reads \cup Pkg!Rest, reset' = [reset EXCEPT !.pc = s]
  PROVE  /\ reset' \in Pkg!Operations /\ reset'.pc = s /\ reset'.cmd = reset.cmd
         /\ reset'.manifest = reset.manifest /\ reset'.token = reset.token
BY DEF Pkg!Operations

(* What a read that was accepted leaves in the operation. *)
LEMMA LearnedType ==
  ASSUME PackageAssumptions, Pkg!TypeOK, reset.pc \in Pkg!Reads, reset' = Pkg!Learned
  PROVE  /\ reset' \in Pkg!Operations /\ reset'.pc = Pkg!Following[reset.pc] /\ reset'.cmd = reset.cmd
         /\ reset'.manifest = IF reset.pc = "manifest" THEN Pkg!Got ELSE reset.manifest
         /\ reset'.token = IF reset.pc = "tokenAgain" THEN Pkg!Got ELSE reset.token
<1> DEFINE r == [reset EXCEPT !.pc = Pkg!Following[reset.pc], !.first = Current]
<1>1. Pkg!Following[reset.pc] \in Pkg!Reads \cup Pkg!Rest
  BY DEF Pkg!Reads, Pkg!Rest, Pkg!Following
<1>2. /\ r \in Pkg!Operations /\ r.pc = Pkg!Following[reset.pc] /\ r.cmd = reset.cmd
      /\ r.manifest = reset.manifest /\ r.token = reset.token
  BY <1>1 DEF Pkg!TypeOK, Pkg!Operations, PackageAssumptions
<1>3. reset' = CASE reset.pc = "manifest" -> [r EXCEPT !.manifest = Pkg!Got, !.seen["manifest"] = open.id]
              [] reset.pc \in {"snapshot", "token"} -> [r EXCEPT !.seen[Pkg!Name] = open.id]
              [] reset.pc = "tokenAgain" -> [r EXCEPT !.token = Pkg!Got]
              [] OTHER -> r
  BY Zenon DEF Pkg!Learned
<1>4. open.id \in Identities \cup {None} /\ Pkg!Got \in Pkg!Contents /\ Pkg!Name \in Pkg!Names /\ "manifest" \in Pkg!Names
  BY GotType, NameType DEF Pkg!TypeOK, Pkg!Names
<1> HIDE DEF r
<1>5. CASE reset.pc = "manifest"
  <2>1. reset' = [r EXCEPT !.manifest = Pkg!Got, !.seen["manifest"] = open.id]
    BY <1>3, <1>5, Zenon
  <2>2. [r.seen EXCEPT !["manifest"] = open.id] \in [Pkg!Names -> Identities \cup {None}]
    BY <1>2, <1>4 DEF Pkg!Operations
  <2>3. reset' = [[r EXCEPT !.manifest = Pkg!Got] EXCEPT !.seen = [r.seen EXCEPT !["manifest"] = open.id]]
    BY <1>2, <2>1 DEF Pkg!Operations
  <2>4. reset' \in Pkg!Operations
    BY <1>2, <1>4, <2>2, <2>3 DEF Pkg!Operations
  <2>5. /\ reset'.pc = Pkg!Following[reset.pc] /\ reset'.cmd = reset.cmd
        /\ reset'.manifest = Pkg!Got /\ reset'.token = reset.token
    BY <1>2, <2>3 DEF Pkg!Operations
  <2> QED BY <1>5, <2>4, <2>5
<1>6. CASE reset.pc \in {"snapshot", "token"}
  BY <1>2, <1>3, <1>4, <1>6 DEF Pkg!Operations
<1>7. CASE reset.pc = "tokenAgain"
  BY <1>2, <1>3, <1>4, <1>7 DEF Pkg!Operations
<1>8. CASE reset.pc \notin {"manifest", "snapshot", "token", "tokenAgain"}
  BY <1>2, <1>3, <1>8
<1> QED BY <1>5, <1>6, <1>7, <1>8

-----------------------------------------------------------------------------
(* The type invariant. *)

LEMMA InitType == ASSUME PackageAssumptions PROVE Pkg!Init => Pkg!TypeOK
<1> SUFFICES ASSUME Pkg!Init PROVE Pkg!TypeOK
  OBVIOUS
<1>1. PICK v \in Versions, ids \in [Pkg!Names -> Identities] :
        /\ \A m, n \in Pkg!Names : m # n => ids[m] # ids[n]
        /\ path = [n \in Pkg!Names |-> [id |-> ids[n], content |-> Pkg!Of(v), private |-> TRUE]]
  BY DEF Pkg!Init
<1>2. path \in [Pkg!Names -> Pkg!File] /\ \A m, n \in Pkg!Names : m # n => path[m].id # path[n].id
  BY <1>1, OfType DEF Pkg!File
<1>3. reset \in Pkg!Operations /\ reset.pc = "idle" /\ staged \in [Pkg!Names -> Pkg!Contents \cup {None}]
  BY IdleType, NoFilesType DEF Pkg!Init
<1>4. open \in [id : Identities \cup {None}, content : Pkg!Contents] /\ open.id = None
  BY ClosedType DEF Pkg!Init
<1>5. changes \in 0..MaxChanges /\ deaths \in 0..MaxFaults /\ resetHelper \in {"none", "there"}
  BY DEF Pkg!Init, PackageAssumptions
<1> QED BY <1>2, <1>3, <1>4, <1>5 DEF Pkg!TypeOK

LEMMA FaultType == ASSUME PackageAssumptions, Pkg!TypeOK, Pkg!Fault \/ Pkg!NoFault PROVE deaths' \in 0..MaxFaults
BY DEF Pkg!TypeOK, Pkg!Fault, Pkg!NoFault, PackageAssumptions

LEMMA ChangeType == ASSUME PackageAssumptions, Pkg!TypeOK, Pkg!Change PROVE changes' \in 0..MaxChanges
BY DEF Pkg!TypeOK, Pkg!Change, PackageAssumptions

LEMMA GivesUpType == ASSUME PackageAssumptions, Pkg!TypeOK, Pkg!GivesUp PROVE Pkg!TypeOK'
<1>1. staged' \in [Pkg!Names -> Pkg!Contents \cup {None}]
  BY NoFilesType DEF Pkg!TypeOK, Pkg!GivesUp
<1>2. reset' \in Pkg!Operations /\ open' \in [id : Identities \cup {None}, content : Pkg!Contents] /\ open'.id = None
  BY IdleType, ClosedType DEF Pkg!GivesUp
<1> QED BY <1>1, <1>2 DEF Pkg!TypeOK, Pkg!GivesUp

LEMMA OpenType == ASSUME PackageAssumptions, Pkg!TypeOK, Pkg!Open PROVE Pkg!TypeOK'
<1>1. CASE Pkg!MayOpen /\ open' = [id |-> path[Pkg!Name].id, content |-> path[Pkg!Name].content]
           /\ reset' = [reset EXCEPT !.first = path[Pkg!Name].content[1]]
           /\ UNCHANGED <<path, staged, resetHelper, changes, deaths>>
  <2>1. path[Pkg!Name] \in Pkg!File /\ path[Pkg!Name].content[1] \in Versions
    BY NameType DEF Pkg!TypeOK, Pkg!File, Pkg!Contents
  <2>2. open' \in [id : Identities \cup {None}, content : Pkg!Contents]
    BY <1>1, <2>1 DEF Pkg!File
  <2>3. reset' \in Pkg!Operations /\ reset'.pc = reset.pc
    BY <1>1, <2>1 DEF Pkg!TypeOK, Pkg!Operations
  <2> QED BY <1>1, <2>2, <2>3 DEF Pkg!TypeOK, Pkg!Open
<1> QED BY <1>1, GivesUpType DEF Pkg!Open

LEMMA CheckType == ASSUME PackageAssumptions, Pkg!TypeOK, Pkg!Check PROVE Pkg!TypeOK'
<1>1. CASE reset' = Pkg!Learned /\ open' = Pkg!Closed
           /\ staged' = (IF reset.pc \in Pkg!Staging THEN [staged EXCEPT ![Pkg!Name] = Pkg!Got] ELSE staged)
           /\ UNCHANGED <<path, resetHelper, changes, deaths>>
  <2>1. reset.pc \in Pkg!Reads
    BY DEF Pkg!Check, Pkg!IsOpen, Pkg!TypeOK
  <2>2. reset' \in Pkg!Operations
    BY <1>1, <2>1, LearnedType
  <2>3. staged' \in [Pkg!Names -> Pkg!Contents \cup {None}]
    BY <1>1, GotType, NameType DEF Pkg!TypeOK
  <2>4. open' \in [id : Identities \cup {None}, content : Pkg!Contents] /\ open'.id = None
    BY <1>1, ClosedType
  <2> QED BY <1>1, <2>2, <2>3, <2>4 DEF Pkg!TypeOK
<1> QED BY <1>1, GivesUpType DEF Pkg!Check

(* A step outside the reads, with no file open.                              *)
LEMMA RestType ==
  ASSUME PackageAssumptions, Pkg!TypeOK, reset.pc \notin Pkg!Reads,
         UNCHANGED <<path, open, changes>>, reset' \in Pkg!Operations,
         staged' = staged \/ staged' = Pkg!NoFiles, resetHelper' \in {"none", resetHelper, "there"},
         Pkg!Fault \/ Pkg!NoFault
  PROVE  Pkg!TypeOK'
<1>1. deaths' \in 0..MaxFaults
  BY FaultType
<1>2. staged' \in [Pkg!Names -> Pkg!Contents \cup {None}]
  BY NoFilesType DEF Pkg!TypeOK
<1> QED BY <1>1, <1>2 DEF Pkg!TypeOK

LEMMA NextType == ASSUME PackageAssumptions, Pkg!TypeOK, [Pkg!Next]_(Pkg!vars) PROVE Pkg!TypeOK'
<1>1. ASSUME NEW c \in Commands, Pkg!Begin(c) PROVE Pkg!TypeOK'
  <2>1. reset' \in Pkg!Operations
    BY <1>1, IdleType DEF Pkg!Begin, Pkg!Operations, Pkg!Reads, PackageAssumptions
  <2> QED BY <1>1, <2>1, RestType DEF Pkg!Begin, Pkg!NoFault, Pkg!TypeOK, Pkg!Reads
<1>2. CASE Pkg!Open
  BY <1>2, OpenType
<1>3. CASE Pkg!Check
  BY <1>3, CheckType
<1>4. CASE Pkg!CleanHelper
  <2>1. reset' \in Pkg!Operations /\ reset.pc \notin Pkg!Reads
    BY <1>4, IdleType, GotoType DEF Pkg!CleanHelper, Pkg!TypeOK, Pkg!Rest, Pkg!Reads
  <2> QED BY <1>4, <2>1, RestType DEF Pkg!CleanHelper
<1>5. CASE Pkg!CleanStaging
  <2>1. reset' \in Pkg!Operations /\ reset.pc \notin Pkg!Reads
    BY <1>5, IdleType, GotoType DEF Pkg!CleanStaging, Pkg!TypeOK, Pkg!Rest, Pkg!Reads
  <2> QED BY <1>5, <2>1, RestType DEF Pkg!CleanStaging
<1>6. CASE Pkg!Reset
  <2>1. reset' \in Pkg!Operations /\ reset.pc \notin Pkg!Reads
    BY <1>6, GotoType DEF Pkg!Reset, Pkg!TypeOK, Pkg!Rest, Pkg!Reads
  <2> QED BY <1>6, <2>1, RestType DEF Pkg!Reset, Pkg!NoFault
<1>7. CASE Pkg!DropHelper
  <2>1. reset' \in Pkg!Operations /\ reset.pc \notin Pkg!Reads
    BY <1>7, GotoType DEF Pkg!DropHelper, Pkg!TypeOK, Pkg!Rest, Pkg!Reads
  <2> QED BY <1>7, <2>1, RestType DEF Pkg!DropHelper
<1>8. CASE Pkg!Cleanup
  <2>1. reset' \in Pkg!Operations /\ reset.pc \notin Pkg!Reads
    BY <1>8, IdleType, GotoType DEF Pkg!Cleanup, Pkg!TypeOK, Pkg!Rest, Pkg!Reads
  <2> QED BY <1>8, <2>1, RestType DEF Pkg!Cleanup, Pkg!NoFault
<1>9. CASE Pkg!Unstage
  <2>1. reset' \in Pkg!Operations /\ reset.pc \notin Pkg!Reads
    BY <1>9, IdleType DEF Pkg!Unstage, Pkg!TypeOK, Pkg!Reads
  <2> QED BY <1>9, <2>1, RestType DEF Pkg!Unstage
<1>10. CASE Pkg!ProcessDies
  <2>1. deaths' \in 0..MaxFaults /\ reset' \in Pkg!Operations
    BY <1>10, IdleType, FaultType DEF Pkg!ProcessDies
  <2>2. open' \in [id : Identities \cup {None}, content : Pkg!Contents] /\ open'.id = None
    BY <1>10, ClosedType DEF Pkg!ProcessDies
  <2> QED BY <1>10, <2>1, <2>2 DEF Pkg!TypeOK, Pkg!ProcessDies
<1>11. ASSUME NEW n \in Pkg!Names, NEW v \in Versions, NEW b \in 1..2, Pkg!WriteOver(n, b, v) PROVE Pkg!TypeOK'
  <2>1. changes' \in 0..MaxChanges
    BY <1>11, ChangeType DEF Pkg!WriteOver
  <2>2. path' = [path EXCEPT ![n].content[b] = v]
    BY <1>11 DEF Pkg!WriteOver
  <2>3. path' \in [Pkg!Names -> Pkg!File] /\ \A m \in Pkg!Names : path'[m].id = path[m].id
    BY <2>2 DEF Pkg!TypeOK, Pkg!File, Pkg!Contents
  <2>4. open' \in [id : Identities \cup {None}, content : Pkg!Contents] /\ open'.id = open.id
    BY <1>11 DEF Pkg!WriteOver, Pkg!TypeOK, Pkg!Contents
  <2> QED BY <1>11, <2>1, <2>3, <2>4 DEF Pkg!TypeOK, Pkg!WriteOver
<1>12. ASSUME NEW n \in Pkg!Names, NEW v \in Versions, NEW i \in Identities, Pkg!Replace(n, v, i) PROVE Pkg!TypeOK'
  <2>1. changes' \in 0..MaxChanges
    BY <1>12, ChangeType DEF Pkg!Replace
  <2>2. path' = [path EXCEPT ![n] = [id |-> i, content |-> Pkg!Of(v), private |-> TRUE]]
        /\ \A m \in Pkg!Names : path[m].id # i
    BY <1>12 DEF Pkg!Replace
  <2>3. path' \in [Pkg!Names -> Pkg!File]
    BY <2>2, OfType DEF Pkg!TypeOK, Pkg!File
  <2>4. \A m, k \in Pkg!Names : m # k => path'[m].id # path'[k].id
    BY <2>2 DEF Pkg!TypeOK
  <2> QED BY <1>12, <2>1, <2>3, <2>4 DEF Pkg!TypeOK, Pkg!Replace
<1>13. ASSUME NEW n \in Pkg!Names, Pkg!Expose(n) PROVE Pkg!TypeOK'
  <2>1. changes' \in 0..MaxChanges
    BY <1>13, ChangeType DEF Pkg!Expose
  <2>2. path' \in [Pkg!Names -> Pkg!File] /\ \A m \in Pkg!Names : path'[m].id = path[m].id
    BY <1>13 DEF Pkg!Expose, Pkg!TypeOK, Pkg!File
  <2> QED BY <1>13, <2>1, <2>2 DEF Pkg!TypeOK, Pkg!Expose
<1>14. CASE UNCHANGED Pkg!vars
  BY <1>14 DEF Pkg!TypeOK, Pkg!vars
<1> QED
  BY <1>1, <1>2, <1>3, <1>4, <1>5, <1>6, <1>7, <1>8, <1>9, <1>10, <1>11, <1>12, <1>13, <1>14 DEF Pkg!Next

-----------------------------------------------------------------------------
(* The invariant. *)

LEMMA PackageInit == ASSUME PackageAssumptions PROVE Pkg!Init => PackageInv
<1> SUFFICES ASSUME Pkg!Init PROVE PackageInv
  OBVIOUS
<1>1. Pkg!TypeOK /\ reset.pc = "idle" /\ resetHelper = "none"
  BY InitType, IdleType DEF Pkg!Init
<1> QED BY <1>1 DEF PackageInv, Trusted, Copied, Held, Pkg!HelperHasPackage, AfterManifest, AfterToken, Pkg!Staging

(* The operation has ended, or is at a step that nothing is asked of, and    *)
(* the staged package stays while there is a helper.                         *)
LEMMA EndsInv ==
  ASSUME PackageAssumptions, PackageInv, Pkg!TypeOK', reset'.pc \in {"idle", "header", "manifest", "cleanup"},
         resetHelper' \in {"none", resetHelper}, staged' = staged \/ resetHelper' = "none"
  PROVE  PackageInv'
<1>1. Trusted' /\ Copied'
  BY DEF Trusted, Copied, AfterManifest, AfterToken, Pkg!Staging
<1>2. Held'
  BY DEF PackageInv, Held, Pkg!HelperHasPackage, Pkg!Staging
<1> QED BY <1>1, <1>2 DEF PackageInv

LEMMA GivesUpInv == ASSUME PackageAssumptions, PackageInv, Pkg!TypeOK', Pkg!GivesUp PROVE PackageInv'
<1>1. reset.pc \in Pkg!Staging => resetHelper = "none"
  BY DEF PackageInv, Held
<1>2. reset'.pc = "idle" /\ resetHelper' = resetHelper /\ (staged' = staged \/ resetHelper' = "none")
  BY <1>1, IdleType DEF Pkg!GivesUp
<1> QED BY <1>2, EndsInv

LEMMA OpenInv == ASSUME PackageAssumptions, PackageInv, Pkg!TypeOK', Pkg!Open PROVE PackageInv'
<1>1. CASE reset' = [reset EXCEPT !.first = path[Pkg!Name].content[1]] /\ UNCHANGED <<path, staged, resetHelper, changes, deaths>>
  <2>1. reset'.pc = reset.pc /\ reset'.cmd = reset.cmd /\ reset'.manifest = reset.manifest /\ reset'.token = reset.token
    BY <1>1 DEF PackageInv, Pkg!TypeOK, Pkg!Operations
  <2> QED BY <1>1, <2>1 DEF PackageInv, Trusted, Copied, Held, Pkg!HelperHasPackage
<1> QED BY <1>1, GivesUpInv DEF Pkg!Open

(* A read that gave what it must. *)
LEMMA CheckInv == ASSUME PackageAssumptions, PackageInv, Pkg!TypeOK', Pkg!Check PROVE PackageInv'
<1>1. CASE Pkg!Accepts /\ reset' = Pkg!Learned
           /\ staged' = (IF reset.pc \in Pkg!Staging THEN [staged EXCEPT ![Pkg!Name] = Pkg!Got] ELSE staged)
           /\ UNCHANGED <<path, resetHelper, changes, deaths>>
  <2>1. reset.pc \in Pkg!Reads /\ Pkg!TypeOK /\ Pkg!Accepts
    BY <1>1 DEF Pkg!Check, Pkg!IsOpen, PackageInv, Pkg!TypeOK
  <2>2. /\ reset'.pc = Pkg!Following[reset.pc] /\ reset'.cmd = reset.cmd
        /\ reset'.manifest = IF reset.pc = "manifest" THEN Pkg!Got ELSE reset.manifest
        /\ reset'.token = IF reset.pc = "tokenAgain" THEN Pkg!Got ELSE reset.token
    BY <1>1, <2>1, LearnedType
  <2>3. reset.pc = "manifest" /\ reset.cmd = "recover" => Pkg!Got = Pkg!Of(Current)
    BY <2>1 DEF Pkg!Accepts
  <2>4. reset.pc = "tokenAgain" => /\ reset.cmd = "restore" => Pkg!Got = Pkg!Of(Current)
                                /\ Pkg!Got = Pkg!Of(Pkg!IdentityIn(reset.manifest))
    BY <2>1 DEF Pkg!Accepts
  <2>5. reset.pc = "stageManifest" => Pkg!Got = reset.manifest
    BY <2>1 DEF Pkg!Accepts
  <2>6. /\ reset.pc = "stageSnapshot" => Pkg!Got = Pkg!DigestIn(reset.manifest, "snapshot")
        /\ reset.pc = "stageToken" => Pkg!Got = Pkg!DigestIn(reset.manifest, "token")
    BY <2>1 DEF Pkg!Accepts, Pkg!Name, Pkg!NameOf
  <2>7. Trusted'
    BY <2>1, <2>2, <2>3, <2>4 DEF PackageInv, Trusted, AfterManifest, AfterToken, Pkg!Staging, Pkg!Following, Pkg!Reads
  <2>8. Copied'
    <3>1. /\ reset.pc = "stageManifest" => staged' = [staged EXCEPT !["manifest"] = Pkg!Got]
          /\ reset.pc = "stageSnapshot" => staged' = [staged EXCEPT !["snapshot"] = Pkg!Got]
          /\ reset.pc = "stageToken" => staged' = [staged EXCEPT !["token"] = Pkg!Got]
      BY <1>1 DEF Pkg!Staging, Pkg!Name, Pkg!NameOf
    <3>2. staged \in [Pkg!Names -> Pkg!Contents \cup {None}] /\ {"manifest", "snapshot", "token"} \subseteq Pkg!Names
      BY <2>1 DEF Pkg!TypeOK, Pkg!Names
    <3>3. reset'.manifest = reset.manifest \/ reset'.pc = "snapshot"
      BY <2>2 DEF Pkg!Following
    <3> QED BY <2>1, <2>2, <2>5, <2>6, <3>1, <3>2, <3>3 DEF PackageInv, Copied, Pkg!Following, Pkg!Reads
  <2>9. Held'
    <3>1. reset.pc \in Pkg!Staging => resetHelper = "none"
      BY DEF PackageInv, Held
    <3>2. reset'.pc \in {"cleanStaging", "reset", "unstage"} \cup Pkg!Staging => reset.pc \in Pkg!Staging
      BY <2>1, <2>2 DEF Pkg!Following, Pkg!Reads, Pkg!Staging
    <3> QED BY <1>1, <3>1, <3>2 DEF PackageInv, Held, Pkg!HelperHasPackage
  <2> QED BY <2>7, <2>8, <2>9 DEF PackageInv
<1> QED BY <1>1, GivesUpInv DEF Pkg!Check

LEMMA CleanHelperInv == ASSUME PackageAssumptions, PackageInv, Pkg!TypeOK', Pkg!CleanHelper PROVE PackageInv'
<1>1. CASE reset' = Pkg!Idle
  BY <1>1, IdleType, EndsInv DEF Pkg!CleanHelper
<1>2. CASE resetHelper' = "none" /\ reset' = [reset EXCEPT !.pc = "cleanStaging"] /\ staged' = staged
  <2>1. /\ reset'.pc = "cleanStaging" /\ reset'.cmd = reset.cmd /\ reset'.manifest = reset.manifest
        /\ reset'.token = reset.token /\ reset.pc = "cleanHelper"
    BY <1>2, GotoType DEF PackageInv, Pkg!TypeOK, Pkg!CleanHelper, Pkg!Rest
  <2>2. Trusted' /\ Copied'
    BY <2>1 DEF PackageInv, Trusted, Copied, AfterManifest, AfterToken, Pkg!Staging
  <2> QED BY <1>2, <2>2 DEF PackageInv, Held, Pkg!HelperHasPackage
<1> QED BY <1>1, <1>2 DEF Pkg!CleanHelper

LEMMA CleanStagingInv == ASSUME PackageAssumptions, PackageInv, Pkg!TypeOK', Pkg!CleanStaging PROVE PackageInv'
<1>0. resetHelper = "none" /\ resetHelper' = resetHelper
  BY DEF Pkg!CleanStaging, PackageInv, Held
<1>1. CASE reset' = Pkg!Idle
  BY <1>0, <1>1, IdleType, EndsInv
<1>2. CASE reset' = [reset EXCEPT !.pc = "stageManifest"]
  <2>1. /\ reset'.pc = "stageManifest" /\ reset'.cmd = reset.cmd /\ reset'.manifest = reset.manifest
        /\ reset'.token = reset.token /\ reset.pc = "cleanStaging"
    BY <1>2, GotoType DEF PackageInv, Pkg!TypeOK, Pkg!CleanStaging, Pkg!Reads
  <2>2. Trusted' /\ Copied'
    BY <2>1 DEF PackageInv, Trusted, Copied, AfterManifest, AfterToken, Pkg!Staging
  <2> QED BY <1>0, <2>2 DEF PackageInv, Held, Pkg!HelperHasPackage
<1> QED BY <1>1, <1>2 DEF Pkg!CleanStaging

(* At the reset the copy is whole. *)
LEMMA ReadyIsWhole == ASSUME PackageAssumptions, PackageInv, Pkg!Ready PROVE \A n \in Pkg!Names : staged[n] # None
<1>1. /\ staged["manifest"] = reset.manifest /\ staged["snapshot"] = Pkg!DigestIn(reset.manifest, "snapshot")
      /\ staged["token"] = Pkg!DigestIn(reset.manifest, "token")
  BY DEF PackageInv, Copied, Pkg!Ready
<1>2. reset.manifest \in Pkg!Contents /\ \A n \in Pkg!Names : Pkg!DigestIn(reset.manifest, n) \in Pkg!Contents
  BY DigestType DEF PackageInv, Pkg!TypeOK, Pkg!Operations
<1>3. None \notin Pkg!Contents
  BY DEF Pkg!Contents, PackageAssumptions
<1> QED BY <1>1, <1>2, <1>3 DEF Pkg!Names

LEMMA ResetInv == ASSUME PackageAssumptions, PackageInv, Pkg!TypeOK', Pkg!Reset PROVE PackageInv'
<1>1. \A n \in Pkg!Names : staged'[n] # None
  BY ReadyIsWhole DEF Pkg!Reset, Pkg!Ready
<1>2. reset'.pc \in {"dropHelper", "cleanup"}
  BY GotoType DEF PackageInv, Pkg!TypeOK, Pkg!Reset, Pkg!Rest
<1>3. Trusted' /\ Copied' /\ Held'
  BY <1>1, <1>2 DEF Trusted, Copied, Held, Pkg!HelperHasPackage, AfterManifest, AfterToken, Pkg!Staging
<1> QED BY <1>3 DEF PackageInv

LEMMA DropHelperInv == ASSUME PackageAssumptions, PackageInv, Pkg!TypeOK', Pkg!DropHelper PROVE PackageInv'
<1>1. reset'.pc = "cleanup"
  BY GotoType DEF PackageInv, Pkg!TypeOK, Pkg!DropHelper, Pkg!Rest
<1> QED BY <1>1, EndsInv DEF Pkg!DropHelper

LEMMA CleanupInv == ASSUME PackageAssumptions, PackageInv, Pkg!TypeOK', Pkg!Cleanup PROVE PackageInv'
<1>1. CASE resetHelper = "none"
  <2>1. reset'.pc = "unstage" /\ resetHelper' = "none"
    BY <1>1, GotoType DEF PackageInv, Pkg!TypeOK, Pkg!Cleanup, Pkg!Rest
  <2>2. Trusted' /\ Copied' /\ Held'
    BY <2>1 DEF Trusted, Copied, Held, Pkg!HelperHasPackage, AfterManifest, AfterToken, Pkg!Staging
  <2> QED BY <2>2 DEF PackageInv
<1>2. CASE resetHelper # "none"
  BY <1>2, IdleType, EndsInv DEF Pkg!Cleanup
<1> QED BY <1>1, <1>2

LEMMA UnstageInv == ASSUME PackageAssumptions, PackageInv, Pkg!TypeOK', Pkg!Unstage PROVE PackageInv'
<1>1. resetHelper' = "none"
  BY DEF Pkg!Unstage, PackageInv, Held
<1> QED BY <1>1, IdleType, EndsInv DEF Pkg!Unstage

LEMMA PackageNext == ASSUME PackageAssumptions, PackageInv, [Pkg!Next]_(Pkg!vars) PROVE PackageInv'
<1>0. Pkg!TypeOK'
  BY NextType DEF PackageInv
<1>1. ASSUME NEW c \in Commands, Pkg!Begin(c) PROVE PackageInv'
  <2>1. reset'.pc \in {"header", "manifest"}
    BY <1>1, IdleType DEF Pkg!Begin, Pkg!Operations
  <2> QED BY <1>0, <1>1, <2>1, EndsInv DEF Pkg!Begin
<1>2. CASE Pkg!ProcessDies
  BY <1>0, <1>2, IdleType, EndsInv DEF Pkg!ProcessDies
<1>3. CASE UNCHANGED <<reset, staged, resetHelper>>
  BY <1>0, <1>3 DEF PackageInv, Trusted, Copied, Held, Pkg!HelperHasPackage
<1>4. CASE Pkg!CleanHelper \/ Pkg!CleanStaging \/ Pkg!Reset \/ Pkg!DropHelper \/ Pkg!Cleanup \/ Pkg!Unstage
  BY <1>0, <1>4, CleanHelperInv, CleanStagingInv, ResetInv, DropHelperInv, CleanupInv, UnstageInv
<1> QED
  BY <1>0, <1>1, <1>2, <1>3, <1>4, OpenInv, CheckInv
  DEF Pkg!Next, Pkg!vars, Pkg!WriteOver, Pkg!Replace, Pkg!Expose

-----------------------------------------------------------------------------
(* The state of the model stays in its types: the typing all else rests on.  *)
THEOREM PackageTypeCorrect == PackageAssumptions /\ Pkg!Spec => []Pkg!TypeOK
<1>1. PackageAssumptions /\ Pkg!Init => Pkg!TypeOK
  BY InitType
<1>2. PackageAssumptions /\ Pkg!TypeOK /\ [Pkg!Next]_(Pkg!vars) => Pkg!TypeOK'
  BY NextType
<1>3. PackageAssumptions => PackageAssumptions'
  OBVIOUS
<1> QED BY <1>1, <1>2, <1>3, PTL DEF Pkg!Spec

LEMMA PackageInvariance == PackageAssumptions /\ Pkg!Spec => []PackageInv
<1>1. PackageAssumptions /\ Pkg!Init => PackageInv
  BY PackageInit
<1>2. PackageAssumptions /\ PackageInv /\ [Pkg!Next]_(Pkg!vars) => PackageInv'
  BY PackageNext
<1>3. PackageAssumptions => PackageAssumptions'
  OBVIOUS
<1> QED BY <1>1, <1>2, <1>3, PTL DEF Pkg!Spec

(* Whatever anybody does to the files of the package, and however often, the *)
(* reset gets the snapshot and the token that the staged manifest names.     *)
THEOREM StagedPackageFits == PackageAssumptions /\ Pkg!Spec => []Pkg!StagedFitsManifest
<1>1. ASSUME PackageAssumptions, PackageInv PROVE Pkg!StagedFitsManifest
  <2> SUFFICES ASSUME Pkg!Ready
               PROVE  /\ staged["manifest"] = reset.manifest
                      /\ \A n \in {"snapshot", "token"} : staged[n] = Pkg!DigestIn(reset.manifest, n)
                      /\ reset.manifest[1] = reset.manifest[2] => reset.token = staged["token"]
    BY DEF Pkg!StagedFitsManifest
  <2>1. /\ staged["manifest"] = reset.manifest /\ staged["snapshot"] = Pkg!DigestIn(reset.manifest, "snapshot")
        /\ staged["token"] = Pkg!DigestIn(reset.manifest, "token")
    BY <1>1 DEF PackageInv, Copied, Pkg!Ready
  <2>2. reset.token = Pkg!Of(Pkg!IdentityIn(reset.manifest))
    BY <1>1 DEF PackageInv, Trusted, Pkg!Ready, AfterToken
  <2>3. Pkg!DigestIn(reset.manifest, "token") = Pkg!Of(reset.manifest[2]) /\ Pkg!IdentityIn(reset.manifest) = reset.manifest[1]
    BY DEF Pkg!DigestIn, Pkg!IdentityIn
  <2> QED BY <2>1, <2>2, <2>3
<1>2. PackageAssumptions => PackageAssumptions'
  OBVIOUS
<1> QED BY <1>1, <1>2, PackageInvariance, PTL

(* A recovery resets member 1 from the package whose manifest digest the     *)
(* operator retained, and a restore never with another cluster's token.      *)
THEOREM StagedPackageTrusted == PackageAssumptions /\ Pkg!Spec => []Pkg!StagedIsTrusted
<1>1. ASSUME PackageAssumptions, PackageInv PROVE Pkg!StagedIsTrusted
  <2> SUFFICES ASSUME Pkg!Ready
               PROVE  /\ reset.cmd = "recover" => staged["manifest"] = Pkg!Of(Current)
                      /\ reset.token = Pkg!Of(Current)
    BY DEF Pkg!StagedIsTrusted
  <2>1. staged["manifest"] = reset.manifest /\ reset.token = Pkg!Of(Pkg!IdentityIn(reset.manifest))
    BY <1>1 DEF PackageInv, Copied, Trusted, Pkg!Ready, AfterToken
  <2>2. /\ reset.cmd = "recover" => reset.manifest = Pkg!Of(Current)
        /\ reset.cmd = "restore" => reset.token = Pkg!Of(Current)
        /\ reset.cmd \in {"restore", "recover"}
    BY <1>1 DEF PackageInv, Pkg!TypeOK, Pkg!Operations, Trusted, Pkg!Ready, AfterManifest, AfterToken
  <2>3. Pkg!IdentityIn(Pkg!Of(Current)) = Current
    BY <1>1, OfType DEF Pkg!IdentityIn, PackageAssumptions
  <2> QED BY <2>1, <2>2, <2>3
<1>2. PackageAssumptions => PackageAssumptions'
  OBVIOUS
<1> QED BY <1>1, <1>2, PackageInvariance, PTL

(* A reset helper has the whole package for as long as it is there, across   *)
(* deaths and further attempts.                                              *)
THEOREM HelperKeepsPackage == PackageAssumptions /\ Pkg!Spec => []Pkg!HelperHasPackage
<1>1. PackageInv => Pkg!HelperHasPackage
  BY DEF PackageInv, Held
<1>2. PackageAssumptions => PackageAssumptions'
  OBVIOUS
<1> QED BY <1>1, <1>2, PackageInvariance, PTL

(* However the files change between the check of a package and its use, and  *)
(* whatever dies, a reset works with one package, the trusted one, and has   *)
(* it to the end (stageHASnapshotPackage, resetHAMember).                    *)
THEOREM PackageHeld == PackageAssumptions /\ Pkg!Spec => []Pkg!PackageHolds
<1>1. Pkg!StagedFitsManifest /\ Pkg!StagedIsTrusted /\ Pkg!HelperHasPackage => Pkg!PackageHolds
  BY DEF Pkg!PackageHolds
<1> QED BY <1>1, StagedPackageFits, StagedPackageTrusted, HelperKeepsPackage, PTL
=============================================================================
