------------------------- MODULE SingleServer_proofs -------------------------
(***************************************************************************)
(* Proofs about SingleServer, for any set of settings, with the supervisor *)
(* or without, and any number of writes, commands and faults.  A process   *)
(* is a stack of procedures; the invariant says which procedures may be on *)
(* it at each step (OnTrack), and with that what a procedure may rely on   *)
(* from those that called it: that no server runs while a backup or a      *)
(* restore has the volume, unless a supervisor is installed and the        *)
(* runtime mounts it twice, and that whatever deletes or writes over data  *)
(* has them in a published backup, or leave to lose them.  A second        *)
(* invariant, where no supervisor is installed, says what each step of the *)
(* operator's command has brought about (Promises), up to what the command *)
(* reports.                                                                *)
(***************************************************************************)
EXTENDS SingleServer, TLAPS, SequenceTheorems

(* The procedures, by their steps.                                           *)
UpSteps      == {"ensureVolume", "look", "delete", "run", "waitReady", "readKubeconfig", "saveKubeconfig",
                 "truncateConfig", "writeConfig", "setCurrent", "status", "truncateStable", "writeStable"}
ForgetSteps  == {"deleteVolume", "removeConfig", "removeKubeconfig", "clearCurrent"}
DeleteSteps  == {"deleteBegin", "deleteLook", "deleteStop", "deleteEnvelope"} \cup ForgetSteps
BackupSteps  == {"backupLook", "backupStopped", "backupVolume", "archive", "publish", "backupEnd"}
RestoreSteps == {"restoreStopped", "clear", "extract", "truncateManifest", "writeManifest"}
HelperSteps  == {"helperStart", "helperDelete"}
ChangeSteps  == {"changeBegin", "unchanged", "backedUp", "removed", "recreated", "cleaned", "rolledBack"}
Steps        == CommandSteps \cup OtherSteps \cup {"off"}

Creating(r)  == r.pc = "createBegin" \/ (r.pc \in UpSteps /\ r.in = "create")
Starting(r)  == r.pc = "startBegin" \/ (r.pc \in UpSteps /\ r.in = "start")
BackingUp(r) == r.pc \in {"backupBegin", "backupStarted"} \cup BackupSteps \/ (r.pc \in HelperSteps /\ r.in = "backup")
Restoring(r) == \/ r.pc \in {"restoreLook"} \cup RestoreSteps
                \/ r.pc \in {"ensureVolume"} \cup HelperSteps /\ r.in = "restore"

(* Who runs a procedure: a command itself, one of its procedures, or one of  *)
(* those of an upgrade.                                                      *)
Plain(r, C)     == r.cmd \in C /\ r.stack = <<"returned">>
Called(r, C, l) == r.cmd \in C /\ r.stack = <<l, "returned">>
Nested(r, l, m) == r.cmd = "upgrade" /\ r.stack = <<l, m, "returned">>

(* A backup that can be gone back to, A being the backups.                   *)
Has(r, A)  == r.copy \in A
Sure(r, A) == r.cmd = "upgrade" => Has(r, A)

Creates(r, A) ==
  \/ Plain(r, {"create"})
  \/ Called(r, {"upgrade", "policy"}, "recreated") /\ r.keep /\ Sure(r, A)
  \/ Called(r, {"policy"}, "rolledBack")
Starts(r, A) ==
  \/ Plain(r, {"start", "supervise", "restore"})
  \/ Called(r, {"upgrade"}, "rolledBack")
  \/ Called(r, {"backup"}, "backupStarted") /\ (~r.failed => Has(r, A))
  \/ Nested(r, "backupStarted", "backedUp") /\ (~r.failed => Has(r, A))
Stops(r, A) ==
  \/ Plain(r, {"stop"})
  \/ r.in = "backup" /\ (Called(r, {"backup"}, "backupStopped") \/ Nested(r, "backupStopped", "backedUp"))
  \/ /\ r.in = "restore" /\ Has(r, A)
     /\ Called(r, {"restore"}, "restoreStopped") \/ Nested(r, "restoreStopped", "rolledBack")
Deletes(r, A) ==
  \/ Plain(r, {"delete"}) /\ ~r.keep
  \/ Plain(r, {"deleteKeep"}) /\ r.keep
  \/ Called(r, {"upgrade", "policy"}, "removed") /\ r.keep /\ Sure(r, A)
  \/ Called(r, {"policy"}, "cleaned") /\ r.keep
BacksUp(r)  == Plain(r, {"backup"}) \/ Called(r, {"upgrade"}, "backedUp")
Restores(r, A) == (Plain(r, {"restore"}) \/ Called(r, {"upgrade"}, "rolledBack")) /\ Has(r, A)
Changes(r, A) ==
  /\ Plain(r, {"upgrade", "policy"})
  /\ r.pc = "backedUp" => r.cmd = "upgrade" /\ (r.ok => Has(r, A))
  /\ r.pc = "cleaned" => r.cmd = "policy"
  /\ r.pc \in {"removed", "recreated"} => r.keep /\ Sure(r, A)

OnTrack(r, A, g) ==
  /\ r.pc = "returned" => r.stack = <<>>
  /\ Creating(r) => Creates(r, A)
  /\ Starting(r) => Starts(r, A)
  /\ r.pc = "stop" => Stops(r, A)
  /\ r.pc \in DeleteSteps => Deletes(r, A)
  /\ r.pc \in ForgetSteps => ~r.keep
  /\ BackingUp(r) => BacksUp(r)
  /\ Restoring(r) => Restores(r, A)
  /\ r.pc \in ChangeSteps => Changes(r, A)
  /\ r.pc \in UpSteps => r.in \in {"create", "start"} \/ (r.pc = "ensureVolume" /\ r.in = "restore")
  /\ r.pc \in BackupSteps => r.in = "backup"
  /\ r.pc \in RestoreSteps => r.in = "restore"
  /\ r.pc \in HelperSteps => r.in \in {"backup", "restore"}
  /\ (r.pc = "helperDelete" /\ r.in = "backup") \/ r.pc \in {"backupEnd", "backupStarted"}
       => (~r.failed => Has(r, A))
  /\ r.cmd = "delete" => g
  /\ r.pc \in {"idle", "off"} => r.stack = <<>>

States == [cmd : AllCommands \cup {"none", "supervise"}, in : {"none", "create", "start", "backup", "restore"},
           pc : Steps, stack : Seq(OtherSteps), ok : BOOLEAN, seen : {"missing", "stopped", "running"},
           cfg : Configs, goal : Configs, copy : Backups, keep : BOOLEAN, resume : BOOLEAN,
           failed : BOOLEAN, cancelled : BOOLEAN, outcome : {"none", "changed", "restored"}]

Flow ==
  /\ proc \in [Processes -> States]
  /\ \A p \in Processes : OnTrack(proc[p], archives, givenUp)
  /\ proc["supervisor"].cmd \in {"none", "supervise"}
  /\ proc["operator"].cmd \in Commands \cup {"none"} /\ proc["operator"].pc # "off"

World ==
  /\ vm \in [state : {"missing", "stopped", "booting", "ready", "wedged"}, set : Settings]
  /\ volume \in Volumes
  /\ helper \in {"missing", "running", "stopped"}
  /\ config \in Files /\ kubeconfig \in BOOLEAN /\ current \in BOOLEAN
  /\ archives \subseteq Backups /\ works \subseteq Settings /\ shared \in BOOLEAN
  /\ written \in 0..MaxWrites + 1 /\ givenUp \in BOOLEAN
  /\ commands \in Nat /\ faults \in 0..MaxFaults

(* Where the operator's procedures have stopped the server for a backup or a *)
(* restore: no server runs, unless a supervisor is installed, and then none  *)
(* beside the helper, if the runtime refuses.                                *)
Resting(r) ==
  \/ r.pc \in {"backupVolume", "helperStart", "archive", "clear", "extract"}
  \/ r.pc = "ensureVolume" /\ r.in = "restore"
  \/ r.pc \in {"backupStopped", "restoreStopped"} /\ r.ok

Rest ==
  /\ Supervised /\ ~shared /\ helper = "running" => ~Running
  /\ ~Supervised /\ Resting(proc["operator"]) => ~Running

(* What a restore writes over is in a backup, or was given up.               *)
Archived == \E b \in archives : b.data = Data(written)

IInv == Flow /\ World /\ Rest /\ DataSurvives

-----------------------------------------------------------------------------
(* How a process goes on                                                     *)

LEMMA ConfigIs == AnyConfig \in Configs /\ AnyBackup \in Backups
BY SettingsAssumption, BoundsAssumption DEF AnyConfig, AnyBackup, Configs, Backups, Volumes, NoData

LEMMA Frames ==
  ASSUME NEW a \in OtherSteps, NEW b \in OtherSteps, NEW c \in OtherSteps
  PROVE  /\ Head(<<a>>) = a /\ Tail(<<a>>) = <<>>
         /\ Head(<<a, b>>) = a /\ Tail(<<a, b>>) = <<b>>
         /\ Head(<<a, b, c>>) = a /\ Tail(<<a, b, c>>) = <<b, c>>
         /\ <<a>> \o <<b>> = <<a, b>> /\ <<a>> \o <<b, c>> = <<a, b, c>>
<1>1. <<a>> \o <<b>> = <<a, b>>
  <2>1. /\ <<a>> \o <<b>> \in Seq(OtherSteps) /\ Len(<<a>> \o <<b>>) = 2
        /\ <<a, b>> \in Seq(OtherSteps) /\ Len(<<a, b>>) = 2
    OBVIOUS
  <2>2. \A i \in 1..2 : (<<a>> \o <<b>>)[i] = <<a, b>>[i]
    OBVIOUS
  <2> QED BY <2>1, <2>2, SeqEqual
<1>2. <<a>> \o <<b, c>> = <<a, b, c>>
  <2>1. /\ <<a>> \o <<b, c>> \in Seq(OtherSteps) /\ Len(<<a>> \o <<b, c>>) = 3
        /\ <<a, b, c>> \in Seq(OtherSteps) /\ Len(<<a, b, c>>) = 3
    OBVIOUS
  <2>2. \A i \in 1..3 : (<<a>> \o <<b, c>>)[i] = <<a, b, c>>[i]
    OBVIOUS
  <2> QED BY <2>1, <2>2, SeqEqual
<1>3. Head(<<a>>) = a /\ Tail(<<a>>) = <<>> /\ Head(<<a, b>>) = a /\ Tail(<<a, b>>) = <<b>>
  OBVIOUS
<1>4. Head(<<a, b, c>>) = a /\ Tail(<<a, b, c>>) = <<b, c>>
  OBVIOUS
<1> QED BY <1>1, <1>2, <1>3, <1>4

(* All but where the process is.                                             *)
Like(q, r) ==
  /\ q.cmd = r.cmd /\ q.in = r.in /\ q.seen = r.seen /\ q.cfg = r.cfg /\ q.goal = r.goal
  /\ q.copy = r.copy /\ q.keep = r.keep /\ q.resume = r.resume /\ q.failed = r.failed
  /\ q.cancelled = r.cancelled /\ q.outcome = r.outcome

LEMMA Going ==
  ASSUME NEW r \in States, NEW s \in Steps
  PROVE  LET q == [r EXCEPT !.pc = s]
         IN q \in States /\ q.pc = s /\ q.stack = r.stack /\ q.ok = r.ok /\ Like(q, r)
BY DEF States, Like

LEMMA Calls ==
  ASSUME NEW r \in States, NEW s \in Steps, NEW l \in OtherSteps
  PROVE  LET q == Calling(r, s, l)
         IN q \in States /\ q.pc = s /\ q.stack = <<l>> \o r.stack /\ q.ok = r.ok /\ Like(q, r)
<1>1. <<l>> \o r.stack \in Seq(OtherSteps)
  BY DEF States
<1> DEFINE t == <<l>> \o r.stack
<1>2. t \in Seq(OtherSteps) /\ Calling(r, s, l) = [r EXCEPT !.pc = s, !.stack = t]
  BY <1>1 DEF Calling
<1> HIDE DEF t
<1>3. LET q == [r EXCEPT !.pc = s, !.stack = t]
      IN q \in States /\ q.pc = s /\ q.stack = t /\ q.ok = r.ok /\ Like(q, r)
  BY <1>2 DEF States, Like
<1> QED BY <1>2, <1>3 DEF t

LEMMA Comesback ==
  ASSUME NEW r \in States, NEW ok \in BOOLEAN, r.stack # <<>>
  PROVE  LET q == Returning(r, ok)
         IN q \in States /\ q.pc = Head(r.stack) /\ q.stack = Tail(r.stack) /\ q.ok = ok /\ Like(q, r)
<1>1. Head(r.stack) \in Steps /\ Tail(r.stack) \in Seq(OtherSteps)
  BY DEF States, Steps
<1> DEFINE t == Tail(r.stack)
           s == Head(r.stack)
<1>2. t \in Seq(OtherSteps) /\ s \in Steps /\ Returning(r, ok) = [r EXCEPT !.pc = s, !.stack = t, !.ok = ok]
  BY <1>1 DEF Returning
<1> HIDE DEF t, s
<1>3. LET q == [r EXCEPT !.pc = s, !.stack = t, !.ok = ok]
      IN q \in States /\ q.pc = s /\ q.stack = t /\ q.ok = ok /\ Like(q, r)
  BY <1>2 DEF States, Like
<1> QED BY <1>2, <1>3 DEF t, s

LEMMA IdleIs == /\ Idle \in States /\ Idle.pc = "idle" /\ Idle.cmd = "none" /\ Idle.stack = <<>>
                /\ Idle.outcome = "none" /\ Idle.resume = FALSE
BY ConfigIs DEF Idle, States, Steps, OtherSteps

LEMMA Here ==
  ASSUME Flow, NEW p \in Processes
  PROVE  /\ proc[p] \in States /\ OnTrack(proc[p], archives, givenUp)
         /\ proc[p].pc \in Steps /\ proc[p].cfg \in Configs /\ proc[p].goal \in Configs
         /\ proc[p].copy \in Backups /\ proc[p].stack \in Seq(OtherSteps)
BY DEF Flow, States

(* Backups and losses stay, so the tracks do.                                *)
LEMMA TrackStays ==
  ASSUME NEW r, NEW A, NEW B, NEW g, NEW h, OnTrack(r, A, g), A \subseteq B, g => h
  PROVE  OnTrack(r, B, h)
<1>1. Has(r, A) => Has(r, B)
  BY DEF Has
<1>2. Sure(r, A) => Sure(r, B)
  BY <1>1 DEF Sure
<1>3. /\ Creates(r, A) => Creates(r, B)
      /\ Deletes(r, A) => Deletes(r, B)
      /\ Starts(r, A) => Starts(r, B)
      /\ Stops(r, A) => Stops(r, B)
  BY <1>1, <1>2 DEF Creates, Starts, Stops, Deletes
<1>4. (Restores(r, A) => Restores(r, B)) /\ (Changes(r, A) => Changes(r, B))
  BY <1>1, <1>2 DEF Restores, Changes
<1> QED BY <1>1, <1>3, <1>4 DEF OnTrack

(* A turn of a process keeps the invariant if it stays on its track, if the  *)
(* data survives it, and if it is sure that no server runs where it must not. *)
LEMMA TurnTo ==
  ASSUME IInv, NEW p \in Processes, NEW r \in States, Becomes(p, r), OnTrack(r, archives', givenUp'),
         proc[p].pc # "off", r.pc # "off",
         r.cmd \in (IF p = "operator" THEN Commands ELSE {"supervise"}) \cup {"none"},
         World', archives \subseteq archives', givenUp => givenUp', written' = written, shared' = shared, DataSurvives',
         Supervised /\ ~shared /\ helper' = "running" => ~Running',
         p = "operator" /\ ~Supervised /\ Resting(r) => ~Running',
         p = "supervisor" => helper' = helper
  PROVE  IInv'
<1>1. /\ proc' \in [Processes -> States] /\ proc'[p] = r
      /\ \A q \in Processes : q # p => proc'[q] = proc[q]
  BY DEF IInv, Flow, Becomes
<1>2. Flow'
  <2>1. ASSUME NEW q \in Processes PROVE OnTrack(proc'[q], archives', givenUp')
    BY <1>1, TrackStays DEF IInv, Flow
  <2> QED BY <1>1, <2>1 DEF IInv, Flow, Processes
<1>3. Supervised' = Supervised
  BY <1>1 DEF Supervised, At, Processes
<1>4. Archived => Archived'
  BY DEF Archived
<1>5. CASE p = "operator"
  BY <1>1, <1>2, <1>3, <1>4, <1>5 DEF IInv, Rest, At, Resting
<1>6. CASE p = "supervisor"
  <2>1. proc'["operator"] = proc["operator"] /\ Supervised /\ helper' = helper
    BY <1>1, <1>6 DEF Processes, Supervised, At
  <2> QED BY <1>2, <1>3, <1>4, <2>1 DEF IInv, Rest, At
<1> QED BY <1>5, <1>6 DEF Processes

LEMMA TurnKeeps ==
  ASSUME IInv, NEW p \in Processes, NEW r \in States, Becomes(p, r), OnTrack(r, archives', givenUp'),
         proc[p].pc # "off", r.pc # "off", r.cmd \in {proc[p].cmd, "none"},
         World', archives \subseteq archives', givenUp => givenUp', written' = written, shared' = shared, DataSurvives',
         Supervised /\ ~shared /\ helper' = "running" => ~Running',
         p = "operator" /\ ~Supervised /\ Resting(r) => ~Running',
         p = "supervisor" => helper' = helper
  PROVE  IInv'
<1>1. r.cmd \in (IF p = "operator" THEN Commands ELSE {"supervise"}) \cup {"none"}
  BY DEF IInv, Flow, Processes
<1> QED BY <1>1, TurnTo

(* A turn that leaves the containers, the volume and the backups alone.      *)
Quiet == UNCHANGED <<vm, volume, helper, archives, history, faults>>

LEMMA QuietKeeps ==
  ASSUME IInv, NEW p \in Processes, NEW r \in States, Becomes(p, r), OnTrack(r, archives, givenUp),
         proc[p].pc # "off", r.pc # "off", r.cmd \in {proc[p].cmd, "none"}, Quiet,
         config' \in Files, kubeconfig' \in BOOLEAN, current' \in BOOLEAN,
         ~Supervised /\ p = "operator" /\ Resting(r) => ~Running, r.pc # "extract"
  PROVE  IInv'
<1>1. World' /\ DataSurvives' /\ Running' = Running
  BY DEF IInv, Quiet, World, history, DataSurvives, Running
<1>2. /\ archives' = archives /\ givenUp' = givenUp /\ written' = written /\ helper' = helper
      /\ shared' = shared
  BY DEF Quiet, history
<1>3. Supervised /\ ~shared /\ helper' = "running" => ~Running'
  BY <1>1, <1>2 DEF IInv, Rest
<1>4. archives \subseteq archives' /\ OnTrack(r, archives', givenUp')
  BY <1>2
<1> QED BY <1>1, <1>2, <1>3, <1>4, TurnKeeps

USE DEF UpSteps, ForgetSteps, DeleteSteps, BackupSteps, RestoreSteps, HelperSteps, ChangeSteps, Creating, Starting,
        BackingUp, Restoring

(* Every step but the first and the last is one of a procedure that somebody *)
(* runs.                                                                     *)
Framed(r, A) == \/ Creates(r, A) \/ Starts(r, A) \/ Stops(r, A) \/ Deletes(r, A)
                \/ BacksUp(r) \/ Restores(r, A) \/ Changes(r, A)

LEMMA Framing ==
  ASSUME NEW r \in States, NEW A, NEW g, OnTrack(r, A, g), r.pc \notin {"idle", "off", "returned"}
  PROVE  Framed(r, A)
<1>1. r.pc \in UpSteps \cup DeleteSteps \cup BackupSteps \cup RestoreSteps \cup HelperSteps \cup ChangeSteps
               \cup {"createBegin", "startBegin", "stop", "backupBegin", "backupStarted", "restoreLook"}
  BY DEF States, Steps, CommandSteps, OtherSteps
<1> QED BY <1>1 DEF OnTrack, Framed

(* A procedure returns to the one that called it.                            *)
Labels == {"returned", "backupStopped", "backupStarted", "restoreStopped", "backedUp", "removed", "recreated",
           "cleaned", "rolledBack"}

LEMMA ComesBack ==
  ASSUME NEW r \in States, NEW A, NEW g, Framed(r, A), r.cmd = "delete" => g, NEW ok \in BOOLEAN,
         Called(r, {"upgrade"}, "backedUp") /\ ok => Has(r, A)
  PROVE  LET q == Returning(r, ok)
         IN /\ q \in States /\ OnTrack(q, A, g) /\ q.ok = ok /\ Like(q, r)
            /\ q.pc \in Labels
            /\ q.pc = Head(r.stack)
<1> DEFINE q == Returning(r, ok)
<1>0. Labels \subseteq OtherSteps
  BY DEF OtherSteps, Labels
<1>1. r.stack # <<>>
  BY DEF Framed, Creates, Starts, Stops, Deletes, BacksUp, Restores, Changes, Plain, Called, Nested
<1>2. q \in States /\ q.pc = Head(r.stack) /\ q.stack = Tail(r.stack) /\ q.ok = ok /\ Like(q, r)
  BY <1>1, Comesback
<1> SUFFICES OnTrack(q, A, g) /\ q.pc \in Labels
  BY <1>2
<1> HIDE DEF q
<1>3. ASSUME NEW C, Plain(r, C) PROVE q.pc = "returned" /\ q.stack = <<>>
  BY <1>0, <1>2, <1>3, Frames DEF Plain
<1>4. ASSUME NEW C, NEW l \in OtherSteps, Called(r, C, l)
      PROVE  q.pc = l /\ q.stack = <<"returned">> /\ q.cmd \in C
  BY <1>0, <1>2, <1>4, Frames DEF Called, Like
<1>5. ASSUME NEW l \in OtherSteps, NEW m \in OtherSteps, Nested(r, l, m)
      PROVE  q.pc = l /\ q.stack = <<m, "returned">> /\ q.cmd = "upgrade"
  BY <1>0, <1>2, <1>5, Frames DEF Nested, Like
<1> USE DEF Like, Labels
<1>6. CASE \E C : Plain(r, C)
  BY <1>2, <1>3, <1>6 DEF OnTrack
<1>7. CASE Called(r, {"upgrade", "policy"}, "recreated") /\ r.keep /\ Sure(r, A)
  BY <1>0, <1>2, <1>4, <1>7 DEF OnTrack, Changes, Plain, Sure, Has
<1>8. CASE Called(r, {"policy"}, "rolledBack") \/ Called(r, {"upgrade"}, "rolledBack")
  BY <1>0, <1>2, <1>4, <1>8 DEF OnTrack, Changes, Plain
<1>9. CASE Called(r, {"backup"}, "backupStarted") /\ (~r.failed => Has(r, A))
  BY <1>0, <1>2, <1>4, <1>9 DEF OnTrack, BacksUp, Plain, Has
<1>10. CASE Nested(r, "backupStarted", "backedUp") /\ (~r.failed => Has(r, A))
  BY <1>0, <1>2, <1>5, <1>10 DEF OnTrack, BacksUp, Called, Has
<1>11. CASE r.in = "backup" /\ Called(r, {"backup"}, "backupStopped")
  BY <1>0, <1>2, <1>4, <1>11 DEF OnTrack, BacksUp, Plain
<1>12. CASE r.in = "backup" /\ Nested(r, "backupStopped", "backedUp")
  BY <1>0, <1>2, <1>5, <1>12 DEF OnTrack, BacksUp, Called
<1>13. CASE r.in = "restore" /\ Has(r, A) /\ Called(r, {"restore"}, "restoreStopped")
  BY <1>0, <1>2, <1>4, <1>13 DEF OnTrack, Restores, Plain, Has
<1>14. CASE r.in = "restore" /\ Has(r, A) /\ Nested(r, "restoreStopped", "rolledBack")
  BY <1>0, <1>2, <1>5, <1>14 DEF OnTrack, Restores, Called, Has
<1>15. CASE Called(r, {"upgrade", "policy"}, "removed") /\ r.keep /\ Sure(r, A)
  BY <1>0, <1>2, <1>4, <1>15 DEF OnTrack, Changes, Plain, Sure, Has
<1>16. CASE Called(r, {"policy"}, "cleaned")
  BY <1>0, <1>2, <1>4, <1>16 DEF OnTrack, Changes, Plain
<1>17. CASE Called(r, {"upgrade"}, "backedUp")
  BY <1>0, <1>2, <1>4, <1>17 DEF OnTrack, Changes, Plain, Has
<1> QED BY <1>6, <1>7, <1>8, <1>9, <1>10, <1>11, <1>12, <1>13, <1>14, <1>15, <1>16, <1>17
        DEF Framed, Creates, Starts, Stops, Deletes, BacksUp, Restores, Changes

LEMMA SameFrame ==
  ASSUME NEW q, NEW r, Like(q, r), q.stack = r.stack, NEW A
  PROVE  /\ Creates(q, A) <=> Creates(r, A)
         /\ Starts(q, A) <=> Starts(r, A)
         /\ Stops(q, A) <=> Stops(r, A)
         /\ Deletes(q, A) <=> Deletes(r, A)
         /\ BacksUp(q) <=> BacksUp(r)
         /\ Restores(q, A) <=> Restores(r, A)
         /\ Has(q, A) <=> Has(r, A)
         /\ Sure(q, A) <=> Sure(r, A)
         /\ \A C : Plain(q, C) <=> Plain(r, C)
BY DEF Like, Creates, Starts, Stops, Deletes, BacksUp, Restores, Has, Sure, Plain, Called, Nested

LEMMA Goes ==
  ASSUME Flow, NEW p \in Processes, NEW s \in Steps
  PROVE  /\ Goto(p, s) \in States /\ Goto(p, s).pc = s /\ Goto(p, s).stack = proc[p].stack
         /\ Goto(p, s).ok = proc[p].ok /\ Like(Goto(p, s), proc[p])
BY Here, Going DEF Goto

(* A process goes on to a step that is on its track.                         *)
LEMMA GoesKeeps ==
  ASSUME IInv, NEW p \in Processes, NEW s \in Steps, Becomes(p, Goto(p, s)), Quiet,
         OnTrack(Goto(p, s), archives, givenUp), proc[p].pc # "off", s \notin {"off", "extract"},
         config' \in Files, kubeconfig' \in BOOLEAN, current' \in BOOLEAN,
         ~Supervised /\ p = "operator" /\ Resting(Goto(p, s)) => ~Running
  PROVE  IInv'
<1> DEFINE q == Goto(p, s)
<1>1. q \in States /\ q.pc = s /\ q.cmd = proc[p].cmd
  BY Goes DEF IInv, Like
<1>2. Becomes(p, q) /\ OnTrack(q, archives, givenUp) /\ (~Supervised /\ p = "operator" /\ Resting(q) => ~Running)
  OBVIOUS
<1> HIDE DEF q
<1> QED BY <1>1, <1>2, QuietKeeps

(* A procedure returns.                                                      *)
LEMMA ReturnsKeep ==
  ASSUME IInv, NEW p \in Processes, NEW ok \in BOOLEAN, Becomes(p, Returns(p, ok)), Quiet,
         proc[p].pc \notin {"idle", "off", "returned"},
         config' \in Files, kubeconfig' \in BOOLEAN, current' \in BOOLEAN,
         Called(proc[p], {"upgrade"}, "backedUp") /\ ok => Has(proc[p], archives),
         ok => proc[p].pc # "stop"
  PROVE  IInv'
<1> DEFINE q == Returns(p, ok)
<1>1. Framed(proc[p], archives) /\ (proc[p].cmd = "delete" => givenUp) /\ OnTrack(proc[p], archives, givenUp)
  BY Here, Framing DEF IInv, OnTrack
<1>2. /\ q \in States /\ OnTrack(q, archives, givenUp) /\ q.ok = ok /\ Like(q, proc[p]) /\ q.pc \in Labels
      /\ q.pc = Head(proc[p].stack)
  BY <1>1, Here, ComesBack DEF Returns, IInv
<1>3. Resting(q) => ~ok
  <2>1. CASE proc[p].stack \in {<<"backupStopped", "returned">>, <<"backupStopped", "backedUp", "returned">>,
                <<"restoreStopped", "returned">>, <<"restoreStopped", "rolledBack", "returned">>}
    BY <1>1, <2>1, Here DEF IInv, OnTrack, States, Steps, CommandSteps, OtherSteps, Creates, Starts, Deletes, BacksUp, Restores,
       Changes, Plain, Called, Nested
  <2>2. CASE proc[p].stack \notin {<<"backupStopped", "returned">>, <<"backupStopped", "backedUp", "returned">>,
                <<"restoreStopped", "returned">>, <<"restoreStopped", "rolledBack", "returned">>}
    <3>1. {"returned", "backupStarted", "backedUp", "removed", "recreated", "cleaned", "rolledBack"} \subseteq OtherSteps
      BY DEF OtherSteps
    <3>2. Head(proc[p].stack) \notin {"backupStopped", "restoreStopped"}
      BY <1>1, <2>2, <3>1, Frames DEF Framed, Creates, Starts, Stops, Deletes, BacksUp, Restores, Changes, Plain, Called,
         Nested
    <3> QED BY <1>2, <3>2 DEF Resting, Labels
  <2> QED BY <2>1, <2>2
<1>4. Resting(q) => q.ok
  BY <1>2 DEF Resting, Labels
<1>5. Becomes(p, q) /\ q.pc \notin {"off", "extract"} /\ q.cmd = proc[p].cmd
  BY <1>2 DEF Labels, Like
<1> HIDE DEF q
<1> QED BY <1>2, <1>3, <1>4, <1>5, QuietKeeps

-----------------------------------------------------------------------------
(* Steps that only look at the runtime, or write the files.                  *)

Still == /\ config' \in Files /\ kubeconfig' \in BOOLEAN /\ current' \in BOOLEAN

LEMMA Unmoved == ASSUME IInv, UNCHANGED <<runtime, files, history, faults>> PROVE Quiet /\ Still /\ config \in Files
BY DEF IInv, World, runtime, files, Quiet, Still

LEMMA Names == /\ CommandSteps \subseteq Steps /\ OtherSteps \subseteq Steps /\ Labels \subseteq OtherSteps
               /\ UpSteps \cup DeleteSteps \cup BackupSteps \cup RestoreSteps \cup HelperSteps \cup ChangeSteps \subseteq Steps
               /\ {"createBegin", "startBegin", "stop", "backupBegin", "backupStarted", "restoreLook", "idle"} \subseteq Steps
BY DEF Steps, CommandSteps, OtherSteps, Labels

(* The steps that Create and Start share, once the server is launched.       *)
LEMMA LookingKeeps ==
  ASSUME IInv, NEW p \in Processes, WaitReady(p) \/ ReadKubeconfig(p) \/ Look(p) \/ CreateBegin(p)
  PROVE  IInv'
<1>1. Quiet /\ Still
  BY Unmoved DEF WaitReady, ReadKubeconfig, Look, CreateBegin
<1>2. proc[p] \in States /\ OnTrack(proc[p], archives, givenUp)
  BY Here DEF IInv
<1>3. ASSUME NEW s \in {"readKubeconfig", "saveKubeconfig"}, Becomes(p, Goto(p, s)),
             At(p, "waitReady") \/ At(p, "readKubeconfig")
      PROVE  IInv'
  <2>1. s \in Steps
    BY Names
  <2>2. OnTrack(Goto(p, s), archives, givenUp)
    BY <1>2, <1>3, <2>1, Goes, SameFrame DEF IInv, At, OnTrack, Like
  <2>3. ~Resting(Goto(p, s))
    BY <2>1, Goes DEF IInv, Resting
  <2> QED BY <1>1, <1>3, <2>1, <2>2, <2>3, GoesKeeps DEF At, Still
<1>4. CASE CreateBegin(p)
  <2> DEFINE q == Goto(p, "ensureVolume")
             r == [q EXCEPT !.in = "create"]
  <2>1. q \in States /\ q.pc = "ensureVolume" /\ q.stack = proc[p].stack /\ q.ok = proc[p].ok /\ Like(q, proc[p])
    BY Goes, Names DEF IInv
  <2>2. Becomes(p, r) /\ At(p, "createBegin")
    BY <1>4 DEF CreateBegin
  <2> HIDE DEF q
  <2>3. /\ r \in States /\ r.pc = "ensureVolume" /\ r.in = "create" /\ r.cmd = q.cmd /\ r.stack = q.stack
        /\ r.keep = q.keep /\ r.copy = q.copy /\ r.failed = q.failed
    BY <2>1 DEF States
  <2> HIDE DEF r
  <2>4. Creates(r, archives) /\ (r.cmd = "delete" => givenUp) /\ r.cmd = proc[p].cmd
    BY <1>2, <2>1, <2>2, <2>3 DEF OnTrack, At, Like, Creates, Plain, Called, Sure, Has
  <2>5. OnTrack(r, archives, givenUp) /\ ~Resting(r)
    BY <2>3, <2>4 DEF OnTrack, Resting
  <2> QED BY <1>1, <2>2, <2>3, <2>4, <2>5, QuietKeeps DEF At, Still
<1>5. CASE Look(p)
  <2>1. PICK s \in {"waitReady", "ensureVolume", "delete", "run"}, c \in Configs :
          /\ Becomes(p, [Goto(p, s) EXCEPT !.seen = Seen, !.cfg = c])
          /\ At(p, "look")
    <3>1. proc[p].cfg \in Configs /\ config.cfg \in Configs
      BY <1>2 DEF States, IInv, World, Files
    <3>2. proc[p].cfg = Goto(p, "waitReady").cfg /\ proc[p].cfg = Goto(p, "ensureVolume").cfg
          /\ proc[p].cfg = Goto(p, "delete").cfg /\ proc[p].cfg = Goto(p, "run").cfg
      BY Goes, Names DEF IInv, Like
    <3> QED BY <1>5, <3>1, <3>2 DEF Look, Runs
  <2> DEFINE q == Goto(p, s)
             r == [q EXCEPT !.seen = Seen, !.cfg = c]
  <2>2. q \in States /\ q.pc = s /\ q.stack = proc[p].stack /\ q.ok = proc[p].ok /\ Like(q, proc[p])
    BY Goes, Names DEF IInv
  <2>3. Seen \in {"missing", "stopped", "running"}
    BY DEF IInv, World, Seen, Running
  <2> HIDE DEF q
  <2>4. /\ r \in States /\ r.pc = s /\ r.in = q.in /\ r.cmd = q.cmd /\ r.stack = q.stack
        /\ r.keep = q.keep /\ r.copy = q.copy /\ r.failed = q.failed
    BY <2>2, <2>3 DEF States
  <2>5. Becomes(p, r)
    BY <2>1 DEF q
  <2> HIDE DEF r
  <2>6. /\ Creates(proc[p], archives) => Creates(r, archives)
        /\ Starts(proc[p], archives) => Starts(r, archives)
        /\ r.cmd = proc[p].cmd /\ r.in = proc[p].in
    BY <2>2, <2>4 DEF Like, Creates, Starts, Plain, Called, Nested, Sure, Has
  <2>7. OnTrack(r, archives, givenUp) /\ ~Resting(r)
    BY <1>2, <2>1, <2>4, <2>6 DEF OnTrack, Resting, At
  <2> QED BY <1>1, <2>1, <2>4, <2>5, <2>6, <2>7, QuietKeeps DEF At, Still
<1> QED BY <1>3, <1>4, <1>5 DEF WaitReady, ReadKubeconfig, Runs

(* What the frame of a process depends on.                                   *)
Kept(q, r) == /\ q.cmd = r.cmd /\ q.stack = r.stack /\ q.keep = r.keep /\ q.copy = r.copy /\ q.failed = r.failed

LEMMA KeptFrame ==
  ASSUME NEW q, NEW r, Kept(q, r), NEW A
  PROVE  /\ Creates(q, A) <=> Creates(r, A)
         /\ Starts(q, A) <=> Starts(r, A)
         /\ Deletes(q, A) <=> Deletes(r, A)
         /\ BacksUp(q) <=> BacksUp(r)
         /\ Restores(q, A) <=> Restores(r, A)
         /\ Has(q, A) <=> Has(r, A)
         /\ Sure(q, A) <=> Sure(r, A)
         /\ \A C : Plain(q, C) <=> Plain(r, C)
BY DEF Kept, Creates, Starts, Deletes, BacksUp, Restores, Has, Sure, Plain, Called, Nested

LEMMA StartBeginKeeps == ASSUME IInv, NEW p \in Processes, StartBegin(p) PROVE IInv'
<1>1. Quiet /\ Still /\ At(p, "startBegin")
  BY Unmoved DEF StartBegin
<1>2. proc[p] \in States /\ OnTrack(proc[p], archives, givenUp)
  BY Here DEF IInv
<1>3. Starts(proc[p], archives)
  BY <1>1, <1>2 DEF OnTrack, At
<1>4. CASE config.state # "whole"
  <2>1. Becomes(p, Returns(p, FALSE))
    BY <1>4 DEF StartBegin
  <2> QED BY <1>1, <2>1, ReturnsKeep DEF At, Still
<1>5. CASE config.state = "whole"
  <2> DEFINE q == Goto(p, "look")
             r == [q EXCEPT !.in = "start", !.cfg = config.cfg]
  <2>1. q \in States /\ q.pc = "look" /\ q.stack = proc[p].stack /\ Like(q, proc[p])
    BY Goes, Names DEF IInv
  <2>2. config.cfg \in Configs
    BY DEF IInv, World, Files
  <2>3. Becomes(p, r)
    BY <1>5 DEF StartBegin
  <2> HIDE DEF q
  <2>4. r \in States /\ r.pc = "look" /\ r.in = "start" /\ Kept(r, q) /\ Kept(r, proc[p])
    BY <2>1, <2>2 DEF States, Kept, Like
  <2> HIDE DEF r
  <2>5. OnTrack(r, archives, givenUp) /\ ~Resting(r) /\ r.cmd = proc[p].cmd
    BY <1>2, <1>3, <2>4, KeptFrame DEF OnTrack, Resting, Kept
  <2> QED BY <1>1, <2>3, <2>4, <2>5, QuietKeeps DEF At, Still
<1> QED BY <1>4, <1>5

LEMMA FileStill == ASSUME IInv PROVE
  /\ UNCHANGED <<runtime, config, current, archives, history, faults>> /\ kubeconfig' \in BOOLEAN => Quiet /\ Still
  /\ UNCHANGED <<runtime, config, kubeconfig, archives, history, faults>> /\ current' \in BOOLEAN => Quiet /\ Still
  /\ UNCHANGED <<runtime, kubeconfig, current, archives, history, faults>> /\ config' \in Files => Quiet /\ Still
BY DEF IInv, World, runtime, Quiet, Still

LEMMA SaveKubeconfigKeeps == ASSUME IInv, NEW p \in Processes, SaveKubeconfig(p) PROVE IInv'
<1>1. Quiet /\ Still /\ At(p, "saveKubeconfig") /\ Becomes(p, Goto(p, "truncateConfig"))
  BY FileStill DEF SaveKubeconfig
<1>2. /\ OnTrack(proc[p], archives, givenUp) /\ Goto(p, "truncateConfig").pc = "truncateConfig"
      /\ Goto(p, "truncateConfig").stack = proc[p].stack /\ Like(Goto(p, "truncateConfig"), proc[p])
  BY Here, Goes, Names DEF IInv
<1>3. OnTrack(Goto(p, "truncateConfig"), archives, givenUp) /\ ~Resting(Goto(p, "truncateConfig"))
  BY <1>1, <1>2, SameFrame DEF At, OnTrack, Like, Resting
<1> QED BY <1>1, <1>3, GoesKeeps, Names DEF At, Still

LEMMA TruncateConfigKeeps == ASSUME IInv, NEW p \in Processes, TruncateConfig(p) PROVE IInv'
<1>1. Quiet /\ Still
  <2>1. config' \in Files
    BY ConfigIs DEF TruncateConfig, Files
  <2> QED BY <2>1, FileStill DEF TruncateConfig
<1>2. PICK s \in {"writeConfig", "writeStable", "writeManifest"} :
        /\ Becomes(p, Goto(p, s))
        /\ s = "writeConfig" => At(p, "truncateConfig")
        /\ s = "writeStable" => At(p, "truncateStable")
        /\ s = "writeManifest" => At(p, "truncateManifest")
  BY DEF TruncateConfig, At
<1>3. /\ OnTrack(proc[p], archives, givenUp) /\ Goto(p, s).pc = s /\ Goto(p, s).stack = proc[p].stack
      /\ Like(Goto(p, s), proc[p])
  BY Here, Goes, Names DEF IInv
<1>4. OnTrack(Goto(p, s), archives, givenUp) /\ ~Resting(Goto(p, s))
  BY <1>2, <1>3, SameFrame DEF At, OnTrack, Like, Resting
<1> QED BY <1>1, <1>2, <1>4, GoesKeeps, Names DEF At, Still

LEMMA WriteConfigKeeps == ASSUME IInv, NEW p \in Processes, WriteConfig(p) PROVE IInv'
<1>1. Quiet /\ Still
  <2>1. proc[p].cfg \in Configs /\ proc[p].copy.cfg \in Configs
    BY Here DEF IInv, Backups
  <2>2. config' \in Files
    BY <2>1 DEF WriteConfig, Files
  <2> QED BY <2>2, FileStill DEF WriteConfig
<1>2. OnTrack(proc[p], archives, givenUp)
  BY Here DEF IInv
<1>3. CASE At(p, "writeStable")
  <2>1. Becomes(p, Returns(p, TRUE))
    BY <1>3 DEF WriteConfig, At
  <2>2. ~Called(proc[p], {"upgrade"}, "backedUp")
    BY <1>2, <1>3 DEF At, OnTrack, Creates, Starts, Plain, Called, Nested
  <2> QED BY <1>1, <1>3, <2>1, <2>2, ReturnsKeep DEF At, Still
<1>4. CASE At(p, "writeManifest") \/ At(p, "writeConfig")
  <2>1. PICK s \in {"startBegin", "setCurrent", "status"} :
          Becomes(p, Goto(p, s)) /\ (s = "startBegin" <=> At(p, "writeManifest"))
    BY <1>4 DEF WriteConfig, At
  <2>2. /\ Goto(p, s).pc = s /\ Goto(p, s).stack = proc[p].stack /\ Like(Goto(p, s), proc[p])
    BY Goes, Names DEF IInv
  <2>3. At(p, "writeManifest") => Starts(proc[p], archives)
    BY <1>2 DEF At, OnTrack, Restores, Starts, Plain, Called
  <2>4. OnTrack(Goto(p, s), archives, givenUp) /\ ~Resting(Goto(p, s))
    BY <1>2, <1>4, <2>1, <2>2, <2>3, SameFrame DEF At, OnTrack, Like, Resting
  <2> QED BY <1>1, <1>4, <2>1, <2>4, GoesKeeps, Names DEF At, Still
<1> QED BY <1>3, <1>4 DEF WriteConfig, At

(* The last step of Create and of Start.                                     *)
LEMMA FinishKeeps ==
  ASSUME IInv, NEW p \in Processes, proc[p].pc \in {"setCurrent", "status"}, Becomes(p, Finished(proc[p])), Quiet, Still
  PROVE  IInv'
<1>1. proc[p] \in States /\ OnTrack(proc[p], archives, givenUp)
  BY Here DEF IInv
<1>2. ~Called(proc[p], {"upgrade"}, "backedUp")
  BY <1>1 DEF OnTrack, Creates, Starts, Plain, Called, Nested
<1>3. CASE Becomes(p, Returns(p, TRUE))
  BY <1>2, <1>3, ReturnsKeep DEF Still
<1>4. CASE Becomes(p, [proc[p] EXCEPT !.pc = "truncateStable", !.cfg.stable = TRUE])
  <2> DEFINE q == Goto(p, "truncateStable")
             c == [proc[p].cfg EXCEPT !.stable = TRUE]
             r == [q EXCEPT !.cfg = c]
  <2>1. q \in States /\ q.pc = "truncateStable" /\ q.stack = proc[p].stack /\ Like(q, proc[p])
    BY Goes, Names DEF IInv
  <2>2. c \in Configs
    BY Here DEF IInv, Configs
  <2>3. Becomes(p, r)
    BY <1>4, <1>1 DEF Goto, States
  <2> HIDE DEF q, c
  <2>4. r \in States /\ r.pc = "truncateStable" /\ r.in = proc[p].in /\ Kept(r, proc[p])
    BY <2>1, <2>2 DEF States, Kept, Like
  <2> HIDE DEF r
  <2>5. OnTrack(r, archives, givenUp) /\ ~Resting(r) /\ r.cmd = proc[p].cmd
    BY <1>1, <2>4, KeptFrame DEF OnTrack, Resting, Kept
  <2> QED BY <2>3, <2>4, <2>5, QuietKeeps DEF Still
<1> QED BY <1>3, <1>4 DEF Finished, Returns

LEMMA SetCurrentKeeps == ASSUME IInv, NEW p \in Processes, SetCurrent(p) \/ ReadStatus(p) PROVE IInv'
<1>1. Quiet /\ Still /\ proc[p].pc \in {"setCurrent", "status"}
  BY FileStill, Unmoved DEF SetCurrent, ReadStatus, Runs, At
<1>2. CASE Becomes(p, Finished(proc[p]))
  BY <1>1, <1>2, FinishKeeps
<1>3. CASE Becomes(p, Goto(p, "status")) \/ Becomes(p, Goto(p, "setCurrent"))
  <2>1. PICK s \in {"status", "setCurrent"} : Becomes(p, Goto(p, s))
    BY <1>3
  <2>2. /\ OnTrack(proc[p], archives, givenUp) /\ Goto(p, s).pc = s /\ Goto(p, s).stack = proc[p].stack
        /\ Like(Goto(p, s), proc[p])
    BY Here, Goes, Names DEF IInv
  <2>3. OnTrack(Goto(p, s), archives, givenUp) /\ ~Resting(Goto(p, s))
    BY <1>1, <2>2, SameFrame DEF OnTrack, Like, Resting
  <2> QED BY <1>1, <2>1, <2>3, GoesKeeps, Names DEF Still
<1> QED BY <1>2, <1>3 DEF SetCurrent, ReadStatus

-----------------------------------------------------------------------------
(* The envelope and the volume.                                              *)

(* Steps that change the envelope only.                                      *)
LEMMA EnvelopeKeeps ==
  ASSUME IInv, NEW p \in Processes, NEW r \in States, Becomes(p, r), OnTrack(r, archives, givenUp),
         proc[p].pc # "off", r.pc \notin {"off", "extract"}, r.cmd \in {proc[p].cmd, "none"},
         vm' \in [state : {"missing", "stopped", "booting", "ready", "wedged"}, set : Settings],
         UNCHANGED <<volume, helper, files, works, shared, written, commands>>,
         faults' \in 0..MaxFaults, givenUp' = givenUp,
         Running' => Running \/ (Supervised /\ ~shared => helper # "running"),
         Resting(r) => ~Running'
  PROVE  IInv'
<1>1. World' /\ DataSurvives'
  BY DEF IInv, files, World, DataSurvives
<1>2. /\ archives' = archives /\ givenUp' = givenUp /\ written' = written /\ helper' = helper
      /\ shared' = shared
  BY DEF files
<1>3. Supervised /\ ~shared /\ helper' = "running" => ~Running'
  BY <1>2 DEF IInv, Rest
<1>4. archives \subseteq archives' /\ OnTrack(r, archives', givenUp')
  BY <1>2
<1> QED BY <1>1, <1>2, <1>3, <1>4, TurnKeeps

LEMMA VMType == ASSUME IInv, NEW s \in {"missing", "stopped", "booting", "ready", "wedged"}
                PROVE [vm EXCEPT !.state = s] \in [state : {"missing", "stopped", "booting", "ready", "wedged"}, set : Settings]
                      /\ [vm EXCEPT !.state = s].state = s
BY DEF IInv, World

LEMMA DeleteStoppedKeeps == ASSUME IInv, NEW p \in Processes, DeleteStopped(p) \/ Run(p) \/ DeleteStop(p) PROVE IInv'
<1>1. PICK s \in {"run", "waitReady", "deleteEnvelope"} :
        /\ Becomes(p, Goto(p, s))
        /\ s = "run" => At(p, "delete") /\ vm' = [vm EXCEPT !.state = "missing"]
        /\ s = "waitReady" => At(p, "run") /\ Possible("run") /\ vm' = [state |-> "booting", set |-> proc[p].cfg.set]
        /\ s = "deleteEnvelope" => At(p, "deleteStop") /\ vm' = [vm EXCEPT !.state = "stopped"]
        /\ UNCHANGED <<volume, helper, files, history, faults>>
  BY DEF DeleteStopped, Run, DeleteStop, Runs
<1>2. /\ OnTrack(proc[p], archives, givenUp) /\ Goto(p, s).pc = s /\ Goto(p, s).stack = proc[p].stack
      /\ Like(Goto(p, s), proc[p]) /\ Goto(p, s) \in States
  BY Here, Goes, Names DEF IInv
<1>3. OnTrack(Goto(p, s), archives, givenUp) /\ ~Resting(Goto(p, s))
  BY <1>1, <1>2, SameFrame DEF At, OnTrack, Like, Resting
<1>4. vm' \in [state : {"missing", "stopped", "booting", "ready", "wedged"}, set : Settings]
  <2>1. proc[p].cfg.set \in Settings
    BY Here DEF IInv, Configs
  <2> QED BY <1>1, <2>1, VMType
<1>5. Running' => (Supervised /\ ~shared => helper # "running")
  BY <1>1, VMType DEF Running, Possible, Mountable
<1> DEFINE q == Goto(p, s)
<1>6. Becomes(p, q) /\ q \in States /\ OnTrack(q, archives, givenUp) /\ ~Resting(q) /\ q.pc \notin {"off", "extract"}
      /\ q.cmd = proc[p].cmd /\ proc[p].pc # "off"
  BY <1>1, <1>2, <1>3 DEF Like, At
<1> HIDE DEF q
<1>7. faults' \in 0..MaxFaults /\ UNCHANGED <<works, shared, written, commands, givenUp>>
  BY <1>1 DEF IInv, World, history
<1> QED BY <1>1, <1>4, <1>5, <1>6, <1>7, EnvelopeKeeps

(* A procedure that returns is back on the track of the one that called it.  *)
LEMMA Backtrack ==
  ASSUME IInv, NEW p \in Processes, NEW ok \in BOOLEAN, proc[p].pc \notin {"idle", "off", "returned"},
         ~Called(proc[p], {"upgrade"}, "backedUp")
  PROVE  LET q == Returns(p, ok)
         IN /\ q \in States /\ OnTrack(q, archives, givenUp) /\ q.ok = ok /\ Like(q, proc[p]) /\ q.pc \in Labels
            /\ q.cmd = proc[p].cmd
<1>1. Framed(proc[p], archives) /\ (proc[p].cmd = "delete" => givenUp)
  BY Here, Framing DEF IInv, OnTrack
<1> QED BY <1>1, Here, ComesBack DEF Returns, IInv, Like

LEMMA NotBackedUp ==
  ASSUME NEW r, NEW A, Creates(r, A) \/ Starts(r, A) \/ Stops(r, A) \/ Deletes(r, A) \/ Restores(r, A) \/ Changes(r, A)
  PROVE  ~Called(r, {"upgrade"}, "backedUp")
BY DEF Creates, Starts, Stops, Deletes, Restores, Changes, Plain, Called, Nested

LEMMA StopKeeps == ASSUME IInv, NEW p \in Processes, Stop(p) PROVE IInv'
<1> DEFINE q == Returns(p, TRUE)
<1>1. /\ Becomes(p, q) /\ At(p, "stop") /\ vm' = [vm EXCEPT !.state = "stopped"]
      /\ UNCHANGED <<volume, helper, files, history, faults>>
  BY DEF Stop, Runs
<1>2. ~Called(proc[p], {"upgrade"}, "backedUp")
  BY <1>1, Here, NotBackedUp DEF IInv, OnTrack, At
<1>3. q \in States /\ OnTrack(q, archives, givenUp) /\ q.pc \in Labels /\ q.cmd = proc[p].cmd
  BY <1>1, <1>2, Backtrack DEF At
<1>4. ~Running' /\ vm' \in [state : {"missing", "stopped", "booting", "ready", "wedged"}, set : Settings]
  BY <1>1, VMType DEF Running
<1>5. faults' \in 0..MaxFaults /\ UNCHANGED <<works, shared, written, commands, givenUp>>
  BY <1>1 DEF IInv, World, history
<1> HIDE DEF q
<1> QED BY <1>1, <1>3, <1>4, <1>5, EnvelopeKeeps DEF At, Labels

LEMMA DeleteBeginKeeps == ASSUME IInv, NEW p \in Processes, DeleteBegin(p) PROVE IInv'
<1>1. Quiet /\ Still /\ At(p, "deleteBegin")
  BY Unmoved DEF DeleteBegin
<1>2. CASE Becomes(p, Returns(p, FALSE))
  BY <1>1, <1>2, ReturnsKeep DEF At, Still
<1>3. CASE Becomes(p, Goto(p, "deleteLook"))
  <2>1. /\ OnTrack(proc[p], archives, givenUp) /\ Goto(p, "deleteLook").pc = "deleteLook"
        /\ Goto(p, "deleteLook").stack = proc[p].stack /\ Like(Goto(p, "deleteLook"), proc[p])
    BY Here, Goes, Names DEF IInv
  <2>2. OnTrack(Goto(p, "deleteLook"), archives, givenUp) /\ ~Resting(Goto(p, "deleteLook"))
    BY <1>1, <2>1, SameFrame DEF At, OnTrack, Like, Resting
  <2> QED BY <1>1, <1>3, <2>2, GoesKeeps, Names DEF At, Still
<1> QED BY <1>2, <1>3 DEF DeleteBegin

(* The envelope is gone: the volume follows, unless it is kept.              *)
LEMMA EnvelopeGoneKeeps ==
  ASSUME IInv, NEW p \in Processes, proc[p].pc \in {"deleteLook", "deleteEnvelope"},
         NEW r, r \in {EnvelopeGone(proc[p]), Goto(p, "deleteEnvelope"), Goto(p, "deleteStop")}
  PROVE  /\ r \in States /\ OnTrack(r, archives, givenUp) /\ r.pc \notin {"off", "extract"} /\ r.cmd = proc[p].cmd
         /\ Resting(r) => r.pc \in {"backupStopped", "restoreStopped"}
<1>1. OnTrack(proc[p], archives, givenUp) /\ Deletes(proc[p], archives)
  BY Here DEF IInv, OnTrack
<1>2. CASE r = Returns(p, TRUE)
  BY <1>1, <1>2, NotBackedUp, Backtrack DEF Labels, Resting
<1>3. ASSUME NEW s \in {"deleteVolume", "deleteEnvelope", "deleteStop"}, r = Goto(p, s), s = "deleteVolume" => ~proc[p].keep
      PROVE  /\ r \in States /\ OnTrack(r, archives, givenUp) /\ r.pc \notin {"off", "extract"} /\ r.cmd = proc[p].cmd
             /\ ~Resting(r)
  <2>1. r \in States /\ r.pc = s /\ r.stack = proc[p].stack /\ Like(r, proc[p])
    BY <1>3, Goes, Names DEF IInv
  <2> QED BY <1>1, <1>3, <2>1, SameFrame DEF OnTrack, Like, Resting
<1> QED BY <1>2, <1>3 DEF EnvelopeGone, Returns, Goto

LEMMA DeleteLookKeeps == ASSUME IInv, NEW p \in Processes, DeleteLook(p) PROVE IInv'
<1>1. Quiet /\ Still /\ At(p, "deleteLook") /\ UNCHANGED vm
  BY Unmoved DEF DeleteLook, Runs, runtime
<1>2. PICK r \in {EnvelopeGone(proc[p]), Goto(p, "deleteEnvelope"), Goto(p, "deleteStop")} :
        Becomes(p, r) /\ (r = EnvelopeGone(proc[p]) \/ r.pc \in {"deleteEnvelope", "deleteStop"})
        /\ (Seen = "missing" \/ r.pc \in {"deleteEnvelope", "deleteStop"})
  BY Goes, Names DEF DeleteLook, IInv
<1>3. Seen = "missing" => ~Running
  BY DEF Seen, IInv, World, Running
<1>4. /\ r \in States /\ OnTrack(r, archives, givenUp) /\ r.pc \notin {"off", "extract"} /\ r.cmd = proc[p].cmd
      /\ Resting(r) => r.pc \in {"backupStopped", "restoreStopped"}
  BY <1>1, <1>2, EnvelopeGoneKeeps DEF At
<1> QED BY <1>1, <1>2, <1>3, <1>4, QuietKeeps DEF At, Still

LEMMA DeleteEnvelopeKeeps == ASSUME IInv, NEW p \in Processes, DeleteEnvelope(p) PROVE IInv'
<1> DEFINE r == EnvelopeGone(proc[p])
<1>1. /\ Becomes(p, r) /\ At(p, "deleteEnvelope") /\ vm' = [vm EXCEPT !.state = "missing"]
      /\ UNCHANGED <<volume, helper, files, history, faults>>
  BY DEF DeleteEnvelope, Runs
<1>2. r \in States /\ OnTrack(r, archives, givenUp) /\ r.pc \notin {"off", "extract"} /\ r.cmd = proc[p].cmd
  BY <1>1, EnvelopeGoneKeeps DEF At
<1>3. ~Running' /\ vm' \in [state : {"missing", "stopped", "booting", "ready", "wedged"}, set : Settings]
  BY <1>1, VMType DEF Running
<1>4. faults' \in 0..MaxFaults /\ UNCHANGED <<works, shared, written, commands, givenUp>>
  BY <1>1 DEF IInv, World, history
<1> HIDE DEF r
<1> QED BY <1>1, <1>2, <1>3, <1>4, EnvelopeKeeps DEF At

-----------------------------------------------------------------------------
(* The volume, the helper and the backups.                                   *)

LEMMA DataKeeps ==
  ASSUME IInv, NEW p \in Processes, NEW r \in States, Becomes(p, r), OnTrack(r, archives', givenUp'),
         proc[p].pc # "off", r.pc # "off", r.cmd \in {proc[p].cmd, "none"},
         UNCHANGED <<vm, config, kubeconfig, current, works, shared, written, commands>>, faults' \in 0..MaxFaults,
         volume' \in Volumes, helper' \in {"missing", "running", "stopped"},
         archives' \subseteq Backups, archives \subseteq archives', givenUp' \in BOOLEAN, givenUp => givenUp',
         DataSurvives',
         Supervised /\ ~shared /\ helper' = "running" => ~Running,
         p = "operator" /\ ~Supervised /\ Resting(r) => ~Running,
         p = "supervisor" => helper' = helper
  PROVE  IInv'
<1>1. World' /\ Running' = Running /\ written' = written /\ shared' = shared
  BY DEF IInv, World, Running
<1> QED BY <1>1, TurnKeeps

LEMMA EnsureVolumeKeeps == ASSUME IInv, NEW p \in Processes, EnsureVolume(p) PROVE IInv'
<1>1. At(p, "ensureVolume") /\ UNCHANGED <<vm, helper, files, history, faults>>
  BY DEF EnsureVolume, Runs
<1>2. OnTrack(proc[p], archives, givenUp) /\ proc[p].in \in {"create", "start", "restore"}
  BY <1>1, Here DEF IInv, OnTrack, At
<1>3. PICK s \in {"look", "helperStart", "delete", "run"} :
        Becomes(p, Goto(p, s)) /\ (s = "helperStart" <=> proc[p].in = "restore")
  BY <1>2 DEF EnsureVolume
<1>4. /\ Goto(p, s).pc = s /\ Goto(p, s).stack = proc[p].stack /\ Like(Goto(p, s), proc[p]) /\ Goto(p, s) \in States
  BY Goes, Names DEF IInv
<1> DEFINE q == Goto(p, s)
<1>5. OnTrack(q, archives, givenUp) /\ (Resting(q) => s = "helperStart")
  BY <1>1, <1>2, <1>3, <1>4, SameFrame DEF At, OnTrack, Like, Resting
<1>6. p = "operator" /\ ~Supervised /\ Resting(q) => ~Running
  BY <1>1, <1>3, <1>5 DEF IInv, Rest, Resting, At
<1>7. Becomes(p, q) /\ q \in States /\ q.pc \notin {"off", "extract"} /\ q.cmd = proc[p].cmd
  BY <1>3, <1>4 DEF Like
<1>8. volume' \in Volumes /\ (volume' = volume \/ volume.kind = "none")
  BY BoundsAssumption DEF EnsureVolume, IInv, World, Volumes, NoData
<1>9. /\ UNCHANGED <<config, kubeconfig, current, archives, works, shared, written, givenUp, commands>>
      /\ faults' \in 0..MaxFaults /\ archives \subseteq Backups /\ helper \in {"missing", "running", "stopped"}
      /\ givenUp \in BOOLEAN /\ (Supervised /\ ~shared /\ helper = "running" => ~Running)
  BY <1>1 DEF files, history, IInv, World, Rest
<1>10. DataSurvives'
  BY <1>8, <1>9 DEF IInv, DataSurvives, Data
<1> HIDE DEF q
<1> QED BY <1>1, <1>5, <1>6, <1>7, <1>8, <1>9, <1>10, DataKeeps DEF At

(* Only DeleteServer of the data goes on to the volume: it is given up.      *)
LEMMA Forgetting ==
  ASSUME IInv, NEW p \in Processes, proc[p].pc \in ForgetSteps
  PROVE  givenUp /\ Deletes(proc[p], archives) /\ OnTrack(proc[p], archives, givenUp) /\ ~proc[p].keep
BY Here DEF IInv, OnTrack, Deletes, Plain, Called

LEMMA DeleteVolumeKeeps == ASSUME IInv, NEW p \in Processes, DeleteVolume(p) PROVE IInv'
<1> DEFINE q == Goto(p, "removeConfig")
<1>1. /\ At(p, "deleteVolume") /\ UNCHANGED <<vm, helper, files, history, faults>> /\ Becomes(p, q)
      /\ volume' = NoData("none")
  BY DEF DeleteVolume, Runs
<1>2. givenUp /\ Deletes(proc[p], archives) /\ OnTrack(proc[p], archives, givenUp) /\ ~proc[p].keep
  BY <1>1, Forgetting DEF At
<1>3. /\ q.pc = "removeConfig" /\ q.stack = proc[p].stack /\ Like(q, proc[p]) /\ q \in States
  BY Goes, Names DEF IInv
<1>4. OnTrack(q, archives, givenUp) /\ ~Resting(q) /\ q.cmd = proc[p].cmd
  BY <1>1, <1>2, <1>3, SameFrame DEF At, OnTrack, Like, Resting
<1>5. volume' \in Volumes
  BY <1>1, BoundsAssumption DEF Volumes, NoData
<1>6. /\ UNCHANGED <<config, kubeconfig, current, archives, works, shared, written, givenUp, commands>>
      /\ faults' \in 0..MaxFaults /\ archives \subseteq Backups /\ helper \in {"missing", "running", "stopped"}
      /\ givenUp \in BOOLEAN /\ (Supervised /\ ~shared /\ helper = "running" => ~Running)
  BY <1>1 DEF files, history, IInv, World, Rest
<1>7. DataSurvives'
  BY <1>2, <1>6 DEF DataSurvives
<1> HIDE DEF q
<1> QED BY <1>1, <1>3, <1>4, <1>5, <1>6, <1>7, DataKeeps DEF At

LEMMA ForgetKeeps ==
  ASSUME IInv, NEW p \in Processes, RemoveConfig(p) \/ RemoveKubeconfig(p) \/ ClearCurrent(p) PROVE IInv'
<1>1. Quiet /\ Still /\ proc[p].pc \in {"removeConfig", "removeKubeconfig", "clearCurrent"}
  <2>1. RemoveConfig(p) => config' \in Files
    BY ConfigIs DEF RemoveConfig, Files
  <2> QED BY <2>1, FileStill DEF RemoveConfig, RemoveKubeconfig, ClearCurrent, At
<1>2. Deletes(proc[p], archives) /\ OnTrack(proc[p], archives, givenUp) /\ ~proc[p].keep
  BY <1>1, Forgetting
<1>3. CASE Becomes(p, Returns(p, TRUE))
  BY <1>1, <1>2, <1>3, NotBackedUp, ReturnsKeep DEF Still
<1>4. ASSUME NEW s \in {"removeKubeconfig", "clearCurrent"}, Becomes(p, Goto(p, s)) PROVE IInv'
  <2>1. /\ Goto(p, s).pc = s /\ Goto(p, s).stack = proc[p].stack /\ Like(Goto(p, s), proc[p])
    BY Goes, Names DEF IInv
  <2>2. OnTrack(Goto(p, s), archives, givenUp) /\ ~Resting(Goto(p, s))
    BY <1>1, <1>2, <2>1, SameFrame DEF At, OnTrack, Like, Resting
  <2> QED BY <1>1, <1>4, <2>2, GoesKeeps, Names DEF Still
<1> QED BY <1>3, <1>4 DEF RemoveConfig, RemoveKubeconfig, ClearCurrent

(* A procedure calls another one.                                            *)
LEMMA CallsOn ==
  ASSUME NEW r \in States, NEW s \in Steps, NEW l \in Labels
  PROVE  LET q == Calling(r, s, l)
         IN /\ q \in States /\ q.pc = s /\ q.ok = r.ok /\ Like(q, r)
            /\ \A C : Plain(r, C) => Called(q, C, l)
            /\ \A m \in Labels : Called(r, {"upgrade"}, m) => Nested(q, l, m)
<1> DEFINE q == Calling(r, s, l)
<1>1. q \in States /\ q.pc = s /\ q.stack = <<l>> \o r.stack /\ q.ok = r.ok /\ Like(q, r)
  BY Calls, Names
<1> HIDE DEF q
<1>2. l \in OtherSteps /\ "returned" \in OtherSteps /\ Labels \subseteq OtherSteps
  BY Names DEF Labels
<1>3. ASSUME NEW C, Plain(r, C) PROVE Called(q, C, l)
  BY <1>1, <1>2, <1>3, Frames DEF Plain, Called, Like
<1>4. ASSUME NEW m \in Labels, Called(r, {"upgrade"}, m) PROVE Nested(q, l, m)
  <2>1. r.stack = <<m, "returned">> /\ r.cmd = "upgrade"
    BY <1>4 DEF Called
  <2>2. <<l>> \o <<m, "returned">> = <<l, m, "returned">>
    BY <1>2, Frames
  <2> QED BY <1>1, <2>1, <2>2 DEF Nested, Like
<1> QED BY <1>1, <1>3, <1>4 DEF q

LEMMA BackupBeginKeeps == ASSUME IInv, NEW p \in Processes, BackupBegin(p) PROVE IInv'
<1>1. Quiet /\ Still /\ At(p, "backupBegin") /\ OnTrack(proc[p], archives, givenUp)
  BY Unmoved, Here DEF BackupBegin, IInv
<1>2. CASE config.state # "whole"
  <2>1. Becomes(p, Returns(p, FALSE))
    BY <1>2 DEF BackupBegin
  <2> QED BY <1>1, <2>1, ReturnsKeep DEF At, Still
<1>3. CASE config.state = "whole"
  <2> DEFINE q == Goto(p, "backupLook")
             c == [data |-> NoData("none"), cfg |-> config.cfg]
             r == [q EXCEPT !.in = "backup", !.resume = FALSE, !.failed = FALSE, !.copy = c]
  <2>1. q \in States /\ q.pc = "backupLook" /\ q.stack = proc[p].stack /\ Like(q, proc[p])
    BY Goes, Names DEF IInv
  <2>2. c \in Backups
    BY BoundsAssumption DEF IInv, World, Files, Backups, NoData, Volumes
  <2>3. Becomes(p, r)
    BY <1>3 DEF BackupBegin
  <2> HIDE DEF q, c
  <2>4. r \in States /\ r.pc = "backupLook" /\ r.in = "backup" /\ r.cmd = proc[p].cmd /\ r.stack = proc[p].stack
    BY <2>1, <2>2 DEF States, Like
  <2> HIDE DEF r
  <2>5. OnTrack(r, archives, givenUp) /\ ~Resting(r)
    BY <1>1, <2>4 DEF OnTrack, At, Resting, BacksUp, Plain, Called
  <2> QED BY <1>1, <2>3, <2>4, <2>5, QuietKeeps DEF At, Still
<1> QED BY <1>2, <1>3

LEMMA BackupLookKeeps == ASSUME IInv, NEW p \in Processes, BackupLook(p) PROVE IInv'
<1>1. Quiet /\ Still /\ At(p, "backupLook") /\ OnTrack(proc[p], archives, givenUp) /\ proc[p] \in States
  BY Unmoved, Here DEF BackupLook, IInv, Runs
<1>2. BacksUp(proc[p]) /\ proc[p].in = "backup"
  BY <1>1 DEF OnTrack, At
<1>3. CASE Running
  <2> DEFINE q == Calling(proc[p], "stop", "backupStopped")
  <2>1. Becomes(p, q)
    BY <1>3 DEF BackupLook, StopsForBackup, Seen
  <2>a. "stop" \in Steps /\ "backupStopped" \in Labels /\ "backedUp" \in Labels
    BY Names DEF Labels
  <2>b. /\ q \in States /\ q.pc = "stop" /\ Like(q, proc[p])
        /\ \A C : Plain(proc[p], C) => Called(q, C, "backupStopped")
        /\ \A m \in Labels : Called(proc[p], {"upgrade"}, m) => Nested(q, "backupStopped", m)
    BY <1>1, <2>a, CallsOn
  <2> HIDE DEF q
  <2>2. Called(q, {"backup"}, "backupStopped") \/ Nested(q, "backupStopped", "backedUp")
    BY <1>2, <2>a, <2>b DEF BacksUp
  <2>3. OnTrack(q, archives, givenUp) /\ ~Resting(q) /\ q.cmd = proc[p].cmd
    BY <1>1, <1>2, <2>b, <2>2 DEF OnTrack, Like, Resting, Stops
  <2> QED BY <1>1, <2>1, <2>b, <2>3, QuietKeeps DEF At, Still
<1>4. CASE ~Running
  <2>1. Becomes(p, Goto(p, "backupVolume"))
    BY <1>4 DEF BackupLook, StopsForBackup, Seen, Running
  <2>2. /\ Goto(p, "backupVolume").pc = "backupVolume" /\ Goto(p, "backupVolume").stack = proc[p].stack
        /\ Like(Goto(p, "backupVolume"), proc[p])
    BY Goes, Names DEF IInv
  <2>3. OnTrack(Goto(p, "backupVolume"), archives, givenUp)
    BY <1>1, <1>2, <2>2, SameFrame DEF At, OnTrack, Like
  <2> QED BY <1>1, <1>4, <2>1, <2>3, GoesKeeps, Names DEF At, Still
<1> QED BY <1>3, <1>4

LEMMA BackupStoppedKeeps == ASSUME IInv, NEW p \in Processes, BackupStopped(p) PROVE IInv'
<1>1. Quiet /\ Still /\ At(p, "backupStopped") /\ OnTrack(proc[p], archives, givenUp)
  BY Unmoved, Here DEF BackupStopped, IInv
<1>2. CASE ~proc[p].ok
  <2>1. Becomes(p, Returns(p, FALSE))
    BY <1>2 DEF BackupStopped
  <2> QED BY <1>1, <2>1, ReturnsKeep DEF At, Still
<1>3. CASE proc[p].ok
  <2> DEFINE q == Goto(p, "backupVolume")
             r == [q EXCEPT !.resume = TRUE]
  <2>1. q \in States /\ q.pc = "backupVolume" /\ q.stack = proc[p].stack /\ Like(q, proc[p])
    BY Goes, Names DEF IInv
  <2>2. Becomes(p, r)
    BY <1>3 DEF BackupStopped
  <2> HIDE DEF q
  <2>3. r \in States /\ r.pc = "backupVolume" /\ r.in = proc[p].in /\ Kept(r, proc[p])
    BY <2>1 DEF States, Kept, Like
  <2> HIDE DEF r
  <2>4. OnTrack(r, archives, givenUp) /\ r.cmd = proc[p].cmd
    BY <1>1, <2>3, KeptFrame DEF OnTrack, Kept, At
  <2>5. p = "operator" /\ ~Supervised => ~Running
    BY <1>1, <1>3 DEF IInv, Rest, Resting, At
  <2> QED BY <1>1, <2>2, <2>3, <2>4, <2>5, QuietKeeps DEF At, Still
<1> QED BY <1>2, <1>3

LEMMA BackupVolumeKeeps == ASSUME IInv, NEW p \in Processes, BackupVolume(p) PROVE IInv'
<1>1. Quiet /\ Still /\ At(p, "backupVolume") /\ OnTrack(proc[p], archives, givenUp) /\ Becomes(p, Goto(p, "helperStart"))
  BY Unmoved, Here DEF BackupVolume, IInv, Runs
<1>2. /\ Goto(p, "helperStart").pc = "helperStart" /\ Goto(p, "helperStart").stack = proc[p].stack
      /\ Like(Goto(p, "helperStart"), proc[p])
  BY Goes, Names DEF IInv
<1>3. OnTrack(Goto(p, "helperStart"), archives, givenUp)
  BY <1>1, <1>2, SameFrame DEF At, OnTrack, Like
<1>4. p = "operator" /\ ~Supervised => ~Running
  BY <1>1 DEF IInv, Rest, Resting, At
<1> QED BY <1>1, <1>3, <1>4, GoesKeeps, Names DEF At, Still

(* The supervisor has nothing to do with backups.                            *)
LEMMA ByOperator ==
  ASSUME IInv, NEW p \in Processes, BackingUp(proc[p]) \/ Restoring(proc[p])
  PROVE  p = "operator"
<1>1. BacksUp(proc[p]) \/ Restores(proc[p], archives)
  BY Here DEF IInv, OnTrack
<1>2. proc[p].cmd \in {"backup", "upgrade", "restore"}
  BY <1>1 DEF BacksUp, Restores, Plain, Called
<1> QED BY <1>2 DEF IInv, Flow, Processes

LEMMA Unchanging ==
  ASSUME IInv, UNCHANGED <<files, history, faults>>
  PROVE  /\ UNCHANGED <<config, kubeconfig, current, archives, works, shared, written, givenUp, commands>>
         /\ faults' \in 0..MaxFaults /\ archives' \subseteq Backups /\ givenUp' \in BOOLEAN
         /\ volume \in Volumes /\ helper \in {"missing", "running", "stopped"}
         /\ volume' = volume => DataSurvives'
         /\ (Supervised /\ ~shared /\ helper = "running" => ~Running)
BY DEF files, history, IInv, World, DataSurvives, Rest

LEMMA HelperStartKeeps == ASSUME IInv, NEW p \in Processes, HelperStart(p) PROVE IInv'
<1>1. /\ At(p, "helperStart") /\ helper' = "running" /\ UNCHANGED <<vm, volume, files, history, faults>>
      /\ OnTrack(proc[p], archives, givenUp) /\ Possible("helperStart") /\ proc[p].in \in {"backup", "restore"}
  BY Here DEF HelperStart, IInv, Runs, OnTrack, At
<1>2. PICK s \in {"archive", "clear"} : Becomes(p, Goto(p, s)) /\ (s = "archive" <=> proc[p].in = "backup")
  BY DEF HelperStart
<1> DEFINE q == Goto(p, s)
<1>3. /\ q \in States /\ q.pc = s /\ q.stack = proc[p].stack /\ Like(q, proc[p])
  BY Goes, Names DEF IInv
<1>4. OnTrack(q, archives, givenUp)
  BY <1>1, <1>2, <1>3, SameFrame DEF At, OnTrack, Like
<1>5. (Supervised /\ ~shared => ~Running) /\ (~Supervised => ~Running)
  <2>1. p = "operator"
    BY <1>1, ByOperator DEF At
  <2> QED BY <1>1, <2>1 DEF IInv, Rest, Resting, At, Possible, Mountable
<1>6. p = "operator" /\ q.cmd = proc[p].cmd /\ Becomes(p, q)
  BY <1>1, <1>2, <1>3, ByOperator DEF At, Like
<1> HIDE DEF q
<1>7. /\ UNCHANGED <<config, kubeconfig, current, archives, works, shared, written, givenUp, commands>>
      /\ faults' \in 0..MaxFaults /\ archives' \subseteq Backups /\ givenUp' \in BOOLEAN
      /\ volume \in Volumes /\ DataSurvives'
  BY <1>1, Unchanging
<1> QED BY <1>1, <1>3, <1>4, <1>5, <1>6, <1>7, DataKeeps DEF At

LEMMA ArchiveKeeps == ASSUME IInv, NEW p \in Processes, Archive(p) PROVE IInv'
<1>1. Quiet /\ Still /\ At(p, "archive") /\ OnTrack(proc[p], archives, givenUp) /\ proc[p] \in States
  BY Unmoved, Here DEF Archive, IInv, Runs
<1> DEFINE q == Goto(p, "publish")
           d == IF Running THEN NoData("torn") ELSE volume
           c == [proc[p].copy EXCEPT !.data = d]
           r == [q EXCEPT !.copy = c]
<1>2. q \in States /\ q.pc = "publish" /\ q.stack = proc[p].stack /\ Like(q, proc[p])
  BY Goes, Names DEF IInv
<1>3. c \in Backups
  <2>1. d \in Volumes
    BY BoundsAssumption DEF IInv, World, NoData, Volumes
  <2>2. proc[p].copy \in Backups
    BY Here DEF IInv
  <2> QED BY <2>1, <2>2 DEF Backups
<1>4. Becomes(p, r)
  BY <1>1 DEF Archive, Goto, States
<1> HIDE DEF q, c
<1>5. r \in States /\ r.pc = "publish" /\ r.in = proc[p].in /\ r.cmd = proc[p].cmd /\ r.stack = proc[p].stack
  BY <1>2, <1>3 DEF States, Like
<1> HIDE DEF r
<1>6. OnTrack(r, archives, givenUp) /\ ~Resting(r)
  BY <1>1, <1>5 DEF OnTrack, At, Resting, BacksUp, Plain, Called
<1> QED BY <1>1, <1>4, <1>5, <1>6, QuietKeeps DEF At, Still

LEMMA PublishKeeps == ASSUME IInv, NEW p \in Processes, Publish(p) PROVE IInv'
<1> DEFINE q == Goto(p, "helperDelete")
<1>1. /\ At(p, "publish") /\ OnTrack(proc[p], archives, givenUp) /\ proc[p] \in States
      /\ archives' = archives \cup {proc[p].copy} /\ Becomes(p, q)
      /\ UNCHANGED <<runtime, config, kubeconfig, current, history, faults>>
  BY Here DEF Publish, IInv
<1>2. q \in States /\ q.pc = "helperDelete" /\ q.stack = proc[p].stack /\ Like(q, proc[p])
  BY Goes, Names DEF IInv
<1>3. BacksUp(q) /\ q.in = "backup" /\ Has(q, archives') /\ (q.cmd = "delete" => givenUp)
  BY <1>1, <1>2, SameFrame DEF OnTrack, At, Like, Has
<1>4. OnTrack(q, archives', givenUp') /\ ~Resting(q) /\ q.cmd = proc[p].cmd
  BY <1>1, <1>2, <1>3 DEF OnTrack, Resting, history, Like
<1>5. /\ UNCHANGED <<vm, volume, helper, config, kubeconfig, current, works, shared, written, givenUp, commands>>
      /\ faults' \in 0..MaxFaults /\ archives' \subseteq Backups /\ givenUp' \in BOOLEAN
      /\ volume' \in Volumes /\ helper' \in {"missing", "running", "stopped"} /\ archives \subseteq archives'
      /\ (Supervised /\ ~shared /\ helper' = "running" => ~Running)
  BY <1>1 DEF runtime, history, IInv, World, States, Rest
<1>6. DataSurvives'
  BY <1>1, <1>5 DEF IInv, DataSurvives
<1> HIDE DEF q
<1> QED BY <1>1, <1>2, <1>4, <1>5, <1>6, DataKeeps DEF At

LEMMA HelperDeleteKeeps == ASSUME IInv, NEW p \in Processes, HelperDelete(p) PROVE IInv'
<1> DEFINE r == HelperGone(proc[p])
<1>1. /\ At(p, "helperDelete") /\ OnTrack(proc[p], archives, givenUp) /\ proc[p] \in States
      /\ helper' = "missing" /\ Becomes(p, r) /\ UNCHANGED <<vm, volume, files, history, faults>>
  BY Here DEF HelperDelete, IInv, Runs
<1>2. proc[p].in \in {"backup", "restore"}
  BY <1>1 DEF OnTrack, At
<1>3. p = "operator"
  BY <1>1, <1>2, ByOperator DEF At
<1>4. \/ proc[p].in = "backup" /\ r = Goto(p, "backupEnd")
      \/ proc[p].in = "restore" /\ (r = Returns(p, FALSE) \/ r = Goto(p, "truncateManifest"))
  BY <1>2 DEF HelperGone, Returns, Goto
<1> HIDE DEF r
<1>5. r \in States /\ OnTrack(r, archives, givenUp) /\ r.pc \notin {"off", "extract"} /\ r.cmd = proc[p].cmd /\ ~Resting(r)
  <2>1. CASE r = Returns(p, FALSE) /\ proc[p].in = "restore"
    <3>1. ~Called(proc[p], {"upgrade"}, "backedUp")
      BY <1>1, <2>1, NotBackedUp DEF OnTrack, At
    <3> QED BY <1>1, <2>1, <3>1, Backtrack DEF Labels, Resting, At
  <2>2. ASSUME NEW s \in {"backupEnd", "truncateManifest"}, r = Goto(p, s), s = "backupEnd" <=> proc[p].in = "backup"
        PROVE r \in States /\ OnTrack(r, archives, givenUp) /\ r.pc \notin {"off", "extract"} /\ r.cmd = proc[p].cmd /\ ~Resting(r)
    <3>1. r \in States /\ r.pc = s /\ r.stack = proc[p].stack /\ Like(r, proc[p])
      BY <2>2, Goes, Names DEF IInv
    <3> QED BY <1>1, <1>2, <2>2, <3>1, SameFrame DEF OnTrack, Like, Resting, At
  <2> QED BY <1>4, <2>1, <2>2
<1>6. /\ UNCHANGED <<config, kubeconfig, current, archives, works, shared, written, givenUp, commands>>
      /\ faults' \in 0..MaxFaults /\ archives' \subseteq Backups /\ givenUp' \in BOOLEAN
      /\ volume \in Volumes /\ DataSurvives'
  BY <1>1, Unchanging
<1> QED BY <1>1, <1>3, <1>5, <1>6, DataKeeps DEF At

LEMMA BackupEndKeeps == ASSUME IInv, NEW p \in Processes, BackupEnd(p) PROVE IInv'
<1>1. Quiet /\ Still /\ At(p, "backupEnd") /\ OnTrack(proc[p], archives, givenUp) /\ proc[p] \in States
  BY Unmoved, Here DEF BackupEnd, IInv
<1>2. BacksUp(proc[p]) /\ (~proc[p].failed => Has(proc[p], archives)) /\ proc[p].failed \in BOOLEAN
      /\ (proc[p].cmd = "delete" => givenUp)
  BY <1>1 DEF OnTrack, At, States
<1>3. CASE proc[p].resume
  <2> DEFINE q == Calling(proc[p], "startBegin", "backupStarted")
  <2>1. Becomes(p, q)
    BY <1>3 DEF BackupEnd, BackupEnded
  <2>2. "startBegin" \in Steps /\ "backupStarted" \in Labels /\ "backedUp" \in Labels
    BY Names DEF Labels
  <2>3. /\ q \in States /\ q.pc = "startBegin" /\ Like(q, proc[p])
        /\ \A C : Plain(proc[p], C) => Called(q, C, "backupStarted")
        /\ \A m \in Labels : Called(proc[p], {"upgrade"}, m) => Nested(q, "backupStarted", m)
    BY <1>1, <2>2, CallsOn
  <2> HIDE DEF q
  <2>4. Called(q, {"backup"}, "backupStarted") \/ Nested(q, "backupStarted", "backedUp")
    BY <1>2, <2>2, <2>3 DEF BacksUp
  <2>5. (~q.failed => Has(q, archives)) /\ q.cmd = proc[p].cmd
    BY <1>2, <2>3 DEF Like, Has
  <2>6. OnTrack(q, archives, givenUp) /\ ~Resting(q)
    BY <1>2, <2>3, <2>4, <2>5 DEF OnTrack, Resting, Starts
  <2> QED BY <1>1, <2>1, <2>3, <2>5, <2>6, QuietKeeps DEF At, Still
<1>4. CASE ~proc[p].resume
  <2>1. Becomes(p, Returns(p, ~proc[p].failed))
    BY <1>4 DEF BackupEnd, BackupEnded, Returns
  <2> QED BY <1>1, <1>2, <2>1, ReturnsKeep DEF At, Still
<1> QED BY <1>3, <1>4

LEMMA BackupStartedKeeps == ASSUME IInv, NEW p \in Processes, BackupStarted(p) PROVE IInv'
<1> DEFINE ok == proc[p].ok /\ ~proc[p].failed
<1>1. Quiet /\ Still /\ At(p, "backupStarted") /\ OnTrack(proc[p], archives, givenUp) /\ Becomes(p, Returns(p, ok))
  BY Unmoved, Here DEF BackupStarted, IInv
<1>2. (ok => Has(proc[p], archives)) /\ ok \in BOOLEAN
  BY <1>1 DEF OnTrack, At
<1> HIDE DEF ok
<1> QED BY <1>1, <1>2, ReturnsKeep DEF At, Still

LEMMA RestoreLookKeeps == ASSUME IInv, NEW p \in Processes, RestoreLook(p) PROVE IInv'
<1>1. Quiet /\ Still /\ At(p, "restoreLook") /\ OnTrack(proc[p], archives, givenUp) /\ proc[p] \in States
  BY Unmoved, Here DEF RestoreLook, IInv, Runs
<1> DEFINE r == [proc[p] EXCEPT !.in = "restore", !.failed = FALSE]
<1>2. r \in States /\ r.in = "restore" /\ r.cmd = proc[p].cmd /\ r.stack = proc[p].stack /\ r.copy = proc[p].copy
  BY <1>1 DEF States
<1>3. Restores(r, archives) /\ (r.cmd = "delete" => givenUp)
  BY <1>1, <1>2 DEF OnTrack, At, Restores, Plain, Called, Has
<1>4. CASE Running
  <2> DEFINE q == Calling(r, "stop", "restoreStopped")
  <2>1. Becomes(p, q)
    BY <1>4 DEF RestoreLook, Seen
  <2> HIDE DEF r
  <2>2. "stop" \in Steps /\ "restoreStopped" \in Labels /\ "rolledBack" \in Labels
    BY Names DEF Labels
  <2>3. /\ q \in States /\ q.pc = "stop" /\ Like(q, r)
        /\ \A C : Plain(r, C) => Called(q, C, "restoreStopped")
        /\ \A m \in Labels : Called(r, {"upgrade"}, m) => Nested(q, "restoreStopped", m)
    BY <1>2, <2>2, CallsOn
  <2> HIDE DEF q
  <2>4. (Called(q, {"restore"}, "restoreStopped") \/ Nested(q, "restoreStopped", "rolledBack")) /\ Has(q, archives)
    BY <1>3, <2>2, <2>3 DEF Restores, Has, Like
  <2>5. OnTrack(q, archives, givenUp) /\ ~Resting(q) /\ q.cmd = proc[p].cmd
    BY <1>2, <1>3, <2>3, <2>4 DEF OnTrack, Like, Resting, Stops
  <2> QED BY <1>1, <2>1, <2>3, <2>5, QuietKeeps DEF At, Still
<1>5. CASE ~Running
  <2> DEFINE q == [r EXCEPT !.pc = "ensureVolume"]
  <2>1. Becomes(p, q)
    BY <1>5 DEF RestoreLook, Seen, Running
  <2> HIDE DEF r
  <2>2. q \in States /\ q.pc = "ensureVolume" /\ q.stack = r.stack /\ Like(q, r)
    BY <1>2, Going, Names
  <2> HIDE DEF q
  <2>3. OnTrack(q, archives, givenUp) /\ q.cmd = proc[p].cmd
    BY <1>2, <1>3, <2>2, SameFrame DEF OnTrack, Like
  <2> QED BY <1>1, <1>5, <2>1, <2>2, <2>3, QuietKeeps DEF At, Still
<1> QED BY <1>4, <1>5

LEMMA RestoreStoppedKeeps == ASSUME IInv, NEW p \in Processes, RestoreStopped(p) PROVE IInv'
<1>1. Quiet /\ Still /\ At(p, "restoreStopped") /\ OnTrack(proc[p], archives, givenUp)
  BY Unmoved, Here DEF RestoreStopped, IInv
<1>2. CASE ~proc[p].ok
  <2>1. Becomes(p, Returns(p, FALSE))
    BY <1>2 DEF RestoreStopped
  <2> QED BY <1>1, <2>1, ReturnsKeep DEF At, Still
<1>3. CASE proc[p].ok
  <2> DEFINE q == Goto(p, "ensureVolume")
  <2>1. /\ q.pc = "ensureVolume" /\ q.stack = proc[p].stack /\ Like(q, proc[p])
    BY Goes, Names DEF IInv
  <2>2. Becomes(p, q)
    BY <1>3 DEF RestoreStopped
  <2>3. OnTrack(q, archives, givenUp)
    BY <1>1, <2>1, SameFrame DEF At, OnTrack, Like
  <2>4. p = "operator" /\ ~Supervised => ~Running
    BY <1>1, <1>3 DEF IInv, Rest, Resting, At
  <2> QED BY <1>1, <2>2, <2>3, <2>4, GoesKeeps, Names DEF At, Still
<1> QED BY <1>2, <1>3

(* What is written over and not given up is the data of a backup.            *)
LEMMA GivingUp ==
  ASSUME IInv, NEW p \in Processes, Restoring(proc[p]), NEW g, g = (givenUp \/ proc[p].copy.data # Data(written))
  PROVE  g \in BOOLEAN /\ (givenUp => g) /\ (~g => Archived)
<1>1. Has(proc[p], archives)
  BY Here DEF IInv, OnTrack, Restores
<1> QED BY <1>1 DEF IInv, World, Has, Archived

LEMMA ClearKeeps == ASSUME IInv, NEW p \in Processes, Clear(p) PROVE IInv'
<1> DEFINE q == Goto(p, "extract")
<1>1. /\ At(p, "clear") /\ OnTrack(proc[p], archives, givenUp) /\ volume' = NoData(IF Running THEN "torn" ELSE "blank") /\ Becomes(p, q)
      /\ givenUp' = (givenUp \/ proc[p].copy.data # Data(written))
      /\ UNCHANGED <<vm, helper, files, works, shared, written, commands, faults>>
  BY Here DEF Clear, GivesUp, IInv, Runs
<1>2. q \in States /\ q.pc = "extract" /\ q.stack = proc[p].stack /\ Like(q, proc[p])
  BY Goes, Names DEF IInv
<1>3. givenUp' \in BOOLEAN /\ (givenUp => givenUp') /\ (~givenUp' => Archived) /\ p = "operator"
  BY <1>1, GivingUp, ByOperator DEF At
<1>4. OnTrack(q, archives, givenUp) /\ archives' = archives /\ archives \subseteq archives'
  BY <1>1, <1>2, SameFrame DEF OnTrack, At, Like, files
<1>5. OnTrack(q, archives', givenUp') /\ q.cmd = proc[p].cmd
  BY <1>2, <1>3, <1>4, TrackStays DEF Like
<1>6. /\ UNCHANGED <<vm, helper, config, kubeconfig, current, works, shared, written, commands>>
      /\ faults' \in 0..MaxFaults /\ archives' \subseteq Backups /\ helper \in {"missing", "running", "stopped"}
      /\ volume' \in Volumes
  BY <1>1, BoundsAssumption DEF files, IInv, World, NoData, Volumes
<1>7. DataSurvives'
  BY <1>3, <1>4, <1>6 DEF DataSurvives, Archived, Data
<1>8. ~Running \/ Supervised
  BY <1>1, <1>3 DEF IInv, Rest, Resting, At
<1>9. Supervised /\ ~shared /\ helper = "running" => ~Running
  BY DEF IInv, Rest
<1> HIDE DEF q
<1> QED BY <1>1, <1>2, <1>3, <1>4, <1>5, <1>6, <1>7, <1>8, <1>9, DataKeeps DEF At

LEMMA ExtractKeeps == ASSUME IInv, NEW p \in Processes, Extract(p) PROVE IInv'
<1> DEFINE q == Goto(p, "helperDelete")
<1>1. /\ At(p, "extract") /\ OnTrack(proc[p], archives, givenUp) /\ Becomes(p, q)
      /\ volume' \in {NoData("torn"), proc[p].copy.data} /\ proc[p].copy \in Backups
      /\ givenUp' = (givenUp \/ proc[p].copy.data # Data(written))
      /\ UNCHANGED <<vm, helper, files, works, shared, written, commands, faults>>
  BY Here DEF Extract, GivesUp, IInv, Runs
<1>2. q \in States /\ q.pc = "helperDelete" /\ q.stack = proc[p].stack /\ Like(q, proc[p])
  BY Goes, Names DEF IInv
<1>3. givenUp' \in BOOLEAN /\ (givenUp => givenUp') /\ (~givenUp' => Archived) /\ p = "operator"
  BY <1>1, GivingUp, ByOperator DEF At
<1>4. OnTrack(q, archives, givenUp) /\ archives' = archives /\ archives \subseteq archives' /\ ~Resting(q)
  BY <1>1, <1>2, SameFrame DEF OnTrack, At, Like, files, Resting
<1>5. OnTrack(q, archives', givenUp') /\ q.cmd = proc[p].cmd
  BY <1>2, <1>3, <1>4, TrackStays DEF Like
<1>6. /\ UNCHANGED <<vm, helper, config, kubeconfig, current, works, shared, written, commands>>
      /\ faults' \in 0..MaxFaults /\ archives' \subseteq Backups /\ helper \in {"missing", "running", "stopped"}
  BY <1>1 DEF files, IInv, World
<1>7. volume' \in Volumes
  BY <1>1, BoundsAssumption DEF NoData, Volumes, Backups
<1>8. DataSurvives'
  BY <1>3, <1>4, <1>6 DEF DataSurvives, Archived, Data
<1>9. Supervised /\ ~shared /\ helper = "running" => ~Running
  BY DEF IInv, Rest
<1> HIDE DEF q
<1> QED BY <1>1, <1>2, <1>3, <1>4, <1>5, <1>6, <1>7, <1>8, <1>9, DataKeeps DEF At

-----------------------------------------------------------------------------
(* A change of settings, and the end of a command.                           *)

(* A command returns to its caller.                                          *)
LEMMA EndKeeps ==
  ASSUME IInv, NEW p \in Processes, NEW r \in States, NEW ok \in BOOLEAN, Plain(r, {"upgrade", "policy"}),
         r.cmd = proc[p].cmd, proc[p].pc # "off", Becomes(p, Returning(r, ok)), Quiet, Still
  PROVE  IInv'
<1> DEFINE q == Returning(r, ok)
<1>1. r.stack = <<"returned">> /\ r.cmd \in {"upgrade", "policy"} /\ "returned" \in OtherSteps /\ Becomes(p, q)
  BY DEF Plain, OtherSteps
<1>2. q \in States /\ q.pc = "returned" /\ q.stack = <<>> /\ Like(q, r)
  <2>1. r.stack # <<>> /\ Head(r.stack) = "returned" /\ Tail(r.stack) = <<>>
    BY <1>1, Frames
  <2> QED BY <2>1, Comesback
<1> HIDE DEF q
<1>3. OnTrack(q, archives, givenUp) /\ ~Resting(q) /\ q.cmd = proc[p].cmd
  BY <1>1, <1>2 DEF OnTrack, Resting, Like
<1> QED BY <1>1, <1>2, <1>3, QuietKeeps DEF Still

(* A change calls a procedure.                                               *)
LEMMA ChangeCallKeeps ==
  ASSUME IInv, NEW p \in Processes, NEW r \in States, Plain(r, {"upgrade", "policy"}), r.cmd = proc[p].cmd,
         NEW s \in {"backupBegin", "deleteBegin", "createBegin", "restoreLook"}, NEW l \in Labels,
         proc[p].pc # "off", Becomes(p, Calling(r, s, l)), Quiet, Still,
         s = "backupBegin" => r.cmd = "upgrade" /\ l = "backedUp",
         s = "deleteBegin" => \/ l = "removed" /\ r.keep /\ Sure(r, archives)
                              \/ l = "cleaned" /\ r.keep /\ r.cmd = "policy",
         s = "createBegin" => \/ l = "recreated" /\ r.keep /\ Sure(r, archives)
                              \/ l = "rolledBack" /\ r.cmd = "policy",
         s = "restoreLook" => l = "rolledBack" /\ r.cmd = "upgrade" /\ Has(r, archives)
  PROVE  IInv'
<1> DEFINE q == Calling(r, s, l)
<1>1. s \in Steps /\ Becomes(p, q)
  BY Names
<1>2. q \in States /\ q.pc = s /\ Like(q, r) /\ \A C : Plain(r, C) => Called(q, C, l)
  BY <1>1, CallsOn
<1> HIDE DEF q
<1>3. /\ Called(q, {"upgrade", "policy"}, l) /\ q.cmd = proc[p].cmd /\ q.cmd # "delete" /\ q.keep = r.keep
      /\ Has(q, archives) <=> Has(r, archives)
      /\ Sure(q, archives) <=> Sure(r, archives)
  BY <1>2 DEF Plain, Like, Has, Sure
<1>4. q.cmd = "upgrade" => Called(q, {"upgrade"}, l)
  BY <1>3 DEF Called
<1>5. q.cmd = "policy" => Called(q, {"policy"}, l)
  BY <1>3 DEF Called
<1>6. OnTrack(q, archives, givenUp) /\ ~Resting(q)
  BY <1>2, <1>3, <1>4, <1>5 DEF OnTrack, Resting, Creates, Deletes, BacksUp, Restores, Like
<1> QED BY <1>1, <1>2, <1>3, <1>6, QuietKeeps DEF Still

LEMMA ChangeBeginKeeps == ASSUME IInv, NEW p \in Processes, ChangeBegin(p) PROVE IInv'
<1>1. Quiet /\ Still /\ At(p, "changeBegin") /\ OnTrack(proc[p], archives, givenUp) /\ proc[p] \in States
  BY Unmoved, Here DEF ChangeBegin, IInv
<1>2. Plain(proc[p], {"upgrade", "policy"}) /\ config.cfg \in Configs
  BY <1>1 DEF OnTrack, At, Changes, IInv, World, Files
<1> DEFINE g == [proc[p].goal EXCEPT !.stable = config.cfg.stable]
           c == [AnyBackup EXCEPT !.cfg = config.cfg]
           r == [proc[p] EXCEPT !.goal = g, !.copy = c]
           k == [r EXCEPT !.keep = TRUE]
<1>3. r = [proc[p] EXCEPT !.goal.stable = config.cfg.stable, !.copy = c]
  BY <1>1 DEF States
<1>4. g \in Configs /\ c \in Backups
  BY <1>1, <1>2, ConfigIs DEF States, Configs, Backups
<1>5. \/ Becomes(p, Returns(p, FALSE))
      \/ Becomes(p, Goto(p, "unchanged"))
      \/ proc[p].cmd = "upgrade" /\ Becomes(p, Calling(r, "backupBegin", "backedUp"))
      \/ proc[p].cmd = "policy" /\ Becomes(p, Calling(k, "deleteBegin", "removed"))
  <2>1. CASE config.state # "whole" \/ config.cfg.set = proc[p].goal.set
    BY <2>1 DEF ChangeBegin
  <2>2. CASE config.state = "whole" /\ config.cfg.set # proc[p].goal.set /\ proc[p].cmd = "upgrade"
    BY <1>3, <2>2 DEF ChangeBegin
  <2>3. CASE config.state = "whole" /\ config.cfg.set # proc[p].goal.set /\ proc[p].cmd = "policy"
    BY <1>3, <2>3 DEF ChangeBegin
  <2> QED BY <1>2, <2>1, <2>2, <2>3 DEF Plain
<1> HIDE DEF g, c
<1>6. r \in States /\ r.cmd = proc[p].cmd /\ r.stack = proc[p].stack
  BY <1>1, <1>4 DEF States
<1> HIDE DEF r
<1>7. k \in States /\ k.cmd = proc[p].cmd /\ k.stack = proc[p].stack /\ k.keep
  BY <1>6 DEF States
<1> HIDE DEF k
<1>8. Plain(r, {"upgrade", "policy"}) /\ Plain(k, {"upgrade", "policy"}) /\ "backedUp" \in Labels /\ "removed" \in Labels
  BY <1>2, <1>6, <1>7 DEF Plain, Labels
<1>9. CASE Becomes(p, Returns(p, FALSE))
  BY <1>1, <1>9, ReturnsKeep DEF At, Still
<1>10. CASE Becomes(p, Goto(p, "unchanged"))
  <2>1. Goto(p, "unchanged").pc = "unchanged" /\ Goto(p, "unchanged").stack = proc[p].stack
        /\ Like(Goto(p, "unchanged"), proc[p])
    BY Goes, Names DEF IInv
  <2>2. OnTrack(Goto(p, "unchanged"), archives, givenUp) /\ ~Resting(Goto(p, "unchanged"))
    BY <1>1, <1>2, <2>1, SameFrame DEF OnTrack, Like, Resting, Changes
  <2> QED BY <1>1, <1>10, <2>2, GoesKeeps, Names DEF At, Still
<1>11. CASE proc[p].cmd = "upgrade" /\ Becomes(p, Calling(r, "backupBegin", "backedUp"))
  BY <1>1, <1>6, <1>8, <1>11, ChangeCallKeeps DEF At
<1>12. CASE proc[p].cmd = "policy" /\ Becomes(p, Calling(k, "deleteBegin", "removed"))
  BY <1>1, <1>7, <1>8, <1>12, ChangeCallKeeps DEF At, Sure
<1> QED BY <1>5, <1>9, <1>10, <1>11, <1>12

(* The steps of a change after the first.                                    *)
LEMMA Changing ==
  ASSUME IInv, NEW p \in Processes, proc[p].pc \in ChangeSteps
  PROVE  /\ Changes(proc[p], archives) /\ Plain(proc[p], {"upgrade", "policy"}) /\ proc[p] \in States
         /\ ~Called(proc[p], {"upgrade"}, "backedUp")
BY Here, NotBackedUp DEF IInv, OnTrack, Changes

LEMMA UnchangedKeeps == ASSUME IInv, NEW p \in Processes, Unchanged(p) PROVE IInv'
<1>1. Quiet /\ Still /\ At(p, "unchanged") /\ Becomes(p, Returns(p, TRUE))
  BY Unmoved DEF Unchanged, Runs
<1>2. ~Called(proc[p], {"upgrade"}, "backedUp")
  BY <1>1, Changing DEF At
<1> QED BY <1>1, <1>2, ReturnsKeep DEF At, Still

LEMMA BackedUpKeeps == ASSUME IInv, NEW p \in Processes, BackedUp(p) PROVE IInv'
<1>1. Quiet /\ Still /\ At(p, "backedUp")
  BY Unmoved DEF BackedUp
<1>2. Changes(proc[p], archives) /\ Plain(proc[p], {"upgrade", "policy"}) /\ proc[p] \in States
  BY <1>1, Changing DEF At
<1>3. CASE ~proc[p].ok
  <2>1. Becomes(p, Returns(p, FALSE))
    BY <1>3 DEF BackedUp
  <2> QED BY <1>1, <2>1, ReturnsKeep DEF At, Still
<1>4. CASE proc[p].ok
  <2> DEFINE k == [proc[p] EXCEPT !.keep = TRUE]
  <2>1. Becomes(p, Calling(k, "deleteBegin", "removed"))
    BY <1>4 DEF BackedUp
  <2>2. k \in States /\ k.cmd = proc[p].cmd /\ k.stack = proc[p].stack /\ k.keep /\ k.copy = proc[p].copy
    BY <1>2 DEF States
  <2> HIDE DEF k
  <2>3. Plain(k, {"upgrade", "policy"}) /\ Sure(k, archives) /\ "removed" \in Labels
    BY <1>1, <1>2, <1>4, <2>2 DEF Plain, Changes, Sure, Has, At, Labels
  <2> QED BY <1>1, <2>1, <2>2, <2>3, ChangeCallKeeps DEF At
<1> QED BY <1>3, <1>4

LEMMA RemovedKeeps == ASSUME IInv, NEW p \in Processes, Removed(p) \/ Cleaned(p) PROVE IInv'
<1>1. Quiet /\ Still /\ proc[p].pc \in {"removed", "cleaned"}
  BY Unmoved DEF Removed, Cleaned, At
<1>2. Changes(proc[p], archives) /\ Plain(proc[p], {"upgrade", "policy"}) /\ proc[p] \in States
  BY <1>1, Changing
<1>3. CASE Becomes(p, Returns(p, FALSE))
  BY <1>1, <1>3, ReturnsKeep DEF Still
<1>4. ASSUME NEW c \in Configs, NEW l \in {"recreated", "rolledBack"},
             Becomes(p, Calling([proc[p] EXCEPT !.cfg = c], "createBegin", l)),
             l = "recreated" => At(p, "removed"), l = "rolledBack" => At(p, "cleaned")
      PROVE  IInv'
  <2> DEFINE k == [proc[p] EXCEPT !.cfg = c]
  <2>1. k \in States /\ Kept(k, proc[p])
    BY <1>2 DEF States, Kept
  <2>2. Becomes(p, Calling(k, "createBegin", l))
    BY <1>4
  <2> HIDE DEF k
  <2>3. Plain(k, {"upgrade", "policy"}) /\ l \in Labels /\ k.cmd = proc[p].cmd
    BY <1>2, <2>1 DEF Plain, Kept, Labels
  <2>4. /\ l = "recreated" => k.keep /\ Sure(k, archives)
        /\ l = "rolledBack" => k.cmd = "policy"
    BY <1>2, <1>4, <2>1 DEF Changes, Sure, Has, At, Kept
  <2> QED BY <1>1, <2>1, <2>2, <2>3, <2>4, ChangeCallKeeps
<1>5. proc[p].goal \in Configs /\ proc[p].copy.cfg \in Configs
  BY Here DEF IInv, Backups
<1> QED BY <1>3, <1>4, <1>5 DEF Removed, Cleaned

LEMMA RecreatedKeeps == ASSUME IInv, NEW p \in Processes, Recreated(p) PROVE IInv'
<1>1. Quiet /\ Still /\ At(p, "recreated") /\ Becomes(p, AfterChange(proc[p]))
  BY Unmoved DEF Recreated
<1>2. Plain(proc[p], {"upgrade", "policy"}) /\ proc[p] \in States /\ proc[p].keep /\ Sure(proc[p], archives)
  BY <1>1, Changing DEF At, Changes
<1> DEFINE k == [proc[p] EXCEPT !.outcome = "changed"]
<1>3. k \in States /\ k.cmd = proc[p].cmd /\ k.stack = proc[p].stack
  BY <1>2 DEF States
<1>4. \/ Becomes(p, Returning(k, TRUE))
      \/ proc[p].cmd = "upgrade" /\ Becomes(p, Calling(proc[p], "restoreLook", "rolledBack"))
      \/ proc[p].cmd # "upgrade" /\ Becomes(p, Calling(proc[p], "deleteBegin", "cleaned"))
  BY <1>1 DEF AfterChange
<1> HIDE DEF k
<1>5. Plain(k, {"upgrade", "policy"}) /\ "rolledBack" \in Labels /\ "cleaned" \in Labels
  BY <1>2, <1>3 DEF Plain, Labels
<1>6. CASE Becomes(p, Returning(k, TRUE))
  BY <1>1, <1>3, <1>5, <1>6, EndKeeps DEF At
<1>7. CASE proc[p].cmd = "upgrade" /\ Becomes(p, Calling(proc[p], "restoreLook", "rolledBack"))
  BY <1>1, <1>2, <1>5, <1>7, ChangeCallKeeps DEF At, Sure
<1>8. CASE proc[p].cmd # "upgrade" /\ Becomes(p, Calling(proc[p], "deleteBegin", "cleaned"))
  <2>1. proc[p].cmd = "policy"
    BY <1>2, <1>8 DEF Plain
  <2> QED BY <1>1, <1>2, <1>5, <1>8, <2>1, ChangeCallKeeps DEF At
<1> QED BY <1>4, <1>6, <1>7, <1>8

LEMMA RolledBackKeeps == ASSUME IInv, NEW p \in Processes, RolledBack(p) PROVE IInv'
<1> DEFINE o == IF proc[p].ok THEN "restored" ELSE proc[p].outcome
           k == [proc[p] EXCEPT !.outcome = o]
<1>1. Quiet /\ Still /\ At(p, "rolledBack") /\ Becomes(p, Returning(k, FALSE))
  BY Unmoved DEF RolledBack
<1>2. Plain(proc[p], {"upgrade", "policy"}) /\ proc[p] \in States
  BY <1>1, Changing DEF At
<1>3. o \in {"none", "changed", "restored"}
  BY <1>2 DEF States
<1> HIDE DEF o
<1>4. k \in States /\ k.cmd = proc[p].cmd /\ k.stack = proc[p].stack
  BY <1>2, <1>3 DEF States
<1> HIDE DEF k
<1>5. Plain(k, {"upgrade", "policy"})
  BY <1>2, <1>4 DEF Plain
<1> QED BY <1>1, <1>4, <1>5, EndKeeps DEF At

LEMMA ReturnKeeps == ASSUME IInv, NEW p \in Processes, Return(p) PROVE IInv'
<1>1. Quiet /\ Still /\ At(p, "returned") /\ Becomes(p, Idle)
  BY Unmoved DEF Return
<1>2. OnTrack(Idle, archives, givenUp) /\ ~Resting(Idle)
  BY IdleIs DEF OnTrack, Resting
<1> QED BY <1>1, <1>2, IdleIs, QuietKeeps DEF At, Still

-----------------------------------------------------------------------------
(* What fails.                                                               *)

LEMMA FailedIs ==
  ASSUME IInv, NEW p \in Processes, proc[p].pc \in CommandSteps
  PROVE  LET r == Failed(p)
         IN /\ r \in States /\ OnTrack(r, archives, givenUp) /\ r.pc \notin {"idle", "off", "extract"}
            /\ r.cmd = proc[p].cmd /\ ~Resting(r)
<1> DEFINE r == Failed(p)
<1>1. OnTrack(proc[p], archives, givenUp) /\ proc[p] \in States /\ proc[p].pc \notin {"idle", "off", "returned", "backedUp"}
  BY Here DEF IInv, CommandSteps
<1>2. \/ r = Returns(p, FALSE)
      \/ /\ r = [Goto(p, "backupEnd") EXCEPT !.failed = TRUE]
         /\ proc[p].pc = "backupVolume" \/ (proc[p].pc \in HelperSteps /\ proc[p].in = "backup")
      \/ /\ r = [Goto(p, "helperDelete") EXCEPT !.failed = TRUE]
         /\ proc[p].pc \in {"archive", "clear", "extract"}
  BY DEF Failed, At
<1> SUFFICES /\ r \in States /\ OnTrack(r, archives, givenUp) /\ r.pc \notin {"idle", "off", "extract"}
             /\ r.cmd = proc[p].cmd /\ ~Resting(r)
  OBVIOUS
<1> HIDE DEF r
<1>3. CASE r = Returns(p, FALSE)
  <2>1. Framed(proc[p], archives) /\ (proc[p].cmd = "delete" => givenUp)
    BY <1>1, Framing DEF OnTrack
  <2>2. r \in States /\ OnTrack(r, archives, givenUp) /\ r.ok = FALSE /\ Like(r, proc[p]) /\ r.pc \in Labels
    BY <1>1, <1>3, <2>1, ComesBack DEF Returns
  <2>3. ~r.ok
    BY <2>2
  <2>4. ~Resting(r) /\ r.pc \notin {"idle", "off", "extract"}
    BY <2>2, <2>3 DEF Labels, Resting
  <2> QED BY <2>2, <2>4 DEF Like
<1>4. ASSUME NEW s \in {"backupEnd", "helperDelete"}, r = [Goto(p, s) EXCEPT !.failed = TRUE],
             s = "backupEnd" => proc[p].pc = "backupVolume" \/ (proc[p].pc \in HelperSteps /\ proc[p].in = "backup"),
             s = "helperDelete" => proc[p].pc \in {"archive", "clear", "extract"}
      PROVE  /\ r \in States /\ OnTrack(r, archives, givenUp) /\ r.pc \notin {"idle", "off", "extract"}
             /\ r.cmd = proc[p].cmd /\ ~Resting(r)
  <2> DEFINE q == Goto(p, s)
  <2>1. q \in States /\ q.pc = s /\ q.stack = proc[p].stack /\ Like(q, proc[p])
    BY Goes, Names DEF IInv
  <2>2. r = [q EXCEPT !.failed = TRUE]
    BY <1>4
  <2> HIDE DEF q
  <2>3. /\ r \in States /\ r.pc = s /\ r.in = proc[p].in /\ r.cmd = proc[p].cmd /\ r.stack = proc[p].stack
        /\ r.copy = proc[p].copy /\ r.failed
    BY <2>1, <2>2 DEF States, Like
  <2>4. /\ BacksUp(proc[p]) => BacksUp(r)
        /\ Restores(proc[p], archives) => Restores(r, archives)
    BY <2>3 DEF BacksUp, Restores, Plain, Called, Has
  <2> QED BY <1>1, <1>4, <2>3, <2>4 DEF OnTrack, Resting
<1>5. CASE /\ r = [Goto(p, "backupEnd") EXCEPT !.failed = TRUE]
           /\ proc[p].pc = "backupVolume" \/ (proc[p].pc \in HelperSteps /\ proc[p].in = "backup")
  BY <1>4, <1>5
<1>6. CASE /\ r = [Goto(p, "helperDelete") EXCEPT !.failed = TRUE]
           /\ proc[p].pc \in {"archive", "clear", "extract"}
  BY <1>4, <1>6
<1> QED BY <1>2, <1>3, <1>5, <1>6

LEMMA PartlyKeeps ==
  ASSUME IInv, NEW p \in Processes, NEW r \in States, Becomes(p, r), PartlyDone(p), OnTrack(r, archives, givenUp),
         proc[p].pc # "off", r.pc \notin {"off", "extract"}, r.cmd \in {proc[p].cmd, "none"}, ~Resting(r),
         UNCHANGED <<files, works, shared, written, commands>>, faults' \in 0..MaxFaults
  PROVE  IInv'
<1>1. UNCHANGED <<config, kubeconfig, current, archives>> /\ archives \subseteq archives'
  BY DEF files
<1>2. CASE UNCHANGED <<volume, helper, givenUp>> /\ vm' \in [state : {"missing", "stopped", "booting", "ready", "wedged"}, set : Settings]
           /\ (Running' => Running \/ (Supervised /\ ~shared => helper # "running"))
  BY <1>2, EnvelopeKeeps
<1>3. CASE UNCHANGED <<volume, helper, givenUp, vm>>
  <2>1. vm' \in [state : {"missing", "stopped", "booting", "ready", "wedged"}, set : Settings] /\ (Running' => Running)
    BY <1>3 DEF IInv, World, Running
  <2> QED BY <1>2, <1>3, <2>1
<1>4. CASE vm' = [vm EXCEPT !.state = "stopped"] /\ UNCHANGED <<volume, helper, givenUp>>
  <2>1. vm' \in [state : {"missing", "stopped", "booting", "ready", "wedged"}, set : Settings] /\ ~Running'
    BY <1>4, VMType DEF Running
  <2> QED BY <1>2, <1>4, <2>1
<1>5. CASE /\ Possible("run") /\ vm' = [state |-> "booting", set |-> proc[p].cfg.set]
           /\ UNCHANGED <<volume, helper, givenUp>>
  <2>1. proc[p].cfg.set \in Settings
    BY Here DEF IInv, Configs
  <2>2. vm' \in [state : {"missing", "stopped", "booting", "ready", "wedged"}, set : Settings]
        /\ (Supervised /\ ~shared => helper # "running")
    BY <1>5, <2>1 DEF Possible, Mountable
  <2> QED BY <1>2, <1>5, <2>2
<1>6. CASE At(p, "helperStart") /\ Possible("helperStart") /\ helper' = "running" /\ UNCHANGED <<vm, volume, givenUp>>
  <2>1. p = "operator"
    BY <1>6, ByOperator, Here DEF At, IInv, OnTrack
  <2>2. World' /\ DataSurvives' /\ Running' = Running
    BY <1>1, <1>6 DEF IInv, World, DataSurvives, Running
  <2>3. Supervised /\ ~shared => ~Running
    BY <1>6 DEF Possible, Mountable
  <2> QED BY <1>1, <1>6, <2>1, <2>2, <2>3, TurnKeeps
<1>7. CASE /\ proc[p].pc \in {"clear", "extract"} /\ helper = "running" /\ volume' = NoData("torn")
           /\ givenUp' = (givenUp \/ proc[p].copy.data # Data(written)) /\ UNCHANGED <<vm, helper>>
  <2>1. p = "operator" /\ givenUp' \in BOOLEAN /\ (givenUp => givenUp') /\ (~givenUp' => Archived)
    BY <1>7, ByOperator, GivingUp
  <2>2. volume' \in Volumes
    BY <1>7, BoundsAssumption DEF NoData, Volumes
  <2>3. World' /\ DataSurvives' /\ Running' = Running
    BY <1>1, <1>7, <2>1, <2>2 DEF IInv, World, DataSurvives, Running, Archived
  <2>4. OnTrack(r, archives', givenUp')
    BY <1>1, <2>1, TrackStays
  <2>5. Supervised /\ ~shared /\ helper' = "running" => ~Running'
    BY <1>7, <2>3 DEF IInv, Rest
  <2> QED BY <1>1, <2>1, <2>3, <2>4, <2>5, TurnKeeps
<1> QED BY <1>3, <1>4, <1>5, <1>6, <1>7 DEF PartlyDone, GivesUp, runtime

LEMMA Faulty == ASSUME IInv, NEW kind, Fault(kind) PROVE faults' \in 0..MaxFaults
BY BoundsAssumption DEF Fault, IInv, World

LEMMA CommandFailsKeeps == ASSUME IInv, NEW p \in Processes, CommandFails(p) PROVE IInv'
<1>1. /\ proc[p].pc \in CommandSteps /\ Becomes(p, Failed(p)) /\ PartlyDone(p)
      /\ UNCHANGED <<files, works, shared, written, commands>>
  BY DEF CommandFails
<1>2. faults' \in 0..MaxFaults
  BY Faulty DEF CommandFails, IInv, World
<1>3. proc[p].pc # "off"
  BY <1>1 DEF CommandSteps
<1> QED BY <1>1, <1>2, <1>3, FailedIs, PartlyKeeps

LEMMA DiesKeeps == ASSUME IInv, NEW p \in Processes, Dies(p) PROVE IInv'
<1>1. /\ proc[p].pc # "off" /\ Becomes(p, Idle) /\ PartlyDone(p) /\ UNCHANGED <<files, works, shared, written, commands>>
      /\ faults' \in 0..MaxFaults
  BY Faulty DEF Dies
<1>2. OnTrack(Idle, archives, givenUp) /\ ~Resting(Idle)
  BY IdleIs DEF OnTrack, Resting
<1> QED BY <1>1, <1>2, IdleIs, PartlyKeeps

-----------------------------------------------------------------------------
(* The commands' beginnings, and what happens beside them.                   *)

LEMMA IssueKeeps == ASSUME IInv, NEW cmd \in Commands, Issue(cmd) PROVE IInv'
<1>1. cmd \in AllCommands
  BY CommandsAssumption
<1>2. PICK s \in Settings, b \in IF cmd = "restore" THEN ValidBackups ELSE {AnyBackup} :
        LET goal == [set |-> s, stable |-> FALSE]
        IN Becomes("operator", [Idle EXCEPT !.cmd = cmd, !.pc = Entry[cmd],
                                  !.stack = <<"returned">>, !.goal = goal, !.copy = b,
                                  !.cfg = goal, !.keep = (cmd = "deleteKeep")])
  BY DEF Issue
<1> DEFINE g == [set |-> s, stable |-> FALSE]
           e == Entry[cmd]
           t == <<"returned">>
           k == (cmd = "deleteKeep")
           r == [Idle EXCEPT !.cmd = cmd, !.pc = e, !.stack = t, !.goal = g, !.copy = b, !.cfg = g, !.keep = k]
<1>3. Becomes("operator", r)
  BY <1>2
<1>4. g \in Configs /\ k \in BOOLEAN /\ t \in Seq(OtherSteps) /\ b \in Backups
  <2>1. b \in Backups
    BY ConfigIs DEF ValidBackups, IInv, World
  <2> QED BY <2>1 DEF Configs, OtherSteps
<1>5. /\ cmd = "create" => e = "createBegin"
      /\ cmd = "start" => e = "startBegin"
      /\ cmd = "stop" => e = "stop"
      /\ cmd \in {"delete", "deleteKeep"} => e = "deleteBegin"
      /\ cmd = "backup" => e = "backupBegin"
      /\ cmd = "restore" => e = "restoreLook"
      /\ cmd \in {"upgrade", "policy"} => e = "changeBegin"
  BY <1>1 DEF Entry, AllCommands
<1>6. e \in {"createBegin", "startBegin", "stop", "deleteBegin", "backupBegin", "restoreLook", "changeBegin"}
  BY <1>1, <1>5 DEF AllCommands
<1>7. e \in Steps
  BY <1>6, Names
<1> HIDE DEF g, e, t, k
<1>8. /\ r \in States /\ r.cmd = cmd /\ r.pc = e /\ r.stack = t /\ r.copy = b /\ r.keep = k
  BY <1>1, <1>4, <1>7, IdleIs DEF States
<1> HIDE DEF r
<1>9. /\ givenUp' = (givenUp \/ cmd = "delete") /\ archives' = archives /\ archives \subseteq archives'
      /\ UNCHANGED <<vm, volume, helper, config, kubeconfig, current, works, shared, written, faults>>
      /\ commands' = commands + 1
  BY DEF Issue, runtime, files
<1>10. \A C : cmd \in C => Plain(r, C)
  BY <1>8 DEF Plain, t
<1>11. cmd = "restore" => Has(r, archives)
  BY <1>8 DEF Has, ValidBackups
<1>12. OnTrack(r, archives', givenUp')
  <2>1. k <=> cmd = "deleteKeep"
    BY DEF k
  <2> QED BY <1>1, <1>5, <1>6, <1>8, <1>9, <1>10, <1>11, <2>1
          DEF OnTrack, Creates, Starts, Stops, Deletes, BacksUp, Restores, Changes, AllCommands
<1>13. ~Resting(r) /\ r.pc \notin {"off", "extract"}
  BY <1>6, <1>8 DEF Resting
<1>14. World' /\ DataSurvives' /\ Running' = Running
  BY <1>9 DEF IInv, World, DataSurvives, Running
<1>15. "operator" \in Processes /\ proc["operator"].pc # "off" /\ (Supervised /\ ~shared /\ helper' = "running" => ~Running')
  BY <1>9, <1>14 DEF Issue, At, Processes, IInv, Rest
<1> QED BY <1>3, <1>8, <1>9, <1>12, <1>13, <1>14, <1>15, TurnTo

LEMMA SuperviseKeeps == ASSUME IInv, Supervise PROVE IInv'
<1> DEFINE t == <<"returned">>
           r == [Idle EXCEPT !.cmd = "supervise", !.pc = "startBegin", !.stack = t]
<1>1. Quiet /\ Still /\ At("supervisor", "idle") /\ Becomes("supervisor", r)
  BY Unmoved DEF Supervise
<1>2. t \in Seq(OtherSteps) /\ "startBegin" \in Steps
  BY Names DEF OtherSteps
<1> HIDE DEF t
<1>3. r \in States /\ r.cmd = "supervise" /\ r.pc = "startBegin" /\ r.stack = t
  BY <1>2, IdleIs DEF States
<1> HIDE DEF r
<1>4. OnTrack(r, archives, givenUp)
  BY <1>3 DEF OnTrack, Starts, Plain, t
<1>5. World' /\ DataSurvives' /\ Running' = Running /\ UNCHANGED <<helper, archives, givenUp, written, shared>>
  BY <1>1 DEF IInv, Quiet, Still, World, history, DataSurvives, Running
<1>6. "supervisor" \in Processes /\ proc["supervisor"].pc # "off" /\ archives \subseteq archives' /\ OnTrack(r, archives', givenUp')
      /\ (Supervised /\ ~shared /\ helper' = "running" => ~Running')
  BY <1>1, <1>4, <1>5 DEF At, Processes, IInv, Rest
<1> QED BY <1>1, <1>3, <1>5, <1>6, TurnTo

LEMMA InterruptedKeeps == ASSUME IInv, Interrupted PROVE IInv'
<1> DEFINE r == [proc["operator"] EXCEPT !.cancelled = TRUE]
<1>1. /\ Becomes("operator", r) /\ UNCHANGED <<vm, volume, helper, config, kubeconfig, current, archives, history>>
      /\ faults' \in 0..MaxFaults
  BY Faulty DEF Interrupted, runtime, files
<1>2. "operator" \in Processes /\ proc["operator"] \in States /\ OnTrack(proc["operator"], archives, givenUp)
      /\ proc["operator"].pc # "off"
  BY Here DEF Processes, IInv, Flow
<1>3. /\ r \in States /\ r.pc = proc["operator"].pc /\ r.in = proc["operator"].in /\ r.ok = proc["operator"].ok
      /\ r.stack = proc["operator"].stack /\ r.cmd = proc["operator"].cmd /\ r.keep = proc["operator"].keep
      /\ r.copy = proc["operator"].copy /\ r.failed = proc["operator"].failed
  BY <1>2 DEF States
<1> HIDE DEF r
<1>4. OnTrack(r, archives, givenUp) /\ (Resting(r) <=> Resting(proc["operator"]))
  <2>1. Kept(r, proc["operator"])
    BY <1>3 DEF Kept
  <2>2. /\ Stops(r, archives) <=> Stops(proc["operator"], archives)
        /\ Changes(r, archives) <=> Changes(proc["operator"], archives)
    BY <1>3 DEF Stops, Changes, Plain, Called, Nested, Has, Sure
  <2> QED BY <1>2, <1>3, <2>1, <2>2, KeptFrame DEF OnTrack, Resting
<1>5. /\ World' /\ DataSurvives' /\ Running' = Running /\ UNCHANGED <<helper, archives, givenUp, written, shared>>
      /\ archives \subseteq archives'
  BY <1>1 DEF IInv, World, history, DataSurvives, Running
<1>6. /\ (Supervised /\ ~shared /\ helper' = "running" => ~Running')
      /\ (~Supervised /\ Resting(r) => ~Running')
  BY <1>3, <1>4, <1>5 DEF IInv, Rest, At
<1>7. OnTrack(r, archives', givenUp') /\ r.pc # "off"
  BY <1>2, <1>3, <1>4, <1>5
<1> QED BY <1>1, <1>2, <1>3, <1>5, <1>6, <1>7, TurnKeeps

(* The server, its clients and the helper.                                   *)
LEMMA BesidesKeeps == ASSUME IInv, VMExits \/ VMWedges \/ BecomesReady \/ HelperEnds \/ ClientWrites PROVE IInv'
<1>1. UNCHANGED <<config, kubeconfig, current, archives, proc, works, shared, givenUp, commands>>
  BY DEF VMExits, VMWedges, BecomesReady, HelperEnds, ClientWrites, files, history
<1>2. Flow' /\ Supervised' = Supervised
  BY <1>1 DEF IInv, Flow, Supervised, At
<1>3. faults' \in 0..MaxFaults
  BY Faulty DEF VMExits, VMWedges, BecomesReady, HelperEnds, ClientWrites, IInv, World
<1>4. CASE VMExits \/ VMWedges
  <2>1. PICK s \in {"stopped", "wedged"} : vm' = [vm EXCEPT !.state = s] /\ Running
    BY <1>4 DEF VMExits, VMWedges, Running
  <2>2. UNCHANGED <<volume, helper, written>>
    BY <1>4 DEF VMExits, VMWedges, history
  <2>3. World' /\ DataSurvives'
    BY <1>1, <1>3, <2>1, <2>2, VMType DEF IInv, World, DataSurvives
  <2>4. Rest'
    BY <1>1, <1>2, <2>1, <2>2 DEF IInv, Rest, At
  <2> QED BY <1>2, <2>3, <2>4 DEF IInv
<1>5. CASE BecomesReady
  <2>1. vm' = [vm EXCEPT !.state = "ready"] /\ Running /\ UNCHANGED <<helper, written>>
        /\ volume' = (IF volume.kind = "blank" THEN Data(0) ELSE volume)
    BY <1>5 DEF BecomesReady, Bootable, Running, history
  <2>2. volume' \in Volumes /\ (volume' = volume \/ volume.kind = "blank")
    BY <2>1, BoundsAssumption DEF IInv, World, Data, Volumes
  <2>3. World'
    BY <1>1, <1>3, <2>1, <2>2, VMType DEF IInv, World
  <2>4. DataSurvives'
    BY <1>1, <2>1, <2>2 DEF IInv, DataSurvives, Data
  <2>5. Rest'
    BY <1>1, <1>2, <2>1 DEF IInv, Rest, At
  <2> QED BY <1>2, <2>3, <2>4, <2>5 DEF IInv
<1>6. CASE HelperEnds
  <2>1. helper' = "stopped" /\ UNCHANGED <<vm, volume, written>>
    BY <1>6 DEF HelperEnds, history
  <2>2. World' /\ DataSurvives' /\ Running' = Running
    BY <1>1, <1>3, <2>1 DEF IInv, World, DataSurvives, Running
  <2>3. Rest'
    BY <1>1, <1>2, <2>1, <2>2 DEF IInv, Rest
  <2> QED BY <1>2, <2>2, <2>3 DEF IInv
<1>7. CASE ClientWrites
  <2>1. /\ written <= MaxWrites /\ written' = written + 1 /\ volume' = Data(written') /\ UNCHANGED <<vm, helper>>
        /\ Running
    BY <1>7, BoundsAssumption DEF ClientWrites, Running, IInv, World
  <2>2. written' \in 0..MaxWrites + 1
    BY <2>1, BoundsAssumption DEF IInv, World
  <2>3. volume' \in Volumes
    BY <2>1, <2>2 DEF Data, Volumes
  <2>4. World' /\ DataSurvives' /\ Running' = Running
    BY <1>1, <1>3, <2>1, <2>2, <2>3 DEF IInv, World, DataSurvives, Running
  <2>5. Rest'
    BY <1>1, <1>2, <2>1, <2>4 DEF IInv, Rest, At
  <2> QED BY <1>2, <2>4, <2>5 DEF IInv
<1> QED BY <1>4, <1>5, <1>6, <1>7

-----------------------------------------------------------------------------
(* The theorems.                                                             *)

LEMMA InitInv == Init => IInv
<1> SUFFICES ASSUME Init PROVE IInv
  OBVIOUS
<1>1. PICK s \in Settings, step \in {"idle", "off"} :
        /\ vm.set = s
        /\ \/ /\ vm = [state |-> "missing", set |-> s] /\ volume = NoData("none")
              /\ config = [state |-> "absent", cfg |-> AnyConfig] /\ written = 0
           \/ /\ vm = [state |-> "ready", set |-> s] /\ volume = Data(1)
              /\ config = [state |-> "whole", cfg |-> [set |-> s, stable |-> TRUE]] /\ written = 1
        /\ proc = [operator |-> Idle, supervisor |-> [Idle EXCEPT !.pc = step]]
  BY DEF Init
<1>2. helper = "missing" /\ archives = {} /\ givenUp = FALSE /\ commands = 0 /\ faults = 0 /\ works \subseteq Settings /\ shared \in BOOLEAN
      /\ kubeconfig \in BOOLEAN /\ current \in BOOLEAN
  BY DEF Init
<1> DEFINE i == [Idle EXCEPT !.pc = step]
<1>3. i \in States /\ i.pc = step /\ i.stack = <<>> /\ i.cmd = "none"
  BY IdleIs, Names DEF States, Steps
<1> HIDE DEF i
<1>4. proc["operator"] = Idle /\ proc["supervisor"] = i /\ proc \in [Processes -> States]
  BY <1>1, <1>3, IdleIs DEF Processes, i
<1>5. OnTrack(Idle, archives, givenUp) /\ OnTrack(i, archives, givenUp) /\ ~Resting(Idle)
  BY <1>3, IdleIs DEF OnTrack, Resting
<1>6. Flow
  BY <1>3, <1>4, <1>5, IdleIs DEF Flow, Processes
<1>7. World
  <2>1. volume \in Volumes /\ written \in 0..MaxWrites + 1
    BY <1>1, BoundsAssumption DEF Volumes, NoData, Data
  <2>2. vm \in [state : {"missing", "stopped", "booting", "ready", "wedged"}, set : Settings]
    BY <1>1
  <2>3. config \in Files
    <3>1. [set |-> s, stable |-> TRUE] \in Configs
      BY DEF Configs
    <3>2. PICK st \in {"absent", "whole"}, c \in Configs : config = [state |-> st, cfg |-> c]
      BY <1>1, <3>1, ConfigIs
    <3> QED BY <3>2 DEF Files
  <2>4. archives \subseteq Backups /\ givenUp \in BOOLEAN /\ helper \in {"missing", "running", "stopped"}
    BY <1>2
  <2>5. commands \in Nat /\ faults \in 0..MaxFaults
    BY <1>2, BoundsAssumption
  <2> QED BY <1>2, <2>1, <2>2, <2>3, <2>4, <2>5 DEF World
<1>8. Rest
  BY <1>2, <1>4, <1>5 DEF Rest
<1>9. DataSurvives
  BY <1>1 DEF DataSurvives, Data
<1> QED BY <1>6, <1>7, <1>8, <1>9 DEF IInv

LEMMA StepKeeps == ASSUME IInv, NEW p \in Processes, Step(p) PROVE IInv'
BY LookingKeeps, StartBeginKeeps, EnsureVolumeKeeps, DeleteStoppedKeeps, SaveKubeconfigKeeps, TruncateConfigKeeps,
   WriteConfigKeeps, SetCurrentKeeps, StopKeeps, DeleteBeginKeeps, DeleteLookKeeps, DeleteEnvelopeKeeps,
   DeleteVolumeKeeps, ForgetKeeps, BackupBeginKeeps, BackupLookKeeps, BackupStoppedKeeps, BackupVolumeKeeps,
   HelperStartKeeps, ArchiveKeeps, PublishKeeps, HelperDeleteKeeps, BackupEndKeeps, BackupStartedKeeps,
   RestoreLookKeeps, RestoreStoppedKeeps, ClearKeeps, ExtractKeeps, ChangeBeginKeeps, UnchangedKeeps, BackedUpKeeps,
   RemovedKeeps, RecreatedKeeps, RolledBackKeeps, ReturnKeeps, CommandFailsKeeps DEF Step

LEMMA StutterKeeps == ASSUME IInv, UNCHANGED vars PROVE IInv'
<1>1. UNCHANGED <<vm, volume, helper, config, kubeconfig, current, archives, proc, works, shared, written, givenUp, commands, faults>>
  BY DEF vars, runtime, files, history
<1>2. Flow' /\ World' /\ Supervised' = Supervised /\ Running' = Running
  BY <1>1 DEF IInv, Flow, World, Supervised, At, Running
<1>3. Rest' /\ DataSurvives'
  BY <1>1, <1>2 DEF IInv, Rest, DataSurvives, At
<1> QED BY <1>2, <1>3 DEF IInv

LEMMA NextInv == IInv /\ [Next]_vars => IInv'
BY IssueKeeps, SuperviseKeeps, StepKeeps, DiesKeeps, InterruptedKeeps, BesidesKeeps, StutterKeeps DEF Next

(* No step of a procedure, of the supervisor, of the runtime, of a guest or  *)
(* of a client leaves the invariant, nor a death or a failure in between.    *)
THEOREM Invariance == Spec => []IInv
BY InitInv, NextInv, PTL DEF Spec

LEMMA StackIs ==
  ASSUME Flow, NEW p \in Processes
  PROVE  Len(proc[p].stack) <= 3 /\ \A i \in DOMAIN proc[p].stack : proc[p].stack[i] \in OtherSteps
<1>1. proc[p] \in States /\ OnTrack(proc[p], archives, givenUp) /\ proc[p].stack \in Seq(OtherSteps)
  BY Here
<1>2. CASE proc[p].pc \in {"idle", "off", "returned"}
  BY <1>1, <1>2 DEF OnTrack
<1>3. CASE proc[p].pc \notin {"idle", "off", "returned"}
  <2>1. Framed(proc[p], archives)
    BY <1>1, <1>3, Framing
  <2>2. \/ proc[p].stack = <<"returned">>
        \/ \E l \in Labels : proc[p].stack = <<l, "returned">>
        \/ \E l \in Labels, m \in Labels : proc[p].stack = <<l, m, "returned">>
    BY <2>1 DEF Framed, Creates, Starts, Stops, Deletes, BacksUp, Restores, Changes, Plain, Called, Nested, Labels
  <2>3. Len(proc[p].stack) <= 3
    <3>1. CASE proc[p].stack = <<"returned">>
      BY <3>1
    <3>2. ASSUME NEW l, proc[p].stack = <<l, "returned">> PROVE Len(proc[p].stack) <= 3
      BY <3>2
    <3>3. ASSUME NEW l, NEW m, proc[p].stack = <<l, m, "returned">> PROVE Len(proc[p].stack) <= 3
      BY <3>3
    <3> QED BY <2>2, <3>1, <3>2, <3>3
  <2> QED BY <1>1, <2>3
<1> QED BY <1>1, <1>2, <1>3

LEMMA TypeHolds == IInv => TypeOK
<1> SUFFICES ASSUME IInv PROVE TypeOK
  OBVIOUS
<1>1. ASSUME NEW p \in Processes
      PROVE  /\ proc[p].cmd \in Commands \cup {"none", "supervise"}
             /\ proc[p].pc \in CommandSteps \cup OtherSteps \cup {"off"}
             /\ Len(proc[p].stack) <= 3
             /\ \A i \in DOMAIN proc[p].stack : proc[p].stack[i] \in OtherSteps
             /\ proc[p].seen \in {"missing", "stopped", "running"}
             /\ proc[p].cfg \in Configs /\ proc[p].goal \in Configs /\ proc[p].copy \in Backups
             /\ \A f \in {"ok", "keep", "resume", "failed", "cancelled"} : proc[p][f] \in BOOLEAN
             /\ proc[p].outcome \in {"none", "changed", "restored"}
  <2>1. proc[p] \in States
    BY <1>1, Here DEF IInv
  <2>2. proc[p].cmd \in Commands \cup {"none", "supervise"}
    BY <1>1 DEF IInv, Flow, Processes
  <2>3. \A f \in {"ok", "keep", "resume", "failed", "cancelled"} : proc[p][f] \in BOOLEAN
    BY <2>1 DEF States
  <2>4. Len(proc[p].stack) <= 3 /\ \A i \in DOMAIN proc[p].stack : proc[p].stack[i] \in OtherSteps
    BY <1>1, StackIs DEF IInv
  <2>5. /\ proc[p].pc \in CommandSteps \cup OtherSteps \cup {"off"}
        /\ proc[p].seen \in {"missing", "stopped", "running"}
        /\ proc[p].cfg \in Configs /\ proc[p].goal \in Configs /\ proc[p].copy \in Backups
        /\ proc[p].outcome \in {"none", "changed", "restored"}
    BY <2>1 DEF States, Steps
  <2> QED BY <2>2, <2>3, <2>4, <2>5
<1> QED BY <1>1 DEF IInv, World, TypeOK

(* The processes, the envelope, the volume, the files and the backups keep   *)
(* their types, and what a procedure returns to is a step of the procedure   *)
(* that called it (Create, Start, Stop, Delete, BackupServer,                *)
(* RestoreServer, UpgradeServer and SetNetworkPolicy).                       *)
THEOREM TypeCorrect == Spec => []TypeOK
BY Invariance, TypeHolds, PTL

(* Whatever the supervisor starts and whoever dies in the middle of a        *)
(* BackupServer, an UpgradeServer, a SetNetworkPolicy or a DeleteServer that *)
(* keeps the volume: the last data the cluster accepted are on the volume or *)
(* in a published backup, unless the operator gave them up.                  *)
THEOREM DataKept == Spec => []DataSurvives
<1>1. IInv => DataSurvives
  BY DEF IInv
<1> QED BY <1>1, Invariance, PTL

(* A step of a process is a turn of that process.                            *)
LEMMA Turns == ASSUME NEW q, Step(q) \/ Dies(q) PROVE \E r : Becomes(q, r)
<1>1. CreateBegin(q) \/ StartBegin(q) \/ EnsureVolume(q) \/ Look(q) \/ DeleteStopped(q) \/ Run(q) => \E r : Becomes(q, r)
  BY DEF CreateBegin, StartBegin, EnsureVolume, Look, DeleteStopped, Run
<1>2. WaitReady(q) \/ ReadKubeconfig(q) \/ SaveKubeconfig(q) \/ TruncateConfig(q) \/ WriteConfig(q) \/ SetCurrent(q) => \E r : Becomes(q, r)
  BY DEF WaitReady, ReadKubeconfig, SaveKubeconfig, TruncateConfig, WriteConfig, SetCurrent
<1>3. ReadStatus(q) \/ Stop(q) \/ DeleteBegin(q) \/ DeleteLook(q) \/ DeleteStop(q) \/ DeleteEnvelope(q) => \E r : Becomes(q, r)
  BY DEF ReadStatus, Stop, DeleteBegin, DeleteLook, DeleteStop, DeleteEnvelope
<1>4. DeleteVolume(q) \/ RemoveConfig(q) \/ RemoveKubeconfig(q) \/ ClearCurrent(q) \/ BackupBegin(q) \/ BackupLook(q) => \E r : Becomes(q, r)
  BY DEF DeleteVolume, RemoveConfig, RemoveKubeconfig, ClearCurrent, BackupBegin, BackupLook
<1>5. BackupStopped(q) \/ BackupVolume(q) \/ HelperStart(q) \/ Archive(q) \/ Publish(q) \/ HelperDelete(q) => \E r : Becomes(q, r)
  BY DEF BackupStopped, BackupVolume, HelperStart, Archive, Publish, HelperDelete
<1>6. BackupEnd(q) \/ BackupStarted(q) \/ RestoreLook(q) \/ RestoreStopped(q) \/ Clear(q) \/ Extract(q) => \E r : Becomes(q, r)
  BY DEF BackupEnd, BackupStarted, RestoreLook, RestoreStopped, Clear, Extract
<1>7. ChangeBegin(q) \/ Unchanged(q) \/ BackedUp(q) \/ Removed(q) \/ Recreated(q) \/ Cleaned(q) => \E r : Becomes(q, r)
  BY DEF ChangeBegin, Unchanged, BackedUp, Removed, Recreated, Cleaned
<1>8. RolledBack(q) \/ Return(q) \/ CommandFails(q) => \E r : Becomes(q, r)
  BY DEF RolledBack, Return, CommandFails
<1>9. Dies(q) => \E r : Becomes(q, r)
  BY DEF Dies
<1> QED BY <1>1, <1>2, <1>3, <1>4, <1>5, <1>6, <1>7, <1>8, <1>9 DEF Step

(* Without a supervisor, or where the runtime refuses to mount a volume      *)
(* twice, no server runs while the helper of BackupServer or RestoreServer   *)
(* reads or writes the volume, whatever failed on the way there, whoever     *)
(* died and whatever helper was left running: without a supervisor because   *)
(* their Stop succeeded and nothing else starts a server; beside one only    *)
(* because the runtime refuses.                                              *)
THEOREM BackupsReadAtRest == Spec => []ReadAtRest
<1>1. IInv => ReadAtRest
  <2> SUFFICES ASSUME IInv, NEW p \in Processes, proc[p].pc \in {"archive", "clear", "extract"},
                      helper = "running", ~(Supervised /\ shared)
               PROVE  ~Running
    BY DEF ReadAtRest
  <2>1. proc[p].in \in {"backup", "restore"} /\ (BackingUp(proc[p]) \/ Restoring(proc[p]))
    BY Here DEF IInv, OnTrack
  <2>2. Resting(proc["operator"])
    BY <2>1, ByOperator DEF Resting
  <2> QED BY <2>2 DEF IInv, Rest
<1> QED BY <1>1, Invariance, PTL

-----------------------------------------------------------------------------
(* What a command may report.  Beside a supervisor nothing of this holds;    *)
(* without one, only the operator's command changes envelope, volume and     *)
(* files, and a server does no more than become Ready and take writes.       *)
ReadySteps   == {"readKubeconfig", "saveKubeconfig", "truncateConfig", "writeConfig", "setCurrent", "status",
                 "truncateStable", "writeStable"}
LaunchSteps  == {"createBegin", "startBegin", "look", "ensureVolume", "delete", "run"}

Op           == proc["operator"]
Whole(s)     == config.state = "whole" /\ config.cfg.set = s
Served(s)    == vm.state = "ready" /\ vm.set = s /\ Whole(s)
Recovered(r) == volume.version >= r.copy.data.version
Gone         == /\ vm.state = "missing" /\ volume.kind = "none"
                /\ config.state = "absent" /\ ~kubeconfig /\ ~current

(* The settings that a change, or its roll-back, makes the server with.      *)
Aiming(r) == r.stack \in {<<"recreated", "returned">>, <<"rolledBack", "returned">>} /\ (Creating(r) \/ Starting(r))
Aim(r)    == IF r.stack = <<"recreated", "returned">> THEN r.goal.set ELSE r.copy.cfg.set

Launches(r) ==
  /\ r.pc \in ReadySteps => vm.state = "ready"
  /\ r.pc \in {"setCurrent", "status", "truncateStable"} => Whole(r.cfg.set)
  /\ Aiming(r) =>
       /\ IF r.pc = "startBegin" THEN Whole(Aim(r)) ELSE r.cfg.set = Aim(r)
       /\ r.pc \in LaunchSteps => ~Running /\ (Creating(r) => vm.state = "missing")
       /\ r.pc \notin LaunchSteps => vm.set = Aim(r)
       /\ r.stack = <<"rolledBack", "returned">> => Recovered(r)

Rewrites(r) ==
  /\ r.pc = "extract" => volume.kind = "blank"
  /\ r.pc \in {"truncateManifest", "writeManifest"} => ~Running /\ Recovered(r)
  /\ r.pc = "helperDelete" /\ r.in = "restore" => ~Running /\ (~r.failed => Recovered(r))

Forgets(r) ==
  /\ r.pc \in ForgetSteps => vm.state = "missing"
  /\ r.pc \in {"removeConfig", "removeKubeconfig", "clearCurrent"} => volume.kind = "none"
  /\ r.pc \in {"removeKubeconfig", "clearCurrent"} => config.state = "absent"
  /\ r.pc = "clearCurrent" => ~kubeconfig

Delivers(r) ==
  /\ r.pc \in {"removed", "cleaned"} /\ r.ok => vm.state = "missing"
  /\ r.pc = "recreated" /\ r.ok => Served(r.goal.set)
  /\ r.pc = "rolledBack" /\ r.ok => Served(r.copy.cfg.set) /\ Recovered(r)
  /\ r.pc = "backupStarted" /\ r.ok => vm.state = "ready"

Reports(r) ==
  r.pc = "returned" =>
    /\ r.outcome = "changed" => Served(r.goal.set)
    /\ r.outcome = "restored" => Served(r.copy.cfg.set) /\ Recovered(r)
    /\ r.cmd = "delete" /\ r.ok => Gone
    /\ r.cmd = "backup" /\ r.resume /\ r.ok => vm.state = "ready"

(* A roll-back of the network policy has no older data to go back to.        *)
Undecided(r) == (r.outcome # "none" => r.pc = "returned") /\ (r.cmd = "policy" => r.copy.data.version = 0)

Promises(r) == Launches(r) /\ Rewrites(r) /\ Forgets(r) /\ Delivers(r) /\ Reports(r) /\ Undecided(r)

(* No data is of a later version than the cluster accepted.                  *)
Dated(d)  == d.version <= written /\ (d.kind # "cluster" => d.version = 0)
Versions  == Dated(volume) /\ Dated(Op.copy.data) /\ \A b \in archives : Dated(b.data)

Sound == Versions /\ (vm.state = "ready" => volume.kind = "cluster") /\ Promises(Op)
Alone == ~Supervised => Sound

-----------------------------------------------------------------------------
(* How the operator's command goes on.                                       *)

USE DEF ReadySteps, LaunchSteps

LEMMA Ops == ASSUME IInv
             PROVE  /\ Op \in States /\ OnTrack(Op, archives, givenUp) /\ "operator" \in Processes
                    /\ Op.pc # "off" /\ Op.cmd \in Commands \cup {"none"} /\ Op.cmd # "supervise" /\ Op.ok \in BOOLEAN
                    /\ Op.copy \in Backups /\ Op.copy.data \in Volumes /\ Op.cfg \in Configs /\ Op.goal \in Configs
<1>1. "operator" \in Processes
  BY DEF Processes
<1>2. Op \in States /\ OnTrack(Op, archives, givenUp)
  BY <1>1, Here DEF IInv, Op
<1> QED BY <1>1, <1>2, CommandsAssumption DEF IInv, Flow, Op, States, Backups, AllCommands

LEMMA TurnsTo == ASSUME IInv, NEW r, Becomes("operator", r) PROVE Op' = r
BY DEF IInv, Flow, Becomes, Op, Processes

LEMMA OpGoes ==
  ASSUME IInv, NEW s \in Steps, Becomes("operator", Goto("operator", s))
  PROVE  Op'.pc = s /\ Op'.stack = Op.stack /\ Op'.ok = Op.ok /\ Like(Op', Op)
<1>1. LET q == Goto("operator", s) IN q.pc = s /\ q.stack = Op.stack /\ q.ok = Op.ok /\ Like(q, Op)
  BY Ops, Goes DEF IInv, Op
<1>2. Op' = Goto("operator", s)
  BY TurnsTo
<1> HIDE DEF Op
<1> QED BY <1>1, <1>2

LEMMA OpReturns ==
  ASSUME IInv, NEW ok \in BOOLEAN, Op.pc \notin {"idle", "off", "returned"}, Becomes("operator", Returns("operator", ok))
  PROVE  /\ Op'.ok = ok /\ Like(Op', Op) /\ Op'.pc \in Labels
         /\ \A C : Plain(Op, C) => Op'.pc = "returned"
         /\ \A C : \A l \in Labels : Called(Op, C, l) => Op'.pc = l
         /\ \A l \in Labels : \A m \in Labels : Nested(Op, l, m) => Op'.pc = l
<1>1. Framed(Op, archives) /\ Op \in States
  BY Ops, Framing
<1>2. Op' = Returning(Op, ok)
  BY TurnsTo DEF Returns, Op
<1>3. Op.stack # <<>>
  BY <1>1 DEF Framed, Creates, Starts, Stops, Deletes, BacksUp, Restores, Changes, Plain, Called, Nested
<1>4. Op'.ok = ok /\ Like(Op', Op) /\ Op'.pc = Head(Op.stack)
  <2>1. LET q == Returning(Op, ok) IN q.ok = ok /\ Like(q, Op) /\ q.pc = Head(Op.stack)
    BY <1>1, <1>3, Comesback
  <2> QED BY <1>2, <2>1
<1>5. Labels \subseteq OtherSteps /\ "returned" \in Labels
  BY Names DEF Labels
<1>6. \A C : Plain(Op, C) => Op'.pc = "returned"
  BY <1>4, <1>5, Frames DEF Plain
<1>7. \A C : \A l \in Labels : Called(Op, C, l) => Op'.pc = l
  BY <1>4, <1>5, Frames DEF Called
<1>8. \A l \in Labels : \A m \in Labels : Nested(Op, l, m) => Op'.pc = l
  BY <1>4, <1>5, Frames DEF Nested
<1>9. Op'.pc \in Labels
  BY <1>1, <1>6, <1>7, <1>8 DEF Framed, Creates, Starts, Stops, Deletes, BacksUp, Restores, Changes, Called, Nested, Labels
<1> QED BY <1>4, <1>6, <1>7, <1>8, <1>9

LEMMA OpCalls ==
  ASSUME IInv, NEW r \in States, NEW s \in Steps, NEW l \in Labels, Becomes("operator", Calling(r, s, l))
  PROVE  /\ Op'.pc = s /\ Op'.ok = r.ok /\ Like(Op', r)
         /\ \A C : Plain(r, C) => Called(Op', C, l)
         /\ \A m \in Labels : Called(r, {"upgrade"}, m) => Nested(Op', l, m)
<1>1. Op' = Calling(r, s, l)
  BY TurnsTo
<1> DEFINE q == Calling(r, s, l)
<1>2. /\ q.pc = s /\ q.ok = r.ok /\ Like(q, r)
      /\ \A C : Plain(r, C) => Called(q, C, l)
      /\ \A m \in Labels : Called(r, {"upgrade"}, m) => Nested(q, l, m)
  BY CallsOn
<1> HIDE DEF q
<1>3. Op' = q
  BY <1>1 DEF q
<1> QED BY <1>2, <1>3

(* Most steps promise nothing.                                               *)
LEMMA Silent ==
  ASSUME ~Aiming(Op)', Undecided(Op)', Op'.pc \in Steps,
         Op'.pc \notin ReadySteps \cup ForgetSteps \cup {"extract", "truncateManifest", "writeManifest", "removed", "cleaned", "recreated",
                                        "rolledBack", "backupStarted", "returned"},
         Op'.pc = "helperDelete" => Op'.in # "restore"
  PROVE  Promises(Op)'
BY DEF Promises, Launches, Rewrites, Forgets, Delivers, Reports

(* Nor does a procedure that has failed.                                     *)
LEMMA Answers ==
  ASSUME Op'.pc \in Labels, Op'.ok => Delivers(Op)' /\ (Op'.pc = "returned" => Reports(Op)'),
         Op'.outcome = "none", (Op'.cmd = "policy" => Op'.copy.data.version = 0)
  PROVE  Promises(Op)'
<1>1. ~Aiming(Op)'
  BY DEF Aiming, Labels
<1> QED BY <1>1 DEF Promises, Launches, Rewrites, Forgets, Delivers, Reports, Undecided, Labels

LEMMA Dates == ASSUME Versions, UNCHANGED <<volume, archives, written>>, Op'.copy = Op.copy PROVE Versions'
BY DEF Versions, Dated

LEMMA Heads == /\ Labels \subseteq OtherSteps /\ OtherSteps \subseteq Steps /\ CommandSteps \subseteq Steps
               /\ {"returned", "backupStopped", "backupStarted", "restoreStopped", "backedUp", "removed", "recreated",
                   "cleaned", "rolledBack"} = Labels
BY Names DEF Labels

-----------------------------------------------------------------------------
(* Create and Start.                                                         *)

(* The files and the containers stay.                                        *)
Idly == UNCHANGED <<vm, volume, config, kubeconfig, current, archives, written>>

LEMMA Idles == ASSUME UNCHANGED <<runtime, files, history, faults>> PROVE Idly
BY DEF runtime, files, history, Idly

(* A step within a launch.                                                   *)
LEMMA Onward ==
  ASSUME Sound, Creating(Op) \/ Starting(Op), Idly, Like(Op', Op), Op'.stack = Op.stack, Op.pc # "startBegin",
         Creating(Op)' <=> Creating(Op), Starting(Op)' <=> Starting(Op), Op'.pc \in UpSteps,
         Op'.pc \in ReadySteps => vm.state = "ready",
         Op'.pc \in {"setCurrent", "status", "truncateStable"} => Whole(Op.cfg.set),
         Aiming(Op) => (Op'.pc \in LaunchSteps <=> Op.pc \in LaunchSteps)
  PROVE  Sound'
<1>1. Versions'
  BY Dates DEF Sound, Idly, Like
<1>2. Promises(Op)'
  BY DEF Sound, Promises, Launches, Rewrites, Forgets, Delivers, Reports, Undecided, Aiming, Aim, Idly, Like, Whole,
         Running, Recovered
<1> QED BY <1>1, <1>2 DEF Sound, Idly

LEMMA CreateBeginSound == ASSUME IInv, Sound, CreateBegin("operator") PROVE Sound'
<1> DEFINE q == Goto("operator", "ensureVolume")
<1>1. q \in States /\ q.pc = "ensureVolume" /\ q.stack = Op.stack /\ Like(q, Op)
  BY Goes, Names, Ops DEF IInv, Op
<1>2. Op' = [q EXCEPT !.in = "create"] /\ Op.pc = "createBegin" /\ Idly
  BY TurnsTo, Idles DEF CreateBegin, At, Op
<1> HIDE DEF q
<1>3. /\ Op'.pc = "ensureVolume" /\ Op'.in = "create" /\ Op'.stack = Op.stack /\ Op'.copy = Op.copy /\ Op'.cfg = Op.cfg
      /\ Op'.goal = Op.goal /\ Op'.cmd = Op.cmd /\ Op'.outcome = Op.outcome
  BY <1>1, <1>2 DEF States, Like
<1>4. Versions'
  BY <1>2, <1>3, Dates DEF Sound, Idly
<1>5. Promises(Op)'
  BY <1>2, <1>3 DEF Sound, Promises, Launches, Rewrites, Forgets, Delivers, Reports, Undecided, Aiming, Aim, Idly, Whole,
         Running, Recovered
<1> QED BY <1>2, <1>4, <1>5 DEF Sound, Idly

(* A procedure that fails has nothing to deliver.                            *)
LEMMA FailsSound ==
  ASSUME IInv, Sound, Op.pc \notin {"idle", "off", "returned"}, Becomes("operator", Returns("operator", FALSE)), Idly
  PROVE  Sound'
<1>1. Op'.ok = FALSE /\ Like(Op', Op) /\ Op'.pc \in Labels
  BY OpReturns
<1>2. Versions'
  BY <1>1, Dates DEF Sound, Idly, Like
<1>3. ~Op'.ok
  BY <1>1
<1>4. Promises(Op)'
  BY <1>1, <1>3, Answers DEF Sound, Promises, Undecided, Like
<1> QED BY <1>2, <1>4 DEF Sound, Idly

LEMMA StartBeginSound == ASSUME IInv, Sound, StartBegin("operator") PROVE Sound'
<1>1. Op.pc = "startBegin" /\ Idly
  BY Idles DEF StartBegin, At, Op
<1>2. CASE config.state # "whole"
  BY <1>1, <1>2, FailsSound DEF StartBegin
<1>3. CASE config.state = "whole"
  <2> DEFINE q == Goto("operator", "look")
  <2>1. q \in States /\ q.pc = "look" /\ q.stack = Op.stack /\ Like(q, Op)
    BY Goes, Names, Ops DEF IInv, Op
  <2>2. Op' = [q EXCEPT !.in = "start", !.cfg = config.cfg]
    BY <1>3, TurnsTo DEF StartBegin
  <2> HIDE DEF q
  <2>3. /\ Op'.pc = "look" /\ Op'.in = "start" /\ Op'.stack = Op.stack /\ Op'.copy = Op.copy /\ Op'.cfg = config.cfg
        /\ Op'.goal = Op.goal /\ Op'.cmd = Op.cmd /\ Op'.outcome = Op.outcome
    BY <2>1, <2>2 DEF States, Like
  <2>4. Versions'
    BY <1>1, <2>3, Dates DEF Sound, Idly
  <2>5. Promises(Op)'
    BY <1>1, <2>3 DEF Sound, Promises, Launches, Rewrites, Forgets, Delivers, Reports, Undecided, Aiming, Aim, Idly, Whole,
           Running, Recovered
  <2> QED BY <1>1, <2>4, <2>5 DEF Sound, Idly
<1> QED BY <1>2, <1>3

LEMMA EnsureVolumeSound == ASSUME IInv, Sound, EnsureVolume("operator") PROVE Sound'
<1>1. /\ Op.pc = "ensureVolume" /\ UNCHANGED <<vm, config, kubeconfig, current, archives, written>>
      /\ volume' = IF volume.kind = "none" THEN NoData("blank") ELSE volume
  BY DEF EnsureVolume, Runs, At, Op, files, history
<1>2. OnTrack(Op, archives, givenUp) /\ Op.in \in {"create", "start", "restore"}
  BY <1>1, Ops DEF OnTrack
<1>3. PICK s \in {"look", "helperStart", "delete", "run"} :
        Becomes("operator", Goto("operator", s)) /\ (s = "helperStart" <=> Op.in = "restore")
  BY <1>2 DEF EnsureVolume, Op
<1>4. Op'.pc = s /\ Op'.stack = Op.stack /\ Like(Op', Op)
  BY <1>3, OpGoes, Names
<1>5. volume'.version = volume.version /\ Dated(volume)' /\ (vm.state = "ready" => volume.kind = "cluster")
  BY <1>1 DEF Sound, Versions, Dated, NoData
<1>6. Versions'
  BY <1>1, <1>4, <1>5 DEF Sound, Versions, Dated, Like
<1>7. Promises(Op)'
  BY <1>1, <1>2, <1>3, <1>4, <1>5
     DEF Sound, Promises, Launches, Rewrites, Forgets, Delivers, Reports, Undecided, Aiming, Aim, Idly, Like, Whole,
         Running, Recovered
<1> QED BY <1>1, <1>5, <1>6, <1>7 DEF Sound, NoData

LEMMA LookSound == ASSUME IInv, Sound, Look("operator") PROVE Sound'
<1>1. Op.pc = "look" /\ Idly /\ OnTrack(Op, archives, givenUp)
  BY Idles, Ops DEF Look, Runs, At, Op
<1>2. Op.in \in {"create", "start"}
  BY <1>1 DEF OnTrack
<1>3. Seen = "missing" <=> vm.state = "missing"
  BY DEF Seen, Running
<1>4. Seen = "running" <=> Running
  BY DEF Seen, Running
<1>5. PICK s \in {"waitReady", "ensureVolume", "delete", "run"}, c \in Configs :
        /\ Becomes("operator", [Goto("operator", s) EXCEPT !.seen = Seen, !.cfg = c])
        /\ s = "waitReady" <=> Running
        /\ vm.state = "missing" => s \in {"ensureVolume", "run"}
        /\ c # Op.cfg => vm.state # "missing" /\ Op.in = "create"
  <2>1. Seen = "stopped" => vm.state # "missing"
    BY DEF Seen, Running
  <2>2. /\ Op.cfg = Goto("operator", "waitReady").cfg /\ Op.cfg = Goto("operator", "ensureVolume").cfg
        /\ Op.cfg = Goto("operator", "delete").cfg /\ Op.cfg = Goto("operator", "run").cfg
    BY Goes, Names, Ops DEF IInv, Like, Op
  <2>3. Op.cfg \in Configs /\ config.cfg \in Configs
    BY Ops DEF IInv, World, Files
  <2> QED BY <1>3, <1>4, <2>1, <2>2, <2>3 DEF Look, Op
<1> DEFINE q == Goto("operator", s)
<1>6. q \in States /\ q.pc = s /\ q.stack = Op.stack /\ Like(q, Op)
  BY Goes, Names, Ops DEF IInv, Op
<1>7. Op' = [q EXCEPT !.seen = Seen, !.cfg = c]
  BY <1>5, TurnsTo
<1> HIDE DEF q
<1>8. /\ Op'.pc = s /\ Op'.in = Op.in /\ Op'.stack = Op.stack /\ Op'.copy = Op.copy /\ Op'.cfg = c
      /\ Op'.goal = Op.goal /\ Op'.cmd = Op.cmd /\ Op'.outcome = Op.outcome
  BY <1>6, <1>7 DEF States, Like
<1>9. Versions'
  BY <1>1, <1>8, Dates DEF Sound, Idly
<1>10. Promises(Op)'
  BY <1>1, <1>2, <1>5, <1>8
     DEF Sound, Promises, Launches, Rewrites, Forgets, Delivers, Reports, Undecided, Aiming, Aim, Idly, Whole,
         Running, Recovered
<1> QED BY <1>1, <1>9, <1>10 DEF Sound, Idly

LEMMA RunSound == ASSUME IInv, Sound, DeleteStopped("operator") \/ Run("operator") PROVE Sound'
<1>1. PICK s \in {"run", "waitReady"} :
        /\ Becomes("operator", Goto("operator", s))
        /\ s = "run" => Op.pc = "delete" /\ vm.state = "stopped" /\ vm' = [vm EXCEPT !.state = "missing"]
        /\ s = "waitReady" => Op.pc = "run" /\ vm' = [state |-> "booting", set |-> Op.cfg.set]
        /\ UNCHANGED <<volume, config, kubeconfig, current, archives, written>>
  BY DEF DeleteStopped, Run, Runs, Possible, At, files, history, Op
<1>2. Op'.pc = s /\ Op'.stack = Op.stack /\ Like(Op', Op) /\ OnTrack(Op, archives, givenUp)
  BY <1>1, OpGoes, Ops, Names
<1>3. vm'.state \in {"missing", "booting"} /\ (s = "run" => vm'.state = "missing")
      /\ (s = "waitReady" => vm'.set = Op.cfg.set)
  BY <1>1, VMType
<1>4. Op.in \in {"create", "start"}
  BY <1>1, <1>2 DEF OnTrack
<1>5. Versions'
  BY <1>1, <1>2, Dates DEF Sound, Like
<1>6. Promises(Op)'
  BY <1>1, <1>2, <1>3, <1>4
     DEF Sound, Promises, Launches, Rewrites, Forgets, Delivers, Reports, Undecided, Aiming, Aim, Like, Whole,
         Running, Recovered
<1> QED BY <1>3, <1>5, <1>6 DEF Sound

LEMMA WaitReadySound == ASSUME IInv, Sound, WaitReady("operator") \/ ReadKubeconfig("operator") PROVE Sound'
<1>1. PICK s \in {"readKubeconfig", "saveKubeconfig"} :
        /\ Becomes("operator", Goto("operator", s)) /\ vm.state = "ready" /\ Idly
        /\ Op.pc \in {"waitReady", "readKubeconfig"}
  BY Idles DEF WaitReady, ReadKubeconfig, Runs, Possible, At, Op
<1>2. Op'.pc = s /\ Op'.stack = Op.stack /\ Like(Op', Op) /\ OnTrack(Op, archives, givenUp)
  BY <1>1, OpGoes, Ops, Names
<1>3. Op.in \in {"create", "start"} /\ Op'.in = Op.in
  BY <1>1, <1>2 DEF OnTrack, Like
<1> QED BY <1>1, <1>2, <1>3, Onward

LEMMA SaveKubeconfigSound == ASSUME IInv, Sound, SaveKubeconfig("operator") PROVE Sound'
<1>1. /\ Becomes("operator", Goto("operator", "truncateConfig")) /\ Op.pc = "saveKubeconfig"
      /\ UNCHANGED <<vm, volume, config, archives, written>>
  BY DEF SaveKubeconfig, At, Op, runtime, history
<1>2. Op'.pc = "truncateConfig" /\ Op'.stack = Op.stack /\ Like(Op', Op)
  BY <1>1, OpGoes, Names, Heads DEF Steps, OtherSteps
<1>3. Versions'
  BY <1>1, <1>2, Dates DEF Sound, Like
<1>4. Promises(Op)'
  BY <1>1, <1>2
     DEF Sound, Promises, Launches, Rewrites, Forgets, Delivers, Reports, Undecided, Aiming, Aim, Like, Whole,
         Running, Recovered
<1> QED BY <1>1, <1>3, <1>4 DEF Sound

LEMMA TruncateConfigSound == ASSUME IInv, Sound, TruncateConfig("operator") PROVE Sound'
<1>1. PICK s \in {"writeConfig", "writeStable", "writeManifest"} :
        /\ Becomes("operator", Goto("operator", s))
        /\ s = "writeConfig" => Op.pc = "truncateConfig"
        /\ s = "writeStable" => Op.pc = "truncateStable"
        /\ s = "writeManifest" => Op.pc = "truncateManifest"
        /\ UNCHANGED <<vm, volume, archives, written>>
  BY DEF TruncateConfig, At, Op, runtime, history
<1>2. Op'.pc = s /\ Op'.stack = Op.stack /\ Like(Op', Op) /\ OnTrack(Op, archives, givenUp)
  BY <1>1, OpGoes, Ops, Heads DEF OtherSteps
<1>3. Versions'
  BY <1>1, <1>2, Dates DEF Sound, Like
<1>4. Promises(Op)'
  BY <1>1, <1>2
     DEF Sound, Promises, Launches, Rewrites, Forgets, Delivers, Reports, Undecided, Aiming, Aim, Like, Whole,
         Running, Recovered
<1> QED BY <1>1, <1>3, <1>4 DEF Sound

(* The last step of Create and of Start.                                     *)
LEMMA LaunchedSound ==
  ASSUME IInv, Sound, Op.pc \in UpSteps, Op.in \in {"create", "start"}, Op.pc \notin LaunchSteps,
         Becomes("operator", Returns("operator", TRUE)), UNCHANGED <<vm, volume, archives, written>>,
         vm.state = "ready", Whole(Op.cfg.set)'
  PROVE  Sound'
<1>1. Creates(Op, archives) \/ Starts(Op, archives)
  BY Ops DEF OnTrack
<1>2. Op'.ok /\ Like(Op', Op) /\ Op'.pc \in Labels
  BY OpReturns
<1>3. Versions'
  BY <1>2, Dates DEF Sound, Like
<1>4. Op'.cfg = Op.cfg /\ Op'.goal = Op.goal /\ Op'.copy = Op.copy /\ Op'.cmd = Op.cmd /\ Op'.outcome = Op.outcome
  BY <1>2 DEF Like
<1>5. Op.outcome = "none" /\ (Op.cmd = "policy" => Op.copy.data.version = 0)
  BY DEF Sound, Promises, Undecided
<1>6. Delivers(Op)' /\ (Op'.pc = "returned" => Reports(Op)')
  <2>1. CASE Plain(Op, {"create", "start", "supervise", "restore"})
    <3>1. Op'.pc = "returned" /\ Op.cmd \in {"create", "start", "supervise", "restore"}
      BY <2>1, OpReturns DEF Plain
    <3> QED BY <1>4, <1>5, <3>1 DEF Delivers, Reports
  <2>2. CASE Called(Op, {"upgrade", "policy"}, "recreated")
    <3>1. Op'.pc = "recreated" /\ Op.stack = <<"recreated", "returned">>
      BY <2>2, OpReturns DEF Called, Labels
    <3>2. Op.cfg.set = Op.goal.set /\ vm.set = Op.goal.set
      BY <3>1 DEF Sound, Promises, Launches, Aiming, Aim
    <3> QED BY <1>4, <3>1, <3>2 DEF Delivers, Reports, Served, Whole
  <2>3. CASE Called(Op, {"upgrade", "policy"}, "rolledBack")
    <3>1. Op'.pc = "rolledBack" /\ Op.stack = <<"rolledBack", "returned">>
      BY <2>3, OpReturns DEF Called, Labels
    <3>2. Op.stack # <<"recreated", "returned">>
      BY <3>1
    <3>3. Op.cfg.set = Op.copy.cfg.set /\ vm.set = Op.copy.cfg.set /\ Recovered(Op)
      BY <3>1, <3>2 DEF Sound, Promises, Launches, Aiming, Aim
    <3> QED BY <1>4, <3>1, <3>3 DEF Delivers, Reports, Served, Whole, Recovered
  <2>4. CASE Called(Op, {"backup"}, "backupStarted") \/ Nested(Op, "backupStarted", "backedUp")
    <3>1. Op'.pc = "backupStarted"
      BY <2>4, OpReturns DEF Labels
    <3> QED BY <3>1 DEF Delivers, Reports
  <2>5. Creates(Op, archives) => Plain(Op, {"create", "start", "supervise", "restore"})
           \/ Called(Op, {"upgrade", "policy"}, "recreated") \/ Called(Op, {"upgrade", "policy"}, "rolledBack")
    BY DEF Creates, Plain, Called
  <2>6. Starts(Op, archives) => Plain(Op, {"create", "start", "supervise", "restore"})
           \/ Called(Op, {"upgrade", "policy"}, "rolledBack")
           \/ Called(Op, {"backup"}, "backupStarted") \/ Nested(Op, "backupStarted", "backedUp")
    BY DEF Starts, Plain, Called
  <2> QED BY <1>1, <2>1, <2>2, <2>3, <2>4, <2>5, <2>6
<1>7. Promises(Op)'
  BY <1>2, <1>4, <1>5, <1>6, Answers
<1> QED BY <1>3, <1>7 DEF Sound

LEMMA WriteConfigSound == ASSUME IInv, Sound, WriteConfig("operator") PROVE Sound'
<1>1. /\ Op.pc \in {"writeConfig", "writeStable", "writeManifest"} /\ UNCHANGED <<vm, volume, archives, written>>
      /\ config' = [state |-> "whole", cfg |-> IF Op.pc = "writeManifest" THEN Op.copy.cfg ELSE Op.cfg]
  BY DEF WriteConfig, At, Op, runtime, history
<1>2. OnTrack(Op, archives, givenUp) /\ Op \in States
  BY Ops
<1>3. CASE Op.pc = "writeStable"
  <2>1. Becomes("operator", Returns("operator", TRUE))
    BY <1>3 DEF WriteConfig, At, Op
  <2>2. config'.state = "whole" /\ config'.cfg.set = Op.cfg.set /\ Op.in \in {"create", "start"} /\ vm.state = "ready"
    BY <1>1, <1>2, <1>3 DEF OnTrack, Sound, Promises, Launches
  <2>3. Op'.cfg = Op.cfg
    BY <1>3, <2>1, OpReturns DEF Like
  <2>4. Whole(Op.cfg.set)'
    BY <2>2, <2>3 DEF Whole
  <2> QED BY <1>1, <1>3, <2>1, <2>2, <2>4, LaunchedSound
<1>4. CASE Op.pc = "writeManifest"
  <2>1. Becomes("operator", Goto("operator", "startBegin"))
    BY <1>4 DEF WriteConfig, At, Op
  <2>2. Op'.pc = "startBegin" /\ Op'.stack = Op.stack /\ Like(Op', Op)
    BY <2>1, OpGoes, Names
  <2>3. Op.stack # <<"recreated", "returned">>
    BY <1>2, <1>4 DEF OnTrack, Restores, Plain, Called
  <2>4. Versions'
    BY <1>1, <2>2, Dates DEF Sound, Like
  <2>5. Promises(Op)'
    BY <1>1, <1>4, <2>2, <2>3
       DEF Sound, Promises, Launches, Rewrites, Forgets, Delivers, Reports, Undecided, Aiming, Aim, Like, Whole,
           Running, Recovered
  <2> QED BY <1>1, <2>4, <2>5 DEF Sound
<1>5. CASE Op.pc = "writeConfig"
  <2>1. PICK s \in {"setCurrent", "status"} : Becomes("operator", Goto("operator", s))
    BY <1>5 DEF WriteConfig, At, Op
  <2>2. Op'.pc = s /\ Op'.stack = Op.stack /\ Like(Op', Op)
    BY <2>1, OpGoes, Names
  <2>3. Versions'
    BY <1>1, <2>2, Dates DEF Sound, Like
  <2>4. Promises(Op)'
    BY <1>1, <1>5, <2>2
       DEF Sound, Promises, Launches, Rewrites, Forgets, Delivers, Reports, Undecided, Aiming, Aim, Like, Whole,
           Running, Recovered
  <2> QED BY <1>1, <2>3, <2>4 DEF Sound
<1> QED BY <1>1, <1>3, <1>4, <1>5

LEMMA FinishSound == ASSUME IInv, Sound, SetCurrent("operator") \/ ReadStatus("operator") PROVE Sound'
<1>1. Op.pc \in {"setCurrent", "status"} /\ UNCHANGED <<vm, volume, config, archives, written>> /\ Op.in \in {"create", "start"}
  BY Ops DEF SetCurrent, ReadStatus, Runs, At, Op, runtime, files, history, OnTrack
<1>2. vm.state = "ready" /\ Whole(Op.cfg.set) /\ Op \in States
  BY <1>1, Ops DEF Sound, Promises, Launches
<1>3. CASE Becomes("operator", Returns("operator", TRUE))
  <2>1. Op'.cfg = Op.cfg
    BY <1>1, <1>3, OpReturns DEF Like
  <2> QED BY <1>1, <1>2, <1>3, <2>1, LaunchedSound DEF Whole
<1>4. CASE Becomes("operator", [proc["operator"] EXCEPT !.pc = "truncateStable", !.cfg.stable = TRUE])
  <2> DEFINE c == [Op.cfg EXCEPT !.stable = TRUE]
  <2>1. Op' = [Op EXCEPT !.pc = "truncateStable", !.cfg = c]
    <3>1. Op' = [Op EXCEPT !.pc = "truncateStable", !.cfg.stable = TRUE]
      BY <1>4, TurnsTo DEF Op
    <3> QED BY <1>2, <3>1 DEF States
  <2>2. c.set = Op.cfg.set
    BY <1>2 DEF States, Configs
  <2> HIDE DEF c
  <2>3. /\ Op'.pc = "truncateStable" /\ Op'.in = Op.in /\ Op'.stack = Op.stack /\ Op'.copy = Op.copy /\ Op'.cfg.set = Op.cfg.set
        /\ Op'.goal = Op.goal /\ Op'.cmd = Op.cmd /\ Op'.outcome = Op.outcome
    BY <1>2, <2>1, <2>2 DEF States
  <2>4. Versions'
    BY <1>1, <2>3, Dates DEF Sound
  <2>5. Promises(Op)'
    BY <1>1, <1>2, <2>3
       DEF Sound, Promises, Launches, Rewrites, Forgets, Delivers, Reports, Undecided, Aiming, Aim, Whole,
           Running, Recovered
  <2> QED BY <1>1, <2>4, <2>5 DEF Sound
<1>5. CASE Becomes("operator", Goto("operator", "status")) \/ Becomes("operator", Goto("operator", "setCurrent"))
  <2>1. PICK s \in {"status", "setCurrent"} : Becomes("operator", Goto("operator", s))
    BY <1>5
  <2>2. Op'.pc = s /\ Op'.stack = Op.stack /\ Like(Op', Op)
    BY <2>1, OpGoes, Names
  <2>3. Versions'
    BY <1>1, <2>2, Dates DEF Sound, Like
  <2>4. Promises(Op)'
    BY <1>1, <1>2, <2>2
       DEF Sound, Promises, Launches, Rewrites, Forgets, Delivers, Reports, Undecided, Aiming, Aim, Like, Whole,
           Running, Recovered
  <2> QED BY <1>1, <2>3, <2>4 DEF Sound
<1> QED BY <1>3, <1>4, <1>5 DEF SetCurrent, ReadStatus, Finished, Returns

-----------------------------------------------------------------------------
(* Stop and DeleteServer.                                                    *)

LEMMA StopSound == ASSUME IInv, Sound, Stop("operator") PROVE Sound'
<1>1. /\ Becomes("operator", Returns("operator", TRUE)) /\ Op.pc = "stop" /\ vm' = [vm EXCEPT !.state = "stopped"]
      /\ UNCHANGED <<volume, config, kubeconfig, current, archives, written>>
  BY DEF Stop, Runs, At, Op, files, history
<1>2. Stops(Op, archives)
  BY <1>1, Ops DEF OnTrack
<1>3. Like(Op', Op) /\ Op'.pc \in Labels
  BY <1>1, OpReturns
<1>4. Op'.pc \in {"returned", "backupStopped", "restoreStopped"} /\ (Op'.pc = "returned" => Op.cmd = "stop")
  <2>1. CASE Plain(Op, {"stop"})
    BY <1>1, <2>1, OpReturns DEF Plain
  <2>2. ASSUME NEW l \in {"backupStopped", "restoreStopped"}, NEW m \in Labels, NEW C, Called(Op, C, l) \/ Nested(Op, l, m)
        PROVE  Op'.pc = l
    BY <1>1, <2>2, OpReturns, Heads
  <2> QED BY <1>2, <2>1, <2>2, Heads DEF Stops
<1>5. vm'.state = "stopped"
  BY <1>1, VMType
<1>6. Versions'
  BY <1>1, <1>3, Dates DEF Sound, Like
<1>7. Op'.outcome = "none" /\ (Op'.cmd = "policy" => Op'.copy.data.version = 0) /\ Op'.cmd = Op.cmd
  BY <1>1, <1>3 DEF Sound, Promises, Undecided, Like
<1>8. Promises(Op)'
  BY <1>3, <1>4, <1>7, Answers DEF Delivers, Reports
<1> QED BY <1>5, <1>6, <1>8 DEF Sound

LEMMA DeleteBeginSound == ASSUME IInv, Sound, DeleteBegin("operator") PROVE Sound'
<1>1. Op.pc = "deleteBegin" /\ Idly
  BY Idles DEF DeleteBegin, At, Op
<1>2. CASE Becomes("operator", Returns("operator", FALSE))
  BY <1>1, <1>2, FailsSound
<1>3. CASE Becomes("operator", Goto("operator", "deleteLook"))
  <2>1. Op'.pc = "deleteLook" /\ Like(Op', Op)
    BY <1>3, OpGoes, Names
  <2>2. Versions'
    BY <1>1, <2>1, Dates DEF Sound, Idly, Like
  <2>3. Promises(Op)'
    BY <1>1, <2>1, Silent, Names DEF Sound, Promises, Undecided, Like, Aiming
  <2> QED BY <1>1, <2>2, <2>3 DEF Sound, Idly
<1> QED BY <1>2, <1>3 DEF DeleteBegin

(* Once the envelope is gone.                                                *)
LEMMA EnvelopeGoneSound ==
  ASSUME IInv, Sound, Op.pc \in {"deleteLook", "deleteEnvelope"}, Becomes("operator", EnvelopeGone(Op)),
         vm'.state = "missing", UNCHANGED <<volume, config, kubeconfig, current, archives, written>>
  PROVE  Sound'
<1>1. OnTrack(Op, archives, givenUp) /\ Deletes(Op, archives) /\ Op \in States
  BY Ops DEF OnTrack
<1>2. CASE Op.keep
  <2>1. Becomes("operator", Returns("operator", TRUE))
    BY <1>2 DEF EnvelopeGone, Returns, Op
  <2>2. Like(Op', Op) /\ Op'.pc \in Labels
    BY <2>1, OpReturns
  <2>3. Op'.pc \in {"returned", "removed", "cleaned"} /\ (Op'.pc = "returned" => Op.cmd = "deleteKeep")
    <3>1. CASE Plain(Op, {"deleteKeep"})
      BY <2>1, <3>1, OpReturns DEF Plain
    <3>2. ASSUME NEW l \in {"removed", "cleaned"}, NEW C, Called(Op, C, l) PROVE Op'.pc = l
      BY <2>1, <3>2, OpReturns, Heads
    <3> QED BY <1>1, <1>2, <3>1, <3>2 DEF Deletes
  <2>4. Versions'
    BY <2>2, Dates DEF Sound, Like
  <2>5. Op'.outcome = "none" /\ (Op'.cmd = "policy" => Op'.copy.data.version = 0) /\ Op'.cmd = Op.cmd
    BY <2>2 DEF Sound, Promises, Undecided, Like
  <2>6. Promises(Op)'
    BY <2>2, <2>3, <2>5, Answers DEF Delivers, Reports
  <2> QED BY <2>4, <2>6 DEF Sound
<1>3. CASE ~Op.keep
  <2>1. Becomes("operator", Goto("operator", "deleteVolume"))
    BY <1>3 DEF EnvelopeGone, Goto, Op
  <2>2. Op'.pc = "deleteVolume" /\ Like(Op', Op)
    BY <2>1, OpGoes, Names
  <2>3. Versions'
    BY <2>2, Dates DEF Sound, Like
  <2>4. Promises(Op)'
    BY <2>2 DEF Sound, Promises, Launches, Rewrites, Forgets, Delivers, Reports, Undecided, Aiming, Like
  <2> QED BY <2>3, <2>4 DEF Sound
<1> QED BY <1>2, <1>3

LEMMA DeleteLookSound == ASSUME IInv, Sound, DeleteLook("operator") PROVE Sound'
<1>1. Op.pc = "deleteLook" /\ Idly
  BY Idles DEF DeleteLook, Runs, At, Op
<1>2. CASE Becomes("operator", EnvelopeGone(Op)) /\ Seen = "missing"
  <2>1. vm.state = "missing"
    BY <1>2 DEF Seen, Running
  <2> QED BY <1>1, <1>2, <2>1, EnvelopeGoneSound DEF Idly
<1>3. ASSUME NEW s \in {"deleteEnvelope", "deleteStop"}, Becomes("operator", Goto("operator", s)) PROVE Sound'
  <2>1. Op'.pc = s /\ Like(Op', Op)
    BY <1>3, OpGoes, Names
  <2>2. Versions'
    BY <1>1, <2>1, Dates DEF Sound, Idly, Like
  <2>3. Promises(Op)'
    BY <1>1, <2>1, Silent, Names DEF Sound, Promises, Undecided, Like, Aiming
  <2> QED BY <1>1, <2>2, <2>3 DEF Sound, Idly
<1> QED BY <1>2, <1>3 DEF DeleteLook, Op

LEMMA DeleteStopSound == ASSUME IInv, Sound, DeleteStop("operator") PROVE Sound'
<1>1. /\ Becomes("operator", Goto("operator", "deleteEnvelope")) /\ Op.pc = "deleteStop"
      /\ vm' = [vm EXCEPT !.state = "stopped"]
      /\ UNCHANGED <<volume, config, kubeconfig, current, archives, written>>
  BY DEF DeleteStop, Runs, At, Op, files, history
<1>2. Op'.pc = "deleteEnvelope" /\ Like(Op', Op) /\ vm'.state = "stopped"
  BY <1>1, OpGoes, Names, VMType
<1>3. Versions'
  BY <1>1, <1>2, Dates DEF Sound, Like
<1>4. Promises(Op)'
  BY <1>1, <1>2, Silent, Names DEF Sound, Promises, Undecided, Like, Aiming
<1> QED BY <1>2, <1>3, <1>4 DEF Sound

LEMMA DeleteEnvelopeSound == ASSUME IInv, Sound, DeleteEnvelope("operator") PROVE Sound'
<1>1. /\ Becomes("operator", EnvelopeGone(Op)) /\ Op.pc = "deleteEnvelope" /\ vm' = [vm EXCEPT !.state = "missing"]
      /\ UNCHANGED <<volume, config, kubeconfig, current, archives, written>>
  BY DEF DeleteEnvelope, Runs, At, Op, files, history
<1> QED BY <1>1, VMType, EnvelopeGoneSound

LEMMA DeleteVolumeSound == ASSUME IInv, Sound, DeleteVolume("operator") PROVE Sound'
<1>1. /\ Becomes("operator", Goto("operator", "removeConfig")) /\ Op.pc = "deleteVolume" /\ volume' = NoData("none")
      /\ UNCHANGED <<vm, config, kubeconfig, current, archives, written>>
  BY DEF DeleteVolume, Runs, At, Op, files, history
<1>2. Op'.pc = "removeConfig" /\ Like(Op', Op)
  BY <1>1, OpGoes, Names
<1>3. vm.state = "missing"
  BY <1>1 DEF Sound, Promises, Forgets
<1>4. Versions'
  BY <1>1, <1>2 DEF IInv, World, Sound, Versions, Dated, NoData, Like
<1>5. Promises(Op)'
  BY <1>1, <1>2, <1>3
     DEF Sound, Promises, Launches, Rewrites, Forgets, Delivers, Reports, Undecided, Aiming, Like, NoData
<1> QED BY <1>1, <1>3, <1>4, <1>5 DEF Sound

LEMMA ForgetSound == ASSUME IInv, Sound, RemoveConfig("operator") \/ RemoveKubeconfig("operator") PROVE Sound'
<1>1. PICK s \in {"removeKubeconfig", "clearCurrent"} :
        /\ Becomes("operator", Goto("operator", s))
        /\ s = "removeKubeconfig" => Op.pc = "removeConfig" /\ config'.state = "absent"
        /\ s = "clearCurrent" => Op.pc = "removeKubeconfig" /\ config' = config /\ kubeconfig' = FALSE
        /\ UNCHANGED <<vm, volume, archives, written>>
  BY DEF RemoveConfig, RemoveKubeconfig, At, Op, runtime, history
<1>2. Op'.pc = s /\ Like(Op', Op)
  BY <1>1, OpGoes, Names
<1>3. Versions'
  BY <1>1, <1>2, Dates DEF Sound, Like
<1>4. s = "clearCurrent" => ~kubeconfig'
  BY <1>1
<1>5. Promises(Op)'
  BY <1>1, <1>2, <1>4
     DEF Sound, Promises, Launches, Rewrites, Forgets, Delivers, Reports, Undecided, Aiming, Like
<1> QED BY <1>1, <1>3, <1>5 DEF Sound

LEMMA ClearCurrentSound == ASSUME IInv, Sound, ClearCurrent("operator") PROVE Sound'
<1>1. /\ Becomes("operator", Returns("operator", TRUE)) /\ Op.pc = "clearCurrent" /\ current' = FALSE
      /\ UNCHANGED <<vm, volume, config, kubeconfig, archives, written>>
  BY DEF ClearCurrent, At, Op, runtime, history
<1>2. Plain(Op, {"delete"})
  BY <1>1, Ops DEF OnTrack, Deletes
<1>3. Like(Op', Op) /\ Op'.pc = "returned"
  BY <1>1, <1>2, OpReturns
<1>4. Gone'
  <2>1. ~current'
    BY <1>1
  <2> QED BY <1>1, <2>1 DEF Sound, Promises, Forgets, Gone
<1>5. Versions'
  BY <1>1, <1>3, Dates DEF Sound, Like
<1>6. Op'.outcome = "none" /\ (Op'.cmd = "policy" => Op'.copy.data.version = 0) /\ Op'.cmd = "delete"
  BY <1>1, <1>2, <1>3 DEF Sound, Promises, Undecided, Like, Plain
<1>7. Promises(Op)'
  BY <1>3, <1>4, <1>6, Answers DEF Delivers, Reports, Labels
<1> QED BY <1>1, <1>5, <1>7 DEF Sound

-----------------------------------------------------------------------------
(* BackupServer and RestoreServer.                                           *)

LEMMA BackupBeginSound == ASSUME IInv, Sound, BackupBegin("operator") PROVE Sound'
<1>1. Op.pc = "backupBegin" /\ Idly
  BY Idles DEF BackupBegin, At, Op
<1>2. CASE config.state # "whole"
  BY <1>1, <1>2, FailsSound DEF BackupBegin
<1>3. CASE config.state = "whole"
  <2> DEFINE q == Goto("operator", "backupLook")
             c == [data |-> NoData("none"), cfg |-> config.cfg]
  <2>1. q \in States /\ q.pc = "backupLook" /\ Like(q, Op)
    BY Goes, Names, Ops DEF IInv, Op
  <2>2. Op' = [q EXCEPT !.in = "backup", !.resume = FALSE, !.failed = FALSE, !.copy = c]
    BY <1>3, TurnsTo DEF BackupBegin
  <2>3. c.data = NoData("none")
    OBVIOUS
  <2> HIDE DEF q, c
  <2>4. /\ Op'.pc = "backupLook" /\ Op'.copy = c /\ Op'.outcome = Op.outcome
    BY <2>1, <2>2 DEF States, Like
  <2>5. Op'.copy.data.version = 0
    BY <2>3, <2>4 DEF NoData
  <2>6. Versions'
    <3>1. written \in Nat /\ Op'.copy.data = NoData("none")
      BY <2>3, <2>4, BoundsAssumption DEF IInv, World
    <3>2. Dated(Op.copy.data)'
      BY <1>1, <3>1 DEF Idly, Dated, NoData
    <3> QED BY <1>1, <3>2 DEF Idly, Sound, Versions, Dated
  <2>7. Promises(Op)'
    BY <1>1, <2>4, <2>5, Silent, Names DEF Sound, Promises, Undecided, Aiming
  <2> QED BY <1>1, <2>6, <2>7 DEF Sound, Idly
<1> QED BY <1>2, <1>3

(* The steps of a backup or a restore that promise nothing new.              *)
LEMMA QuietSound ==
  ASSUME IInv, Sound, Idly, Op.pc \notin {"returned"}, Op'.copy = Op.copy, Op'.cmd = Op.cmd, Op'.outcome = Op.outcome,
         Op'.pc \in {"stop", "backupVolume", "helperStart", "archive", "clear", "backupEnd", "restoreLook",
                     "deleteBegin", "backupBegin", "unchanged", "ensureVolume", "helperDelete"},
         Op'.pc = "ensureVolume" => Op'.in = "restore", Op'.pc = "helperDelete" => Op'.in = "backup"
  PROVE  Sound'
<1>1. Versions'
  BY Dates DEF Sound, Idly
<1>2. Op'.pc \in Steps
  BY DEF Steps, CommandSteps, OtherSteps
<1>3. Promises(Op)'
  BY <1>2, Silent DEF Sound, Promises, Undecided, Aiming
<1> QED BY <1>1, <1>3 DEF Sound, Idly

LEMMA BackupLookSound == ASSUME IInv, Sound, BackupLook("operator") PROVE Sound'
<1>1. Op.pc = "backupLook" /\ Idly
  BY Idles DEF BackupLook, Runs, At, Op
<1>2. CASE Becomes("operator", Calling(Op, "stop", "backupStopped"))
  <2>1. Op'.pc = "stop" /\ Like(Op', Op)
    BY <1>2, OpCalls, Ops, Names, Heads
  <2> QED BY <1>1, <2>1, QuietSound DEF Like
<1>3. CASE Becomes("operator", Goto("operator", "backupVolume"))
  <2>1. Op'.pc = "backupVolume" /\ Like(Op', Op)
    BY <1>3, OpGoes, Names
  <2> QED BY <1>1, <2>1, QuietSound DEF Like
<1> QED BY <1>2, <1>3 DEF BackupLook, Op

LEMMA BackupStoppedSound == ASSUME IInv, Sound, BackupStopped("operator") PROVE Sound'
<1>1. Op.pc = "backupStopped" /\ Idly
  BY Idles DEF BackupStopped, At, Op
<1>2. CASE ~Op.ok
  BY <1>1, <1>2, FailsSound DEF BackupStopped, Op
<1>3. CASE Op.ok
  <2> DEFINE q == Goto("operator", "backupVolume")
  <2>1. q \in States /\ q.pc = "backupVolume" /\ Like(q, Op)
    BY Goes, Names, Ops DEF IInv, Op
  <2>2. Op' = [q EXCEPT !.resume = TRUE]
    BY <1>3, TurnsTo DEF BackupStopped, Op
  <2> HIDE DEF q
  <2>3. Op'.pc = "backupVolume" /\ Op'.copy = Op.copy /\ Op'.cmd = Op.cmd /\ Op'.outcome = Op.outcome
    BY <2>1, <2>2 DEF States, Like
  <2> QED BY <1>1, <2>3, QuietSound
<1> QED BY <1>2, <1>3

LEMMA HelperStartSound == ASSUME IInv, Sound, BackupVolume("operator") \/ HelperStart("operator") PROVE Sound'
<1>1. PICK s \in {"helperStart", "archive", "clear"} :
        Becomes("operator", Goto("operator", s)) /\ Idly /\ Op.pc \in {"backupVolume", "helperStart"}
  BY DEF BackupVolume, HelperStart, Runs, At, Op, runtime, files, history, Idly
<1>2. Op'.pc = s /\ Like(Op', Op)
  BY <1>1, OpGoes, Names
<1> QED BY <1>1, <1>2, QuietSound DEF Like

LEMMA ArchiveSound == ASSUME IInv, Sound, Archive("operator") PROVE Sound'
<1>1. Op.pc = "archive" /\ Idly /\ Op \in States
  BY Idles, Ops DEF Archive, Runs, At, Op
<1> DEFINE d == IF Running THEN NoData("torn") ELSE volume
           c == [Op.copy EXCEPT !.data = d]
           q == Goto("operator", "publish")
<1>2. q \in States /\ q.pc = "publish" /\ Like(q, Op)
  BY Goes, Names, Ops DEF IInv, Op
<1>3. Op' = [q EXCEPT !.copy = c]
  <2>1. Op' = [q EXCEPT !.copy.data = d]
    BY TurnsTo DEF Archive
  <2>2. q.copy = Op.copy
    BY <1>2 DEF Like
  <2> HIDE DEF q, d
  <2> QED BY <1>2, <2>1, <2>2 DEF States
<1>4. c.data = d
  BY Ops DEF Backups
<1>5. Dated(d)
  <2>1. written \in Nat
    BY BoundsAssumption DEF IInv, World
  <2>2. Dated(NoData("torn"))
    BY <2>1 DEF Dated, NoData
  <2> QED BY <2>2 DEF Sound, Versions
<1> HIDE DEF q, c
<1>6. Op'.pc = "publish" /\ Op'.copy = c /\ Op'.cmd = Op.cmd /\ Op'.outcome = Op.outcome
  BY <1>2, <1>3 DEF States, Like
<1>7. Op'.copy.data = d
  BY <1>4, <1>6
<1> HIDE DEF d
<1>8. Versions'
  BY <1>1, <1>5, <1>7 DEF Idly, Sound, Versions, Dated
<1>9. Op.cmd # "policy"
  BY <1>1, Ops DEF OnTrack, BacksUp, Plain, Called
<1>10. Promises(Op)'
  BY <1>1, <1>6, <1>9, Silent, Names DEF Sound, Promises, Undecided, Aiming
<1> QED BY <1>1, <1>8, <1>10 DEF Sound, Idly

LEMMA PublishSound == ASSUME IInv, Sound, Publish("operator") PROVE Sound'
<1>1. /\ Becomes("operator", Goto("operator", "helperDelete")) /\ Op.pc = "publish" /\ archives' = archives \cup {Op.copy}
      /\ UNCHANGED <<vm, volume, written>> /\ Op.in = "backup"
  BY Ops DEF Publish, At, Op, runtime, history, OnTrack
<1>2. Op'.pc = "helperDelete" /\ Like(Op', Op)
  BY <1>1, OpGoes, Names
<1>3. Versions'
  BY <1>1, <1>2 DEF Sound, Versions, Dated, Like
<1>4. Promises(Op)'
  BY <1>1, <1>2, Silent, Names DEF Sound, Promises, Undecided, Aiming, Like
<1> QED BY <1>1, <1>3, <1>4 DEF Sound

LEMMA HelperDeleteSound == ASSUME IInv, Sound, HelperDelete("operator") PROVE Sound'
<1>1. Op.pc = "helperDelete" /\ Idly /\ Becomes("operator", HelperGone(Op)) /\ Op.in \in {"backup", "restore"}
  BY Ops DEF HelperDelete, Runs, At, Op, files, history, Idly, OnTrack
<1>2. CASE Op.in = "backup"
  <2>1. Becomes("operator", Goto("operator", "backupEnd"))
    BY <1>1, <1>2 DEF HelperGone, Goto, Op
  <2>2. Op'.pc = "backupEnd" /\ Like(Op', Op)
    BY <2>1, OpGoes, Names
  <2> QED BY <1>1, <2>2, QuietSound DEF Like
<1>3. CASE Op.in = "restore" /\ Op.failed
  BY <1>1, <1>3, FailsSound DEF HelperGone, Returns, Op
<1>4. CASE Op.in = "restore" /\ ~Op.failed
  <2>1. Becomes("operator", Goto("operator", "truncateManifest"))
    BY <1>1, <1>4 DEF HelperGone, Goto, Op
  <2>2. Op'.pc = "truncateManifest" /\ Like(Op', Op)
    BY <2>1, OpGoes, Names
  <2>3. Versions'
    BY <1>1, <2>2, Dates DEF Sound, Idly, Like
  <2>4. Promises(Op)'
    BY <1>1, <1>4, <2>2
       DEF Sound, Promises, Launches, Rewrites, Forgets, Delivers, Reports, Undecided, Aiming, Like, Recovered, Running, Idly
  <2> QED BY <1>1, <2>3, <2>4 DEF Sound, Idly
<1> QED BY <1>1, <1>2, <1>3, <1>4

LEMMA BackupEndSound == ASSUME IInv, Sound, BackupEnd("operator") PROVE Sound'
<1>1. Op.pc = "backupEnd" /\ Idly /\ Becomes("operator", BackupEnded(Op)) /\ Op \in States /\ BacksUp(Op)
  BY Idles, Ops DEF BackupEnd, At, Op, OnTrack
<1>2. CASE Op.resume
  <2>1. Becomes("operator", Calling(Op, "startBegin", "backupStarted"))
    BY <1>1, <1>2 DEF BackupEnded
  <2>2. /\ Op'.pc = "startBegin" /\ Like(Op', Op)
        /\ Called(Op', {"backup"}, "backupStarted") \/ Nested(Op', "backupStarted", "backedUp")
    BY <1>1, <2>1, OpCalls, Names, Heads DEF BacksUp
  <2>3. ~Aiming(Op)'
    BY <2>2 DEF Aiming, Called, Nested
  <2>4. Versions'
    BY <1>1, <2>2, Dates DEF Sound, Idly, Like
  <2>5. Promises(Op)'
    BY <1>1, <2>2, <2>3, Silent, Names DEF Sound, Promises, Undecided, Like
  <2> QED BY <1>1, <2>4, <2>5 DEF Sound, Idly
<1>3. CASE ~Op.resume
  <2>1. Becomes("operator", Returns("operator", ~Op.failed)) /\ (~Op.failed) \in BOOLEAN
    BY <1>1, <1>3 DEF BackupEnded, Returns, Op
  <2>2. Like(Op', Op) /\ Op'.pc \in Labels
    BY <1>1, <2>1, OpReturns
  <2>3. Op'.pc \in {"returned", "backedUp"} /\ Op.cmd \in {"backup", "upgrade"}
    <3>1. CASE Plain(Op, {"backup"})
      BY <1>1, <2>1, <3>1, OpReturns DEF Plain
    <3>2. CASE Called(Op, {"upgrade"}, "backedUp")
      BY <1>1, <2>1, <3>2, OpReturns, Heads DEF Called
    <3> QED BY <1>1, <3>1, <3>2 DEF BacksUp
  <2>4. Versions'
    BY <1>1, <2>2, Dates DEF Sound, Idly, Like
  <2>5. Op'.outcome = "none" /\ (Op'.cmd = "policy" => Op'.copy.data.version = 0) /\ Op'.cmd = Op.cmd /\ ~Op'.resume
    BY <1>1, <1>3, <2>2 DEF Sound, Promises, Undecided, Like
  <2>6. Promises(Op)'
    BY <2>2, <2>3, <2>5, Answers DEF Delivers, Reports
  <2> QED BY <1>1, <2>4, <2>6 DEF Sound, Idly
<1> QED BY <1>2, <1>3

LEMMA BackupStartedSound == ASSUME IInv, Sound, BackupStarted("operator") PROVE Sound'
<1>1. Op.pc = "backupStarted" /\ Idly /\ Op \in States /\ BacksUp(Op)
  BY Idles, Ops DEF BackupStarted, At, Op, OnTrack
<1> DEFINE k == Op.ok /\ ~Op.failed
<1>2. Becomes("operator", Returns("operator", k)) /\ k \in BOOLEAN /\ (k => Op.ok)
  BY DEF BackupStarted, Op
<1> HIDE DEF k
<1>3. Like(Op', Op) /\ Op'.pc \in Labels /\ Op'.ok = k
  BY <1>1, <1>2, OpReturns
<1>4. Op'.pc \in {"returned", "backedUp"} /\ Op.cmd \in {"backup", "upgrade"}
  <2>1. CASE Plain(Op, {"backup"})
    BY <1>1, <1>2, <2>1, OpReturns DEF Plain
  <2>2. CASE Called(Op, {"upgrade"}, "backedUp")
    BY <1>1, <1>2, <2>2, OpReturns, Heads DEF Called
  <2> QED BY <1>1, <2>1, <2>2 DEF BacksUp
<1>5. Versions'
  BY <1>1, <1>3, Dates DEF Sound, Idly, Like
<1>6. k => vm.state = "ready"
  BY <1>1, <1>2 DEF Sound, Promises, Delivers
<1>7. Op'.outcome = "none" /\ (Op'.cmd = "policy" => Op'.copy.data.version = 0) /\ Op'.cmd = Op.cmd
  BY <1>1, <1>3 DEF Sound, Promises, Undecided, Like
<1>8. Op'.ok => vm'.state = "ready"
  BY <1>1, <1>3, <1>6 DEF Idly
<1>9. Promises(Op)'
  BY <1>3, <1>4, <1>7, <1>8, Answers DEF Delivers, Reports
<1> QED BY <1>1, <1>5, <1>9 DEF Sound, Idly

LEMMA RestoreLookSound == ASSUME IInv, Sound, RestoreLook("operator") PROVE Sound'
<1>1. Op.pc = "restoreLook" /\ Idly /\ Op \in States
  BY Idles, Ops DEF RestoreLook, Runs, At, Op
<1> DEFINE r == [Op EXCEPT !.in = "restore", !.failed = FALSE]
           q == [r EXCEPT !.pc = "ensureVolume"]
<1>2. /\ r \in States /\ r.in = "restore" /\ r.copy = Op.copy /\ r.cmd = Op.cmd /\ r.outcome = Op.outcome
      /\ q.pc = "ensureVolume" /\ q.in = "restore" /\ q.copy = Op.copy /\ q.cmd = Op.cmd /\ q.outcome = Op.outcome
  BY <1>1 DEF States
<1>3. Becomes("operator", Calling(r, "stop", "restoreStopped")) \/ Becomes("operator", q)
  BY DEF RestoreLook, Op
<1> HIDE DEF r, q
<1>4. CASE Becomes("operator", Calling(r, "stop", "restoreStopped"))
  <2>1. Op'.pc = "stop" /\ Like(Op', r)
    BY <1>2, <1>4, OpCalls, Names, Heads
  <2> QED BY <1>1, <1>2, <2>1, QuietSound DEF Like
<1>5. CASE Becomes("operator", q)
  BY <1>1, <1>2, <1>5, TurnsTo, QuietSound
<1> QED BY <1>3, <1>4, <1>5

LEMMA RestoreStoppedSound == ASSUME IInv, Sound, RestoreStopped("operator") PROVE Sound'
<1>1. Op.pc = "restoreStopped" /\ Idly /\ Op.in = "restore"
  BY Idles, Ops DEF RestoreStopped, At, Op, OnTrack
<1>2. CASE Becomes("operator", Returns("operator", FALSE))
  BY <1>1, <1>2, FailsSound
<1>3. CASE Becomes("operator", Goto("operator", "ensureVolume"))
  <2>1. Op'.pc = "ensureVolume" /\ Like(Op', Op)
    BY <1>3, OpGoes, Names
  <2> QED BY <1>1, <2>1, QuietSound DEF Like
<1> QED BY <1>2, <1>3 DEF RestoreStopped

LEMMA ClearSound == ASSUME IInv, ~Supervised, Sound, Clear("operator") PROVE Sound'
<1>1. /\ Becomes("operator", Goto("operator", "extract")) /\ Op.pc = "clear"
      /\ volume' = NoData(IF Running THEN "torn" ELSE "blank") /\ UNCHANGED <<vm, archives, written>>
  BY DEF Clear, Runs, At, Op, files
<1>2. Op'.pc = "extract" /\ Like(Op', Op)
  BY <1>1, OpGoes, Names
<1>3. ~Running /\ vm.state # "ready"
  BY <1>1 DEF IInv, Rest, Resting, Running, Op
<1>4. Versions'
  BY <1>1, <1>2 DEF IInv, World, Sound, Versions, Dated, NoData, Like
<1>5. Promises(Op)'
  BY <1>1, <1>2, <1>3
     DEF Sound, Promises, Launches, Rewrites, Forgets, Delivers, Reports, Undecided, Aiming, Like, NoData
<1> QED BY <1>1, <1>3, <1>4, <1>5 DEF Sound

LEMMA ExtractSound == ASSUME IInv, ~Supervised, Sound, Extract("operator") PROVE Sound'
<1>1. /\ Becomes("operator", Goto("operator", "helperDelete")) /\ Op.pc = "extract"
      /\ volume' = (IF Running \/ volume.kind # "blank" THEN NoData("torn") ELSE Op.copy.data)
      /\ UNCHANGED <<vm, archives, written>>
  BY DEF Extract, Runs, At, Op, files
<1>2. Op'.pc = "helperDelete" /\ Like(Op', Op)
  BY <1>1, OpGoes, Names
<1>3. ~Running /\ ~Running'
  BY <1>1 DEF IInv, Rest, Resting, Running, Op
<1>4. volume' = Op.copy.data
  BY <1>1, <1>3 DEF Sound, Promises, Rewrites
<1>5. Versions'
  BY <1>1, <1>2, <1>4 DEF Sound, Versions, Dated, Like
<1>6. Recovered(Op)'
  <2>1. Op.copy.data.version \in Int
    BY Ops, BoundsAssumption DEF Volumes
  <2> QED BY <1>2, <1>4, <2>1 DEF Recovered, Like
<1>7. Promises(Op)'
  BY <1>1, <1>2, <1>3, <1>6
     DEF Sound, Promises, Launches, Rewrites, Forgets, Delivers, Reports, Undecided, Aiming, Like
<1> QED BY <1>3, <1>5, <1>7 DEF Sound, Running

-----------------------------------------------------------------------------
(* UpgradeServer and SetNetworkPolicy.                                       *)

(* A change calls a procedure that has nothing to rely on.                   *)
LEMMA ChangeCallSound ==
  ASSUME IInv, Sound, Idly, NEW r \in States, NEW s \in {"backupBegin", "deleteBegin", "restoreLook"}, NEW l \in Labels,
         Becomes("operator", Calling(r, s, l)), r.outcome = "none", r.cmd = "policy" => r.copy.data.version = 0,
         r.copy = Op.copy \/ r.copy.data = NoData("none")
  PROVE  Sound'
<1>1. Op'.pc = s /\ Like(Op', r)
  BY OpCalls, Names
<1>2. Dated(Op.copy.data)'
  <2>1. written \in Nat /\ Dated(Op.copy.data)
    BY BoundsAssumption DEF IInv, World, Sound, Versions
  <2>2. Op'.copy = r.copy /\ written' = written
    BY <1>1 DEF Like, Idly
  <2> QED BY <2>1, <2>2 DEF Dated, NoData
<1>3. Versions'
  BY <1>2 DEF Sound, Versions, Dated, Idly
<1>4. Promises(Op)'
  BY <1>1, Silent, Names DEF Undecided, Aiming, Like
<1> QED BY <1>3, <1>4 DEF Sound, Idly

LEMMA OpChanges ==
  ASSUME IInv, Op.pc \in ChangeSteps, Sound
  PROVE  /\ Changes(Op, archives) /\ Plain(Op, {"upgrade", "policy"}) /\ Op \in States
         /\ Op.outcome = "none" /\ (Op.cmd = "policy" => Op.copy.data.version = 0)
BY Ops, Changing DEF Op, Sound, Promises, Undecided

LEMMA ChangeBeginSound == ASSUME IInv, Sound, ChangeBegin("operator") PROVE Sound'
<1>1. Op.pc = "changeBegin" /\ Idly
  BY Idles DEF ChangeBegin, At, Op
<1>2. Plain(Op, {"upgrade", "policy"}) /\ config.cfg \in Configs /\ Op \in States /\ Op.outcome = "none"
  BY <1>1, OpChanges DEF IInv, World, Files
<1> DEFINE g == [Op.goal EXCEPT !.stable = config.cfg.stable]
           c == [AnyBackup EXCEPT !.cfg = config.cfg]
           r == [Op EXCEPT !.goal = g, !.copy = c]
           k == [r EXCEPT !.keep = TRUE]
<1>3. r = [Op EXCEPT !.goal.stable = config.cfg.stable, !.copy = c]
  BY <1>2 DEF States
<1>4. g \in Configs /\ c \in Backups /\ c.data = NoData("none")
  <2>1. c.data = AnyBackup.data
    BY ConfigIs DEF Backups
  <2> QED BY <1>2, <2>1, ConfigIs DEF States, Configs, Backups, AnyBackup
<1>5. \/ Becomes("operator", Returns("operator", FALSE))
      \/ Becomes("operator", Goto("operator", "unchanged"))
      \/ Op.cmd = "upgrade" /\ Becomes("operator", Calling(r, "backupBegin", "backedUp"))
      \/ Op.cmd = "policy" /\ Becomes("operator", Calling(k, "deleteBegin", "removed"))
  <2>1. CASE config.state # "whole" \/ config.cfg.set = Op.goal.set
    BY <2>1 DEF ChangeBegin, Op
  <2>2. CASE config.state = "whole" /\ config.cfg.set # Op.goal.set /\ Op.cmd = "upgrade"
    BY <1>3, <2>2 DEF ChangeBegin, Op
  <2>3. CASE config.state = "whole" /\ config.cfg.set # Op.goal.set /\ Op.cmd = "policy"
    BY <1>3, <2>3 DEF ChangeBegin, Op
  <2> QED BY <1>2, <2>1, <2>2, <2>3 DEF Plain
<1> HIDE DEF g, c
<1>6. r \in States /\ r.copy = c /\ r.outcome = Op.outcome
  BY <1>2, <1>4 DEF States
<1> HIDE DEF r
<1>7. k \in States /\ k.copy = c /\ k.outcome = Op.outcome
  BY <1>6 DEF States
<1> HIDE DEF k
<1>8. c.data.version = 0 /\ "backedUp" \in Labels /\ "removed" \in Labels
  BY <1>4 DEF NoData, Labels
<1>9. CASE Becomes("operator", Returns("operator", FALSE))
  BY <1>1, <1>9, FailsSound
<1>10. CASE Becomes("operator", Goto("operator", "unchanged"))
  <2>1. Op'.pc = "unchanged" /\ Like(Op', Op)
    BY <1>10, OpGoes, Names
  <2> QED BY <1>1, <2>1, QuietSound DEF Like
<1>11. CASE Op.cmd = "upgrade" /\ Becomes("operator", Calling(r, "backupBegin", "backedUp"))
  BY <1>1, <1>2, <1>4, <1>6, <1>8, <1>11, ChangeCallSound
<1>12. CASE Op.cmd = "policy" /\ Becomes("operator", Calling(k, "deleteBegin", "removed"))
  BY <1>1, <1>2, <1>4, <1>7, <1>8, <1>12, ChangeCallSound
<1> QED BY <1>5, <1>9, <1>10, <1>11, <1>12

LEMMA UnchangedSound == ASSUME IInv, Sound, Unchanged("operator") PROVE Sound'
<1>1. Op.pc = "unchanged" /\ Idly /\ Becomes("operator", Returns("operator", TRUE))
  BY Idles DEF Unchanged, Runs, At, Op
<1>2. /\ Plain(Op, {"upgrade", "policy"}) /\ Op.outcome = "none" /\ (Op.cmd = "policy" => Op.copy.data.version = 0)
      /\ Op.cmd \in {"upgrade", "policy"}
  BY <1>1, OpChanges DEF Plain
<1>3. Op'.pc = "returned" /\ Like(Op', Op)
  BY <1>1, <1>2, OpReturns
<1>4. Versions'
  BY <1>1, <1>3, Dates DEF Sound, Idly, Like
<1>5. Promises(Op)'
  BY <1>2, <1>3, Answers DEF Delivers, Reports, Labels, Like
<1> QED BY <1>1, <1>4, <1>5 DEF Sound, Idly

LEMMA BackedUpSound == ASSUME IInv, Sound, BackedUp("operator") PROVE Sound'
<1>1. Op.pc = "backedUp" /\ Idly
  BY Idles DEF BackedUp, At, Op
<1>2. Op \in States /\ Op.outcome = "none" /\ (Op.cmd = "policy" => Op.copy.data.version = 0)
  BY <1>1, OpChanges
<1>3. CASE ~Op.ok
  BY <1>1, <1>3, FailsSound DEF BackedUp, Op
<1>4. CASE Op.ok
  <2> DEFINE r == [Op EXCEPT !.keep = TRUE]
  <2>1. Becomes("operator", Calling(r, "deleteBegin", "removed"))
    BY <1>4 DEF BackedUp, Op
  <2>2. r \in States /\ r.copy = Op.copy /\ r.cmd = Op.cmd /\ r.outcome = Op.outcome
    BY <1>2 DEF States
  <2> HIDE DEF r
  <2> QED BY <1>1, <1>2, <2>1, <2>2, Heads, ChangeCallSound
<1> QED BY <1>3, <1>4

(* The server is made again over the volume that was kept.                   *)
LEMMA RemakeSound ==
  ASSUME IInv, Sound, Idly, Op.pc \in {"removed", "cleaned"}, Op.ok, NEW c \in Configs, NEW l \in {"recreated", "rolledBack"},
         Becomes("operator", Calling([Op EXCEPT !.cfg = c], "createBegin", l)),
         c.set = IF l = "recreated" THEN Op.goal.set ELSE Op.copy.cfg.set,
         l = "rolledBack" => Op.cmd = "policy"
  PROVE  Sound'
<1>1. /\ Plain(Op, {"upgrade", "policy"}) /\ Op \in States /\ Op.outcome = "none"
      /\ (Op.cmd = "policy" => Op.copy.data.version = 0)
  BY OpChanges
<1> DEFINE r == [Op EXCEPT !.cfg = c]
<1>2. /\ r \in States /\ r.copy = Op.copy /\ r.cmd = Op.cmd /\ r.outcome = Op.outcome /\ r.cfg = c /\ r.goal = Op.goal
      /\ r.stack = Op.stack
  BY <1>1 DEF States
<1>3. Becomes("operator", Calling(r, "createBegin", l))
  OBVIOUS
<1> HIDE DEF r
<1>4. Plain(r, {"upgrade", "policy"})
  BY <1>1, <1>2 DEF Plain
<1>5. Op'.pc = "createBegin" /\ Like(Op', r) /\ Called(Op', {"upgrade", "policy"}, l)
  BY <1>2, <1>3, <1>4, OpCalls, Names, Heads
<1>6. Op'.stack = <<l, "returned">> /\ (l = "rolledBack" => Op'.stack # <<"recreated", "returned">>)
  BY <1>5 DEF Called
<1>7. vm.state = "missing"
  BY DEF Sound, Promises, Delivers
<1>8. Versions'
  BY <1>2, <1>5, Dates DEF Sound, Idly, Like
<1>9. Aim(Op)' = c.set
  BY <1>2, <1>5, <1>6 DEF Aim, Like
<1>10. Op'.cfg = c /\ Op'.outcome = "none" /\ (Op'.cmd = "policy" => Op'.copy.data.version = 0)
  BY <1>1, <1>2, <1>5 DEF Like
<1>11. l = "rolledBack" => Recovered(Op)'
  <2>1. volume.version \in Nat
    BY BoundsAssumption DEF IInv, World, Volumes
  <2> QED BY <1>2, <1>5, <1>10, <2>1 DEF Recovered, Idly, Like
<1>12. Op'.stack = <<"rolledBack", "returned">> => l = "rolledBack"
  BY <1>6
<1>13. Promises(Op)'
  BY <1>5, <1>7, <1>9, <1>10, <1>11, <1>12
     DEF Promises, Launches, Rewrites, Forgets, Delivers, Reports, Undecided, Aiming, Running, Idly
<1> QED BY <1>7, <1>8, <1>13 DEF Sound, Idly

LEMMA RemovedSound == ASSUME IInv, Sound, Removed("operator") \/ Cleaned("operator") PROVE Sound'
<1>1. Op.pc \in {"removed", "cleaned"} /\ Idly
  BY Idles DEF Removed, Cleaned, At, Op
<1>2. CASE ~Op.ok
  BY <1>1, <1>2, FailsSound DEF Removed, Cleaned, Op
<1>3. CASE Op.ok /\ Removed("operator")
  <2>1. Becomes("operator", Calling([Op EXCEPT !.cfg = Op.goal], "createBegin", "recreated"))
    BY <1>3 DEF Removed, Op
  <2> QED BY <1>1, <1>3, <2>1, Ops, RemakeSound
<1>4. CASE Op.ok /\ Cleaned("operator")
  <2>1. Becomes("operator", Calling([Op EXCEPT !.cfg = Op.copy.cfg], "createBegin", "rolledBack"))
    BY <1>4 DEF Cleaned, Op
  <2>2. Op.copy.cfg \in Configs
    BY Ops DEF Backups
  <2>3. Op.cmd = "policy"
    BY <1>4, OpChanges DEF Cleaned, At, Op, Changes
  <2> QED BY <1>1, <1>4, <2>1, <2>2, <2>3, RemakeSound
<1> QED BY <1>2, <1>3, <1>4

(* The report of a change.                                                   *)
LEMMA ReportSound ==
  ASSUME IInv, Sound, Idly, Op.pc \in {"recreated", "rolledBack"}, NEW ok \in BOOLEAN, NEW o \in {"none", "changed", "restored"},
         Becomes("operator", Returning([Op EXCEPT !.outcome = o], ok)),
         o = "changed" => Served(Op.goal.set), o = "restored" => Served(Op.copy.cfg.set) /\ Recovered(Op)
  PROVE  Sound'
<1>1. /\ Plain(Op, {"upgrade", "policy"}) /\ Op \in States
      /\ (Op.cmd = "policy" => Op.copy.data.version = 0)
  BY OpChanges
<1> DEFINE r == [Op EXCEPT !.outcome = o]
<1>2. /\ r \in States /\ r.copy = Op.copy /\ r.cmd = Op.cmd /\ r.outcome = o /\ r.goal = Op.goal /\ r.stack = Op.stack
  BY <1>1 DEF States
<1> DEFINE q == Returning(r, ok)
<1>3. Op' = q
  BY TurnsTo
<1> HIDE DEF r
<1>4. r.stack = <<"returned">> /\ "returned" \in OtherSteps
  BY <1>1, <1>2 DEF Plain, OtherSteps
<1>5. q.pc = "returned" /\ Like(q, r)
  BY <1>2, <1>4, Frames, Comesback
<1> HIDE DEF q
<1>6. /\ Op'.pc = "returned" /\ Op'.outcome = o /\ Op'.copy = Op.copy /\ Op'.goal = Op.goal /\ Op'.cmd = Op.cmd
  BY <1>2, <1>3, <1>5 DEF Like
<1>7. Versions'
  BY <1>6, Dates DEF Sound, Idly
<1>8. Op.cmd \in {"upgrade", "policy"}
  BY <1>1 DEF Plain
<1>9. Promises(Op)'
  BY <1>1, <1>6, <1>8
     DEF Promises, Launches, Rewrites, Forgets, Delivers, Reports, Undecided, Aiming, Served, Whole, Recovered, Idly
<1> QED BY <1>7, <1>9 DEF Sound, Idly

LEMMA RecreatedSound == ASSUME IInv, Sound, Recreated("operator") PROVE Sound'
<1>1. Op.pc = "recreated" /\ Idly /\ Becomes("operator", AfterChange(Op))
  BY Idles DEF Recreated, At, Op
<1>2. Op \in States /\ Op.outcome = "none" /\ (Op.cmd = "policy" => Op.copy.data.version = 0)
  BY <1>1, OpChanges
<1>3. CASE Op.ok
  <2>1. Becomes("operator", Returning([Op EXCEPT !.outcome = "changed"], TRUE))
    BY <1>1, <1>3 DEF AfterChange
  <2>2. Served(Op.goal.set)
    BY <1>1, <1>3 DEF Sound, Promises, Delivers
  <2> QED BY <1>1, <2>1, <2>2, ReportSound
<1>4. CASE ~Op.ok
  <2>1. PICK s \in {"restoreLook", "deleteBegin"}, l \in {"rolledBack", "cleaned"} : Becomes("operator", Calling(Op, s, l))
    BY <1>1, <1>4 DEF AfterChange
  <2> QED BY <1>1, <1>2, <2>1, Heads, ChangeCallSound
<1> QED BY <1>3, <1>4

LEMMA RolledBackSound == ASSUME IInv, Sound, RolledBack("operator") PROVE Sound'
<1>1. Op.pc = "rolledBack" /\ Idly /\ Op \in States /\ Op.outcome = "none"
  BY Idles, Ops, OpChanges DEF RolledBack, At, Op
<1> DEFINE o == IF Op.ok THEN "restored" ELSE Op.outcome
<1>2. Becomes("operator", Returning([Op EXCEPT !.outcome = o], FALSE))
  BY DEF RolledBack, Op
<1>3. o \in {"none", "restored"} /\ (o = "restored" => Op.ok)
  BY <1>1
<1>4. Op.ok => Served(Op.copy.cfg.set) /\ Recovered(Op)
  BY <1>1 DEF Sound, Promises, Delivers
<1> HIDE DEF o
<1> QED BY <1>1, <1>2, <1>3, <1>4, ReportSound

LEMMA ReturnSound == ASSUME IInv, Sound, Return("operator") PROVE Sound'
<1>1. Idly /\ Op' = Idle
  BY Idles, TurnsTo DEF Return
<1>2. /\ Idle.pc = "idle" /\ Idle.outcome = "none" /\ Idle.cmd = "none" /\ Idle.copy.data = NoData("none")
  BY DEF Idle, AnyBackup
<1>3. Versions'
  <2>1. written \in Nat /\ Op'.copy.data = NoData("none")
    BY <1>1, <1>2, BoundsAssumption DEF IInv, World
  <2>2. Dated(Op.copy.data)'
    BY <1>1, <2>1 DEF Idly, Dated, NoData
  <2> QED BY <1>1, <2>2 DEF Idly, Sound, Versions, Dated
<1>4. Promises(Op)'
  BY <1>1, <1>2 DEF Promises, Launches, Rewrites, Forgets, Delivers, Reports, Undecided, Aiming
<1> QED BY <1>1, <1>3, <1>4 DEF Sound, Idly

-----------------------------------------------------------------------------
(* What fails, and what happens beside the command.                          *)

(* No process has a server start on a volume it is writing, or half done.    *)
LEMMA Partly ==
  ASSUME IInv, ~Supervised, Sound, PartlyDone("operator"), UNCHANGED <<files, written>>
  PROVE  /\ UNCHANGED <<config, kubeconfig, current, archives, written>> /\ Dated(volume)'
         /\ vm'.state = "ready" => volume'.kind = "cluster"
         /\ Op.pc \in {"clear", "extract"} => ~Running'
<1>1. UNCHANGED <<config, kubeconfig, current, archives, written>>
  BY DEF files
<1>2. Op.pc \in {"clear", "extract"} => ~Running
  BY DEF IInv, Rest, Resting, Op
<1>3. Dated(volume) /\ (vm.state = "ready" => volume.kind = "cluster") /\ written \in Nat
  BY BoundsAssumption DEF Sound, Versions, IInv, World
<1>4. CASE UNCHANGED <<vm, volume>>
  BY <1>1, <1>2, <1>3, <1>4 DEF Running, Dated
<1>5. CASE Op.pc \notin {"clear", "extract"} /\ vm'.state # "ready" /\ volume' = volume
  BY <1>1, <1>3, <1>5 DEF Dated
<1>6. CASE Op.pc \in {"clear", "extract"} /\ volume' = NoData("torn") /\ vm' = vm
  BY <1>1, <1>2, <1>3, <1>6 DEF Running, Dated, NoData
<1>7. CASE Op.pc \in {"stop", "deleteStop"} /\ vm' = [vm EXCEPT !.state = "stopped"] /\ volume' = volume
  BY <1>5, <1>7, VMType
<1>8. CASE Op.pc = "run" /\ vm' = [state |-> "booting", set |-> Op.cfg.set] /\ volume' = volume
  BY <1>5, <1>8
<1> QED BY <1>1, <1>4, <1>6, <1>7, <1>8 DEF PartlyDone, runtime, At, Op

LEMMA CommandFailsSound == ASSUME IInv, ~Supervised, Sound, CommandFails("operator") PROVE Sound'
<1>1. /\ Op.pc \in CommandSteps /\ Becomes("operator", Failed("operator"))
      /\ UNCHANGED <<config, kubeconfig, current, archives, written>> /\ Dated(volume)'
      /\ vm'.state = "ready" => volume'.kind = "cluster"
      /\ Op.pc \in {"clear", "extract"} => ~Running'
  BY Partly DEF CommandFails, Op
<1>2. Op.outcome = "none" /\ (Op.cmd = "policy" => Op.copy.data.version = 0) /\ Op \in States /\ OnTrack(Op, archives, givenUp)
  BY <1>1, Ops DEF Sound, Promises, Undecided, CommandSteps
<1>3. CASE Becomes("operator", Returns("operator", FALSE))
  <2>1. Op'.ok = FALSE /\ Like(Op', Op) /\ Op'.pc \in Labels
    BY <1>1, <1>3, OpReturns DEF CommandSteps
  <2>2. ~Op'.ok
    BY <2>1
  <2>3. Versions'
    BY <1>1, <2>1 DEF Sound, Versions, Dated, Like
  <2>4. Promises(Op)'
    BY <1>2, <2>1, <2>2, Answers DEF Like
  <2> QED BY <1>1, <2>3, <2>4 DEF Sound
<1>4. ASSUME NEW s \in {"backupEnd", "helperDelete"}, Becomes("operator", [Goto("operator", s) EXCEPT !.failed = TRUE]),
             s = "helperDelete" => Op.pc \in {"archive", "clear", "extract"}
      PROVE  Sound'
  <2> DEFINE q == Goto("operator", s)
  <2>1. q \in States /\ q.pc = s /\ Like(q, Op)
    BY Goes, Names, Ops DEF IInv, Op
  <2>2. Op' = [q EXCEPT !.failed = TRUE]
    BY <1>4, TurnsTo
  <2> HIDE DEF q
  <2>3. /\ Op'.pc = s /\ Op'.in = Op.in /\ Op'.failed /\ Op'.copy = Op.copy /\ Op'.cmd = Op.cmd /\ Op'.outcome = Op.outcome
    BY <2>1, <2>2 DEF States, Like
  <2>4. s = "helperDelete" /\ Op.in = "restore" => ~Running'
    BY <1>1, <1>2, <1>4 DEF OnTrack
  <2>5. Versions'
    BY <1>1, <2>3 DEF Sound, Versions, Dated
  <2>6. Promises(Op)'
    BY <1>2, <2>3, <2>4
       DEF Promises, Launches, Rewrites, Forgets, Delivers, Reports, Undecided, Aiming
  <2> QED BY <1>1, <2>5, <2>6 DEF Sound
<1> QED BY <1>1, <1>3, <1>4 DEF Failed, At, Op

LEMMA DiesSound == ASSUME IInv, ~Supervised, Sound, Dies("operator") PROVE Sound'
<1>1. /\ Op' = Idle /\ UNCHANGED <<archives, written>> /\ Dated(volume)'
      /\ vm'.state = "ready" => volume'.kind = "cluster"
  BY TurnsTo, Partly DEF Dies
<1>2. /\ Idle.pc = "idle" /\ Idle.outcome = "none" /\ Idle.cmd = "none" /\ Idle.copy.data = NoData("none")
  BY DEF Idle, AnyBackup
<1>3. Versions'
  <2>1. written \in Nat /\ Op'.copy.data = NoData("none")
    BY <1>1, <1>2, BoundsAssumption DEF IInv, World
  <2>2. Dated(Op.copy.data)'
    BY <1>1, <2>1 DEF Dated, NoData
  <2> QED BY <1>1, <2>2 DEF Sound, Versions, Dated
<1>4. Promises(Op)'
  BY <1>1, <1>2 DEF Promises, Launches, Rewrites, Forgets, Delivers, Reports, Undecided, Aiming
<1> QED BY <1>1, <1>3, <1>4 DEF Sound

LEMMA IssueSound == ASSUME IInv, Sound, NEW cmd \in Commands, Issue(cmd) PROVE Sound'
<1>1. cmd \in AllCommands
  BY CommandsAssumption
<1>2. PICK s \in Settings, b \in IF cmd = "restore" THEN ValidBackups ELSE {AnyBackup} :
        LET goal == [set |-> s, stable |-> FALSE]
        IN Becomes("operator", [Idle EXCEPT !.cmd = cmd, !.pc = Entry[cmd],
                                  !.stack = <<"returned">>, !.goal = goal, !.copy = b,
                                  !.cfg = goal, !.keep = (cmd = "deleteKeep")])
  BY DEF Issue
<1> DEFINE g == [set |-> s, stable |-> FALSE]
           e == Entry[cmd]
           t == <<"returned">>
           k == (cmd = "deleteKeep")
           r == [Idle EXCEPT !.cmd = cmd, !.pc = e, !.stack = t, !.goal = g, !.copy = b, !.cfg = g, !.keep = k]
<1>3. Op' = r
  BY <1>2, TurnsTo
<1>4. e \in {"createBegin", "startBegin", "stop", "deleteBegin", "backupBegin", "restoreLook", "changeBegin"}
  BY <1>1 DEF Entry, AllCommands
<1>5. t \notin {<<"recreated", "returned">>, <<"rolledBack", "returned">>}
  OBVIOUS
<1>6. b \in archives \/ b.data = NoData("none")
  BY DEF ValidBackups, AnyBackup
<1>7. cmd = "policy" => b.data = NoData("none")
  BY DEF AnyBackup
<1>8. Idly
  BY DEF Issue, runtime, files, Idly
<1> HIDE DEF g, e, t, k
<1>9. Op'.cmd = cmd /\ Op'.pc = e /\ Op'.stack = t /\ Op'.copy = b /\ Op'.outcome = "none"
  BY <1>3, IdleIs DEF States
<1> HIDE DEF r
<1>10. Versions'
  <2>1. written \in Nat
    BY BoundsAssumption DEF IInv, World
  <2>2. Dated(Op.copy.data)'
    BY <1>6, <1>8, <1>9, <2>1 DEF Idly, Sound, Versions, Dated, NoData
  <2> QED BY <1>8, <2>2 DEF Idly, Sound, Versions, Dated
<1>11. Promises(Op)'
  BY <1>4, <1>5, <1>7, <1>9, Silent, Names DEF Aiming, Undecided, NoData
<1> QED BY <1>8, <1>10, <1>11 DEF Sound, Idly

LEMMA InterruptedSound == ASSUME IInv, Sound, Interrupted PROVE Sound'
<1>1. Op' = [Op EXCEPT !.cancelled = TRUE] /\ Idly /\ Op \in States
  BY TurnsTo, Ops DEF Interrupted, runtime, files, history, Idly, Op
<1>2. /\ Op'.pc = Op.pc /\ Op'.in = Op.in /\ Op'.stack = Op.stack /\ Op'.copy = Op.copy /\ Op'.cfg = Op.cfg
      /\ Op'.goal = Op.goal /\ Op'.cmd = Op.cmd /\ Op'.outcome = Op.outcome /\ Op'.ok = Op.ok /\ Op'.failed = Op.failed
      /\ Op'.resume = Op.resume
  BY <1>1 DEF States
<1>3. Versions'
  BY <1>1, <1>2, Dates DEF Sound, Idly
<1>4. Promises(Op)'
  BY <1>1, <1>2 DEF Sound, Promises, Launches, Rewrites, Forgets, Delivers, Reports, Undecided, Aiming, Aim, Idly, Whole,
     Served, Recovered, Running, Gone
<1> QED BY <1>1, <1>3, <1>4 DEF Sound, Idly

(* The server becomes Ready and takes writes, the helper ends.               *)
LEMMA BecomesReadySound == ASSUME IInv, ~Supervised, Sound, BecomesReady PROVE Sound'
<1>1. /\ vm.state = "booting" /\ vm' = [vm EXCEPT !.state = "ready"]
      /\ volume.kind \in {"blank", "cluster"} /\ volume' = IF volume.kind = "blank" THEN Data(0) ELSE volume
      /\ Op' = Op /\ UNCHANGED <<config, kubeconfig, current, archives, written>>
  BY DEF BecomesReady, Bootable, files, history, Op
<1>2. vm'.state = "ready" /\ vm'.set = vm.set /\ Op.pc # "extract"
  BY <1>1 DEF IInv, World, Rest, Resting, Running, Op
<1>3. volume'.version = volume.version /\ volume'.kind = "cluster"
  BY <1>1 DEF Sound, Versions, Dated, Data
<1>4. Versions'
  BY <1>1, <1>3 DEF Sound, Versions, Dated
<1>5. Promises(Op)'
  BY <1>1, <1>2, <1>3 DEF Sound, Promises, Launches, Rewrites, Forgets, Delivers, Reports, Undecided, Aiming, Aim, Whole,
     Served, Recovered, Running, Gone
<1> QED BY <1>3, <1>4, <1>5 DEF Sound

LEMMA ClientWritesSound == ASSUME IInv, ~Supervised, Sound, ClientWrites PROVE Sound'
<1>1. /\ vm.state = "ready" /\ volume' = Data(written + 1) /\ written' = written + 1
      /\ Op' = Op /\ UNCHANGED <<vm, config, kubeconfig, current, archives>>
  BY DEF ClientWrites, files, Op
<1>2. volume'.kind = "cluster" /\ volume'.version = written' /\ volume.kind = "cluster"
  BY <1>1 DEF Data, Sound
<1>3. /\ written \in Nat /\ volume.version \in Nat /\ Op.copy.data.version \in Nat /\ \A b \in archives : b.data.version \in Nat
  BY Ops, BoundsAssumption DEF IInv, World, Volumes, Backups
<1>4. Versions'
  BY <1>1, <1>2, <1>3 DEF Sound, Versions, Dated
<1>5. Recovered(Op)' /\ Op.pc # "extract"
  BY <1>1, <1>2, <1>3 DEF Recovered, Sound, Versions, Dated, IInv, Rest, Resting, Running, Op
<1>6. Promises(Op)'
  BY <1>1, <1>2, <1>5 DEF Sound, Promises, Launches, Rewrites, Forgets, Delivers, Reports, Undecided, Aiming, Aim, Whole,
     Served, Running, Gone
<1> QED BY <1>1, <1>2, <1>4, <1>6 DEF Sound

LEMMA CalmSound == ASSUME Sound, Op' = Op, Idly PROVE Sound'
BY DEF Sound, Versions, Dated, Promises, Launches, Rewrites, Forgets, Delivers, Reports, Undecided, Aiming, Aim, Whole,
       Served, Recovered, Running, Gone, Idly

-----------------------------------------------------------------------------
(* A supervisor that is installed stays.                                     *)

LEMMA Stays == ASSUME IInv, NEW r, Becomes("supervisor", r), r.pc # "off" PROVE Supervised'
BY DEF IInv, Flow, Becomes, Processes, Supervised, At

LEMMA StaysOn == ASSUME IInv, NEW s \in Steps, s # "off", Becomes("supervisor", Goto("supervisor", s)) PROVE Supervised'
<1>1. Goto("supervisor", s).pc = s
  BY Goes DEF IInv, Processes
<1> QED BY <1>1, Stays

LEMMA Supervising ==
  ASSUME IInv, proc["supervisor"].pc \notin {"idle", "off", "returned"}
  PROVE  /\ proc["supervisor"] \in States
         /\ Starting(proc["supervisor"])
         /\ \A ok \in BOOLEAN : Becomes("supervisor", Returns("supervisor", ok)) => Supervised'
<1> DEFINE r == proc["supervisor"]
<1>1. r \in States /\ OnTrack(r, archives, givenUp) /\ r.cmd \in {"none", "supervise"}
  BY Here DEF IInv, Flow, Processes
<1>2. Framed(r, archives)
  BY <1>1, Framing
<1>3. r.stack = <<"returned">> /\ Starts(r, archives)
  BY <1>1, <1>2 DEF Framed, Creates, Starts, Stops, Deletes, BacksUp, Restores, Changes, Plain, Called, Nested
<1>4. Starting(r)
  BY <1>1, <1>2, <1>3 DEF OnTrack, States, Steps, CommandSteps, OtherSteps, Creates, Stops, Deletes, BacksUp, Restores, Changes,
     Plain, Called, Nested
<1>5. ASSUME NEW ok \in BOOLEAN, Becomes("supervisor", Returns("supervisor", ok)) PROVE Supervised'
  <2>1. r.stack # <<>> /\ Head(r.stack) = "returned"
    <3>1. "returned" \in OtherSteps
      BY DEF OtherSteps
    <3> QED BY <1>3, <3>1, Frames
  <2>2. Returning(r, ok).pc = "returned"
    BY <1>1, <2>1, Comesback
  <2>3. Becomes("supervisor", Returning(r, ok))
    BY <1>5 DEF Returns
  <2> QED BY <2>2, <2>3, Stays
<1> QED BY <1>1, <1>4, <1>5

LEMMA SupervisorStays == ASSUME IInv, Step("supervisor") \/ Dies("supervisor") PROVE Supervised'
<1> DEFINE r == proc["supervisor"]
<1>1. r \in States
  BY Here DEF IInv, Processes
<1>2. r.pc # "off"
  BY DEF Step, Dies, At, Runs, CreateBegin, StartBegin, EnsureVolume, Look, DeleteStopped, Run, WaitReady, ReadKubeconfig,
         SaveKubeconfig, TruncateConfig, WriteConfig, SetCurrent, ReadStatus, Stop, DeleteBegin, DeleteLook, DeleteStop,
         DeleteEnvelope, DeleteVolume, RemoveConfig, RemoveKubeconfig, ClearCurrent, BackupBegin, BackupLook,
         BackupStopped, BackupVolume, HelperStart, Archive, Publish, HelperDelete, BackupEnd, BackupStarted, RestoreLook,
         RestoreStopped, Clear, Extract, ChangeBegin, Unchanged, BackedUp, Removed, Recreated, Cleaned, RolledBack, Return,
         CommandFails, CommandSteps
<1>3. CASE Becomes("supervisor", Idle)
  BY <1>3, IdleIs, Stays
<1>4. CASE ~Becomes("supervisor", Idle)
  <2>1. r.pc \notin {"idle", "returned"}
    BY <1>4 DEF Step, Dies, At, Runs, CreateBegin, StartBegin, EnsureVolume, Look, DeleteStopped, Run, WaitReady, ReadKubeconfig,
         SaveKubeconfig, TruncateConfig, WriteConfig, SetCurrent, ReadStatus, Stop, DeleteBegin, DeleteLook, DeleteStop,
         DeleteEnvelope, DeleteVolume, RemoveConfig, RemoveKubeconfig, ClearCurrent, BackupBegin, BackupLook,
         BackupStopped, BackupVolume, HelperStart, Archive, Publish, HelperDelete, BackupEnd, BackupStarted, RestoreLook,
         RestoreStopped, Clear, Extract, ChangeBegin, Unchanged, BackedUp, Removed, Recreated, Cleaned, RolledBack, Return,
         CommandFails, CommandSteps
  <2>2. /\ Starting(r)
        /\ \A ok \in BOOLEAN : Becomes("supervisor", Returns("supervisor", ok)) => Supervised'
    BY <1>2, <2>1, Supervising
  <2>3. ASSUME NEW s \in UpSteps, Becomes("supervisor", Goto("supervisor", s)) PROVE Supervised'
    <3>1. s \in Steps /\ s # "off"
      BY Names
    <3> QED BY <2>3, <3>1, StaysOn
  <2>4. CASE Becomes("supervisor", Finished(r))
    <3>1. [r EXCEPT !.pc = "truncateStable", !.cfg.stable = TRUE].pc = "truncateStable"
      BY <1>1 DEF States
    <3> QED BY <2>2, <2>4, <3>1, Stays DEF Finished, Returns
  <2>5. CASE StartBegin("supervisor")
    <3> DEFINE q == Goto("supervisor", "look")
    <3>1. q \in States /\ q.pc = "look"
      BY Goes, Names DEF IInv, Processes
    <3> HIDE DEF q
    <3>2. [q EXCEPT !.in = "start", !.cfg = config.cfg].pc = "look"
      BY <3>1 DEF States
    <3>3. Becomes("supervisor", [q EXCEPT !.in = "start", !.cfg = config.cfg]) \/ Becomes("supervisor", Returns("supervisor", FALSE))
      BY <2>5 DEF StartBegin, q
    <3> QED BY <2>2, <3>2, <3>3, Stays
  <2>6. CASE Look("supervisor")
    <3>1. PICK s \in {"waitReady", "ensureVolume", "delete", "run"}, c \in Configs :
            Becomes("supervisor", [Goto("supervisor", s) EXCEPT !.seen = Seen, !.cfg = c])
      <4>1. r.cfg \in Configs /\ config.cfg \in Configs
        BY <1>1 DEF States, IInv, World, Files
      <4>2. /\ r.cfg = Goto("supervisor", "waitReady").cfg /\ r.cfg = Goto("supervisor", "ensureVolume").cfg
            /\ r.cfg = Goto("supervisor", "delete").cfg /\ r.cfg = Goto("supervisor", "run").cfg
        BY Goes, Names DEF IInv, Like, Processes
      <4> QED BY <2>6, <4>1, <4>2 DEF Look
    <3> DEFINE q == Goto("supervisor", s)
    <3>2. q \in States /\ q.pc = s
      BY Goes, Names DEF IInv, Processes
    <3> HIDE DEF q
    <3>3. [q EXCEPT !.seen = Seen, !.cfg = c].pc = s
      BY <3>2 DEF States
    <3>4. Becomes("supervisor", [q EXCEPT !.seen = Seen, !.cfg = c])
      BY <3>1 DEF q
    <3> QED BY <3>3, <3>4, Stays
  <2>7. CASE CommandFails("supervisor")
    <3>1. Becomes("supervisor", Returns("supervisor", FALSE))
      BY <2>2, <2>7 DEF CommandFails, Failed, At, CommandSteps
    <3> QED BY <2>2, <3>1
  <2>8. CASE EnsureVolume("supervisor") \/ DeleteStopped("supervisor") \/ Run("supervisor") \/ WaitReady("supervisor")
             \/ ReadKubeconfig("supervisor") \/ SaveKubeconfig("supervisor") \/ TruncateConfig("supervisor")
    <3>1. \E s \in UpSteps : Becomes("supervisor", Goto("supervisor", s))
      BY <2>2, <2>8 DEF EnsureVolume, DeleteStopped, Run, WaitReady, ReadKubeconfig, SaveKubeconfig, TruncateConfig, At, Runs
    <3> QED BY <2>3, <3>1
  <2>9. CASE WriteConfig("supervisor") \/ SetCurrent("supervisor") \/ ReadStatus("supervisor")
    <3>1. \/ \E s \in UpSteps : Becomes("supervisor", Goto("supervisor", s))
          \/ Becomes("supervisor", Finished(r)) \/ Becomes("supervisor", Returns("supervisor", TRUE))
      BY <2>2, <2>9 DEF WriteConfig, SetCurrent, ReadStatus, At, Runs
    <3> QED BY <2>2, <2>3, <2>4, <3>1
  <2> QED BY <1>4, <2>2, <2>5, <2>6, <2>7, <2>8, <2>9
          DEF Step, Dies, At, Runs, CreateBegin, Stop, DeleteBegin, DeleteLook, DeleteStop,
         DeleteEnvelope, DeleteVolume, RemoveConfig, RemoveKubeconfig, ClearCurrent, BackupBegin, BackupLook,
         BackupStopped, BackupVolume, HelperStart, Archive, Publish, HelperDelete, BackupEnd, BackupStarted, RestoreLook,
         RestoreStopped, Clear, Extract, ChangeBegin, Unchanged, BackedUp, Removed, Recreated, Cleaned, RolledBack, Return
<1> QED BY <1>3, <1>4

LEMMA InitSound == Init => Alone
<1> SUFFICES ASSUME Init PROVE Sound
  BY DEF Alone
<1>1. /\ \/ vm.state = "missing" /\ volume = NoData("none") /\ written = 0
         \/ vm.state = "ready" /\ volume = Data(1) /\ written = 1
      /\ archives = {} /\ Op = Idle
  BY DEF Init, Op
<1>2. /\ Idle.pc = "idle" /\ Idle.outcome = "none" /\ Idle.cmd = "none" /\ Idle.copy.data = NoData("none")
  BY DEF Idle, AnyBackup
<1>3. Versions /\ (vm.state = "ready" => volume.kind = "cluster")
  BY <1>1, <1>2 DEF Versions, Dated, NoData, Data
<1>4. Promises(Op)
  BY <1>1, <1>2 DEF Promises, Launches, Rewrites, Forgets, Delivers, Reports, Undecided, Aiming
<1> QED BY <1>3, <1>4 DEF Sound

LEMMA OpStepSound == ASSUME IInv, ~Supervised, Sound, Step("operator") PROVE Sound'
BY CreateBeginSound, StartBeginSound, EnsureVolumeSound, LookSound, RunSound, WaitReadySound, SaveKubeconfigSound,
   TruncateConfigSound, WriteConfigSound, FinishSound, StopSound, DeleteBeginSound, DeleteLookSound, DeleteStopSound,
   DeleteEnvelopeSound, DeleteVolumeSound, ForgetSound, ClearCurrentSound, BackupBeginSound, BackupLookSound,
   BackupStoppedSound, HelperStartSound, ArchiveSound, PublishSound, HelperDeleteSound, BackupEndSound,
   BackupStartedSound, RestoreLookSound, RestoreStoppedSound, ClearSound, ExtractSound, ChangeBeginSound,
   UnchangedSound, BackedUpSound, RemovedSound, RecreatedSound, RolledBackSound, ReturnSound, CommandFailsSound DEF Step

LEMMA NextSound == IInv /\ Alone /\ [Next]_vars => Alone'
<1> SUFFICES ASSUME IInv, Alone, [Next]_vars, ~Supervised' PROVE Sound'
  BY DEF Alone
<1>1. CASE Supervise
  <2>1. [Idle EXCEPT !.cmd = "supervise", !.pc = "startBegin", !.stack = <<"returned">>].pc = "startBegin"
    BY DEF Idle
  <2> QED BY <1>1, <2>1, Stays DEF Supervise
<1>2. CASE Step("supervisor") \/ Dies("supervisor")
  BY <1>2, SupervisorStays
<1>3. ASSUME NEW r, Becomes("operator", r) PROVE ~Supervised /\ Sound
  <2>1. proc'["supervisor"] = proc["supervisor"]
    BY <1>3 DEF Becomes, IInv, Flow, Processes
  <2> QED BY <2>1 DEF Alone, Supervised, At
<1>4. CASE Step("operator") \/ Dies("operator")
  <2>1. ~Supervised /\ Sound
    BY <1>3, <1>4, Turns
  <2> QED BY <1>4, <2>1, OpStepSound, DiesSound
<1>5. CASE \E cmd \in Commands : Issue(cmd)
  <2>1. PICK cmd \in Commands : Issue(cmd)
    BY <1>5
  <2>2. ~Supervised /\ Sound
    BY <1>3, <2>1 DEF Issue
  <2> QED BY <2>1, <2>2, IssueSound
<1>6. CASE Interrupted
  <2>1. ~Supervised /\ Sound
    BY <1>3, <1>6 DEF Interrupted
  <2> QED BY <1>6, <2>1, InterruptedSound
<1>7. CASE VMExits \/ VMWedges
  BY <1>7 DEF VMExits, VMWedges, Supervised, At
<1>8. CASE BecomesReady \/ ClientWrites \/ HelperEnds \/ UNCHANGED vars
  <2>1. proc' = proc
    BY <1>8 DEF BecomesReady, ClientWrites, HelperEnds, vars
  <2>2. ~Supervised /\ Sound /\ Op' = Op
    BY <2>1 DEF Alone, Supervised, At, Op
  <2>3. HelperEnds \/ UNCHANGED vars => Idly
    BY DEF HelperEnds, Idly, vars, runtime, files, history
  <2> QED BY <1>8, <2>2, <2>3, BecomesReadySound, ClientWritesSound, CalmSound
<1> QED BY <1>1, <1>2, <1>4, <1>5, <1>6, <1>7, <1>8 DEF Next, Processes

LEMMA SoundReports == Alone => ReportsHold
<1> SUFFICES ASSUME Alone, ~Supervised PROVE ReportsHold
  BY DEF ReportsHold, ChangeReplaces, RollbackRestores, DeletedIsGone, BackupResumes
<1>1. Sound
  BY DEF Alone
<1>2. ChangeReplaces
  BY <1>1 DEF ChangeReplaces, Sound, Promises, Reports, Served, Whole, At, Op
<1>3. RollbackRestores
  BY <1>1 DEF RollbackRestores, Sound, Promises, Reports, Served, Whole, Recovered, At, Op
<1>4. DeletedIsGone
  BY <1>1 DEF DeletedIsGone, Returned, Sound, Promises, Reports, Gone, At, Op
<1>5. BackupResumes
  BY <1>1 DEF BackupResumes, Returned, Sound, Promises, Reports, Running, At, Op
<1> QED BY <1>2, <1>3, <1>4, <1>5 DEF ReportsHold

(* What an operator's command reports as done is so, where no supervisor     *)
(* works beside it: a change has been made, a change that was taken back     *)
(* left the old settings over the data of its backup or later ones, a delete *)
(* left nothing, a backup started the server that it stopped.                *)
THEOREM ReportsTrue == Spec => []ReportsHold
<1>1. Init => IInv /\ Alone
  BY InitInv, InitSound
<1>2. (IInv /\ Alone) /\ [Next]_vars => (IInv /\ Alone)'
  BY NextInv, NextSound
<1> QED BY <1>1, <1>2, SoundReports, PTL DEF Spec
==============================================================================
