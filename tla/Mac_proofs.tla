----------------------------- MODULE Mac_proofs -----------------------------
(***************************************************************************)
(* Proofs about what runs on a Mac for one VM: an agent's envelope, volume *)
(* and registration (AgentNode), for any settings, addresses and bounds,   *)
(* and the launchd jobs of a supervisor (Launchd), for any number of       *)
(* operators and definitions.  The two share no state; each has an         *)
(* inductive invariant of its own.                                         *)
(***************************************************************************)
EXTENDS AgentNode, TLAPS
(* Where a process is, and in which command.                                 *)
JoinSteps   == {"volume", "joinLook"}
StartSteps  == {"startLook", "startVolume"}
LaunchSteps == {"stopFirst", "delete", "run"}
SaveSteps   == {"wait", "status", "truncate", "write"}
StopSteps   == {"stopLook", "stop"}
RemoveSteps == {"removeLook", "removeStop", "removeEnvelope"}
ForgetSteps == {"removeVolume", "removeFile"}
AnyStep     == {"idle", "off", "load", "agentStatus"} \cup JoinSteps \cup StartSteps \cup LaunchSteps
                 \cup SaveSteps \cup StopSteps \cup RemoveSteps \cup ForgetSteps
AnyCommand  == {"none", "join", "start", "stop", "remove", "removeKeep", "supervise"}

(* The steps that follow a Join, or the reading of what one saved.           *)
Late == JoinSteps \cup StartSteps \cup LaunchSteps \cup SaveSteps

States == [cmd : AnyCommand, pc : AnyStep, cfg : Configs,
           found : BOOLEAN, changed : BOOLEAN, address : {None}, ok : BOOLEAN]

Fits(p, s, k) ==
  /\ s \in JoinSteps => k = "join"
  /\ s \in StartSteps \cup {"load"} => k \in {"start", "supervise"}
  /\ s \in LaunchSteps \cup SaveSteps => k \in {"join", "start", "supervise"}
  /\ s \in StopSteps => k = "stop"
  /\ s \in RemoveSteps => k \in {"remove", "removeKeep"}
  /\ s \in ForgetSteps => k = "remove"
  /\ s = "agentStatus" => k = "supervise"
  /\ s = "off" => p = "supervisor"
  /\ p = "supervisor" => k \in {"none", "supervise"}
  /\ p = "operator" => k # "supervise"

Flow == proc \in [Processes -> States] /\ \A p \in Processes : Fits(p, proc[p].pc, proc[p].cmd)

(* The VM, its volume and the Node.  An identity is 1 until a Node has it:   *)
(* no volume made later has the one that is registered.                      *)
World ==
  /\ vm \in [state : {"missing", "stopped", "running"}, cfg : Configs, broken : BOOLEAN]
  /\ guest \in {"off", "booting", "trying", "connected", "rejected"}
  /\ guest # "off" <=> vm.state = "running"
  /\ primary \in Addresses \cup {None} /\ (primary # None <=> vm.state = "running")
  /\ effective \in Addresses \cup {None}
  /\ guest \in {"trying", "connected", "rejected"} => effective # None
  /\ volume \in [id : 0..2, joined : BOOLEAN]
  /\ node \in [ip : Addresses \cup {None}, id : {0, 1}]
  /\ node.ip = None <=> node.id = 0
  /\ volume.id = 2 => node.id = 1
  /\ vm.state # "missing" => volume.id # 0
  /\ volume.joined => volume.id = 1 /\ node.id = 1
  /\ guest = "connected" => volume.joined
  /\ guest = "rejected" => node.id = 1 /\ volume.id # 1
  /\ guest = "trying" /\ vm.cfg.prev # None => effective \in {node.ip, vm.cfg.prev}
  /\ host \in Hosts

Counted ==
  /\ saved \in [state : {"absent", "torn", "whole"}, cfg : Configs]
  /\ commands \in 0..MaxCommands /\ joins \in 0..MaxJoins /\ faults \in 0..MaxFaults

(* Before the first Join there is nothing to start.                          *)
Unjoined ==
  joins = 0 =>
    /\ saved.state = "absent" /\ vm.state = "missing" /\ node.ip = None
    /\ \A p \in Processes : proc[p].pc \notin Late

(* If nobody else acts, the VM that p launched runs as p will save, or as was *)
(* saved.                                                                    *)
RunsAs(c) == vm.state = "running" /\ ~vm.broken => vm.cfg.set = c.set /\ vm.cfg.adv = c.adv

Ran(p) ==
  LET r == proc[p] IN
  /\ r.pc \in SaveSteps => RunsAs(r.cfg)
  /\ r.pc \notin SaveSteps /\ saved.state = "whole" => RunsAs(saved.cfg)
  /\ r.pc = "startLook" => /\ saved.state = "whole" /\ r.cfg.set = saved.cfg.set
                           /\ ~r.changed => r.cfg.adv = saved.cfg.adv
  /\ r.pc = "idle" /\ r.cmd \in {"join", "start"} /\ r.ok => saved.state = "whole" /\ saved.cfg = r.cfg

Unaided == ~Supervised => Ran("operator")

IInv == Flow /\ World /\ Counted /\ Unjoined /\ Unaided

-----------------------------------------------------------------------------
USE DEF AnyStep, AnyCommand, JoinSteps, StartSteps, LaunchSteps, SaveSteps, StopSteps, RemoveSteps,
        ForgetSteps, Late

(* A turn of one process keeps the invariant, if the world and the file are  *)
(* as they must be then.                                                     *)
LEMMA TurnKeeps ==
  ASSUME IInv, NEW p \in Processes, NEW r \in States, Becomes(p, r), Fits(p, r.pc, r.cmd),
         ~At(p, "off"), r.pc # "off", World', Counted', joins' = joins,
         joins = 0 => saved'.state = "absent" /\ vm'.state = "missing" /\ node'.ip = None /\ r.pc \notin Late,
         Ran(p) => Ran(p)'
  PROVE  IInv'
<1>1. /\ proc' \in [Processes -> States] /\ proc'[p] = r
      /\ \A q \in Processes : q # p => proc'[q] = proc[q]
  BY DEF IInv, Flow, Becomes
<1>2. Flow'
  BY <1>1 DEF IInv, Flow
<1>3. Unjoined'
  BY <1>1 DEF IInv, Unjoined
<1>4. Unaided'
  <2>1. CASE p = "supervisor"
    BY <1>1, <2>1 DEF Unaided, Supervised, At, Processes
  <2>2. CASE p = "operator"
    BY <1>1, <2>2 DEF IInv, Unaided, Supervised, At, Processes
  <2> QED BY <2>1, <2>2 DEF Processes
<1> QED BY <1>2, <1>3, <1>4 DEF IInv

(* The record of a process that goes on to step s, or that is done.          *)
LEMMA GotoState ==
  ASSUME Flow, NEW p \in Processes, NEW s \in AnyStep
  PROVE  /\ Goto(p, s) \in States /\ Goto(p, s).pc = s /\ Goto(p, s).cmd = proc[p].cmd
         /\ Goto(p, s).cfg = proc[p].cfg /\ Goto(p, s).changed = proc[p].changed
         /\ Goto(p, s).ok = proc[p].ok
BY DEF Flow, States, Goto

LEMMA FinishedState ==
  ASSUME Flow, NEW p \in Processes, NEW ok \in BOOLEAN
  PROVE  /\ Finished(p, ok) \in States /\ Finished(p, ok).pc = "idle" /\ Finished(p, ok).cmd = proc[p].cmd
         /\ Finished(p, ok).cfg = proc[p].cfg /\ Finished(p, ok).ok = ok
         /\ Fits(p, "idle", proc[p].cmd)
<1>1. proc[p] \in States /\ Fits(p, proc[p].pc, proc[p].cmd)
  BY DEF Flow
<1>2. Fits(p, "idle", proc[p].cmd)
  BY <1>1 DEF Fits
<1> QED BY <1>1, <1>2 DEF States, Finished

LEMMA Fit == ASSUME Flow, NEW p \in Processes
             PROVE  /\ Fits(p, proc[p].pc, proc[p].cmd) /\ proc[p] \in States
                    /\ proc[p].cfg \in Configs
BY DEF Flow, States

(* What a step does that changes neither the world nor the file.             *)
Only == UNCHANGED <<vm, volume, saved, external, counters>>

LEMMA Looked == ASSUME IInv, Only
                PROVE  /\ World' /\ Counted' /\ joins' = joins
                       /\ joins = 0 => saved'.state = "absent" /\ vm'.state = "missing" /\ node'.ip = None
                       /\ vm' = vm /\ saved' = saved
BY DEF IInv, Only, World, Counted, Unjoined, external, counters

LEMMA GoesKeeps ==
  ASSUME IInv, NEW p \in Processes, NEW s \in AnyStep, Becomes(p, Goto(p, s)), Fits(p, s, proc[p].cmd),
         ~At(p, "off"), s \notin {"off", "idle", "startLook"}, s \in Late => proc[p].pc \in Late,
         proc[p].pc \in SaveSteps <=> s \in SaveSteps, Only
  PROVE  IInv'
<1>1. /\ World' /\ Counted' /\ joins' = joins /\ vm' = vm /\ saved' = saved
      /\ joins = 0 => saved'.state = "absent" /\ vm'.state = "missing" /\ node'.ip = None
  BY Looked
<1>2. /\ Goto(p, s) \in States /\ Goto(p, s).pc = s /\ Goto(p, s).cmd = proc[p].cmd
      /\ Goto(p, s).cfg = proc[p].cfg
  BY GotoState DEF IInv
<1>3. joins = 0 => s \notin Late
  BY DEF IInv, Unjoined
<1>4. proc'[p] = Goto(p, s)
  BY DEF IInv, Flow, Becomes
<1>5. Ran(p) => Ran(p)'
  BY <1>1, <1>2, <1>4 DEF Ran, RunsAs
<1> QED BY <1>1, <1>2, <1>3, <1>5, TurnKeeps

LEMMA EndsKeeps ==
  ASSUME IInv, NEW p \in Processes, NEW ok \in BOOLEAN, Becomes(p, Finished(p, ok)), ~At(p, "off"),
         proc[p].pc \notin SaveSteps, ok => proc[p].cmd \notin {"join", "start"}, Only
  PROVE  IInv'
<1>1. /\ World' /\ Counted' /\ joins' = joins /\ vm' = vm /\ saved' = saved
      /\ joins = 0 => saved'.state = "absent" /\ vm'.state = "missing" /\ node'.ip = None
  BY Looked
<1>2. /\ Finished(p, ok) \in States /\ Finished(p, ok).pc = "idle" /\ Finished(p, ok).cmd = proc[p].cmd
      /\ Finished(p, ok).ok = ok /\ Fits(p, "idle", proc[p].cmd)
  BY FinishedState DEF IInv
<1>4. proc'[p] = Finished(p, ok)
  BY DEF IInv, Flow, Becomes
<1>5. Ran(p) => Ran(p)'
  BY <1>1, <1>2, <1>4 DEF Ran, RunsAs
<1> QED BY <1>1, <1>2, <1>5, TurnKeeps

-----------------------------------------------------------------------------
(* Steps that only look.                                                     *)

LEMMA InspectKeeps == ASSUME IInv, NEW p \in Processes, Inspect(p) PROVE IInv'
<1>1. At(p, "agentStatus") /\ Only
  BY DEF Inspect, Only
<1>2. Fits(p, "agentStatus", proc[p].cmd)
  BY <1>1, Fit DEF IInv, At
<1>3. Fits(p, "load", proc[p].cmd) /\ proc[p].cmd = "supervise"
  BY <1>2 DEF Fits
<1>4. CASE Becomes(p, Finished(p, TRUE))
  BY <1>1, <1>3, <1>4, EndsKeeps DEF At
<1>5. CASE Becomes(p, Goto(p, "load"))
  BY <1>1, <1>3, <1>5, GoesKeeps DEF At
<1> QED BY <1>4, <1>5 DEF Inspect

LEMMA StopLookKeeps == ASSUME IInv, NEW p \in Processes, StopLook(p) PROVE IInv'
<1>1. At(p, "stopLook") /\ Only
  BY DEF StopLook, Only
<1>2. Fits(p, "stopLook", proc[p].cmd)
  BY <1>1, Fit DEF IInv, At
<1>3. Fits(p, "stop", proc[p].cmd) /\ proc[p].cmd = "stop"
  BY <1>2 DEF Fits
<1>4. CASE Becomes(p, Finished(p, TRUE))
  BY <1>1, <1>3, <1>4, EndsKeeps DEF At
<1>5. CASE Becomes(p, Goto(p, "stop"))
  BY <1>1, <1>3, <1>5, GoesKeeps DEF At
<1> QED BY <1>4, <1>5 DEF StopLook

LEMMA RemoveLookKeeps == ASSUME IInv, NEW p \in Processes, RemoveLook(p) PROVE IInv'
<1>1. At(p, "removeLook") /\ Only
  BY DEF RemoveLook, Only
<1>2. Fits(p, "removeLook", proc[p].cmd)
  BY <1>1, Fit DEF IInv, At
<1>3. /\ proc[p].cmd \in {"remove", "removeKeep"}
      /\ \A s \in {"removeEnvelope", "removeStop"} : Fits(p, s, proc[p].cmd)
      /\ proc[p].cmd # "removeKeep" => Fits(p, "removeVolume", proc[p].cmd)
  BY <1>2 DEF Fits
<1>4. CASE Becomes(p, Finished(p, TRUE))
  BY <1>1, <1>3, <1>4, EndsKeeps DEF At
<1>5. ASSUME NEW s \in {"removeEnvelope", "removeStop", "removeVolume"}, Becomes(p, Goto(p, s)),
             Fits(p, s, proc[p].cmd)
      PROVE  IInv'
  BY <1>1, <1>5, GoesKeeps DEF At
<1> QED BY <1>3, <1>4, <1>5 DEF RemoveLook, EnvelopeGone

LEMMA JoinLookKeeps == ASSUME IInv, NEW p \in Processes, JoinLook(p) PROVE IInv'
<1>1. At(p, "joinLook") /\ Only
  BY DEF JoinLook, Only
<1>2. Fits(p, "joinLook", proc[p].cmd)
  BY <1>1, Fit DEF IInv, At
<1>3. \A s \in {"run", "delete", "stopFirst", "wait"} : Fits(p, s, proc[p].cmd)
  BY <1>2 DEF Fits
<1>4. ASSUME NEW s \in {"run", "delete", "stopFirst"}, Becomes(p, Goto(p, s)) PROVE IInv'
  BY <1>1, <1>3, <1>4, GoesKeeps DEF At
<1>5. CASE /\ Becomes(p, Goto(p, "wait")) /\ saved.state = "whole"
           /\ SameAgentRuntimeConfig(saved.cfg, proc[p].cfg)
  <2>1. /\ World' /\ Counted' /\ joins' = joins /\ vm' = vm /\ saved' = saved
        /\ joins = 0 => saved'.state = "absent" /\ vm'.state = "missing" /\ node'.ip = None
    BY <1>1, Looked
  <2>2. /\ Goto(p, "wait") \in States /\ Goto(p, "wait").pc = "wait" /\ Goto(p, "wait").cmd = proc[p].cmd
        /\ Goto(p, "wait").cfg = proc[p].cfg
    BY GotoState DEF IInv
  <2>3. joins # 0
    BY <1>1 DEF IInv, Unjoined, At
  <2>4. proc'[p] = Goto(p, "wait")
    BY <1>5 DEF IInv, Flow, Becomes
  <2>5. Ran(p) => Ran(p)'
    BY <1>1, <1>5, <2>1, <2>2, <2>4 DEF Ran, RunsAs, SameAgentRuntimeConfig, At
  <2> QED BY <1>1, <1>3, <1>5, <2>1, <2>2, <2>3, <2>5, TurnKeeps DEF At
<1>6. World
  BY DEF IInv
<1>7. vm.state \in {"missing", "stopped", "running"}
  BY <1>6 DEF World
<1> QED BY <1>4, <1>5, <1>7 DEF JoinLook

LEMMA StartLookKeeps == ASSUME IInv, NEW p \in Processes, StartLook(p) PROVE IInv'
<1>1. At(p, "startLook") /\ Only
  BY DEF StartLook, Only
<1>2. PICK s \in {"startVolume", "stopFirst", "wait"} :
        /\ Becomes(p, [Goto(p, s) EXCEPT !.found = Launched])
        /\ s = "wait" => ~proc[p].changed
  BY DEF StartLook
<1> DEFINE r == [Goto(p, s) EXCEPT !.found = Launched]
<1>3. Fits(p, s, proc[p].cmd)
  <2>1. Fits(p, "startLook", proc[p].cmd)
    BY <1>1, Fit DEF IInv, At
  <2> QED BY <2>1 DEF Fits
<1>4. /\ r \in States /\ r.pc = s /\ r.cmd = proc[p].cmd /\ r.cfg = proc[p].cfg
  <2>1. /\ Goto(p, s) \in States /\ Goto(p, s).pc = s /\ Goto(p, s).cmd = proc[p].cmd
        /\ Goto(p, s).cfg = proc[p].cfg
    BY GotoState DEF IInv
  <2> QED BY <2>1 DEF States, Launched
<1>5. /\ World' /\ Counted' /\ joins' = joins /\ vm' = vm /\ saved' = saved
      /\ joins = 0 => saved'.state = "absent" /\ vm'.state = "missing" /\ node'.ip = None
  BY <1>1, Looked
<1>6. joins # 0
  BY <1>1 DEF IInv, Unjoined, At
<1>7. proc'[p] = r
  BY <1>2 DEF IInv, Flow, Becomes
<1> HIDE DEF r
<1>8. Ran(p) => Ran(p)'
  BY <1>1, <1>2, <1>4, <1>5, <1>7 DEF Ran, RunsAs, At
<1> QED BY <1>1, <1>2, <1>3, <1>4, <1>5, <1>6, <1>8, TurnKeeps DEF At, r

LEMMA LoadKeeps == ASSUME IInv, NEW p \in Processes, Load(p) PROVE IInv'
<1>1. At(p, "load") /\ Only
  BY DEF Load, Only
<1>2. Fits(p, "load", proc[p].cmd)
  BY <1>1, Fit DEF IInv, At
<1>3. CASE Becomes(p, Finished(p, FALSE))
  BY <1>1, <1>3, EndsKeeps DEF At
<1> DEFINE adv == UpdatedAddress(saved.cfg.adv)
           r == [Goto(p, "startLook") EXCEPT !.cfg = [saved.cfg EXCEPT !.adv = adv],
                                             !.changed = adv # saved.cfg.adv]
<1>4. CASE saved.state = "whole" /\ Becomes(p, r)
  <2>1. adv \in Hosts /\ saved.cfg \in Configs
    BY DEF IInv, World, Counted, UpdatedAddress, Configs
  <2>2. [saved.cfg EXCEPT !.adv = adv] \in Configs
    BY <2>1 DEF Configs
  <2>3. Goto(p, "startLook") \in States /\ Goto(p, "startLook").pc = "startLook"
        /\ Goto(p, "startLook").cmd = proc[p].cmd
    BY GotoState DEF IInv
  <2> HIDE DEF adv
  <2>4. /\ r \in States /\ r.pc = "startLook" /\ r.cmd = proc[p].cmd
        /\ r.cfg = [saved.cfg EXCEPT !.adv = adv] /\ (~r.changed => adv = saved.cfg.adv)
    BY <2>2, <2>3 DEF States
  <2>5. r.cfg.set = saved.cfg.set /\ r.cfg.adv = adv
    BY <2>1, <2>4 DEF Configs
  <2>6. /\ World' /\ Counted' /\ joins' = joins /\ vm' = vm /\ saved' = saved
        /\ joins = 0 => saved'.state = "absent" /\ vm'.state = "missing" /\ node'.ip = None
    BY <1>1, Looked
  <2>7. joins # 0 /\ Fits(p, "startLook", proc[p].cmd)
    BY <1>2, <1>4 DEF IInv, Unjoined, Fits
  <2>8. proc'[p] = r
    BY <1>4 DEF IInv, Flow, Becomes
  <2> HIDE DEF r
  <2>9. Ran(p) => Ran(p)'
    BY <1>1, <1>4, <2>4, <2>5, <2>6, <2>8 DEF Ran, RunsAs, At
  <2> QED BY <1>1, <1>4, <2>4, <2>6, <2>7, <2>9, TurnKeeps DEF At
<1> QED BY <1>3, <1>4 DEF Load

LEMMA StatusKeeps == ASSUME IInv, NEW p \in Processes, Status(p) PROVE IInv'
<1> DEFINE c == Recorded(proc[p].cfg, primary)
           r == [Goto(p, "truncate") EXCEPT !.cfg = c]
<1>1. At(p, "status") /\ Only
  BY DEF Status, Only
<1>2. Fits(p, "status", proc[p].cmd)
  BY <1>1, Fit DEF IInv, At
<1>3. c \in Configs /\ c.set = proc[p].cfg.set /\ c.adv = proc[p].cfg.adv
  <2>1. proc[p].cfg \in Configs
    BY Fit DEF IInv
  <2>2. primary \in Addresses \cup {None}
    BY DEF IInv, World
  <2> QED BY <2>1, <2>2 DEF Configs, Recorded
<1>4. /\ Goto(p, "truncate") \in States /\ Goto(p, "truncate").pc = "truncate"
      /\ Goto(p, "truncate").cmd = proc[p].cmd /\ Goto(p, "truncate").cfg = proc[p].cfg
  BY GotoState DEF IInv
<1>5. Becomes(p, r)
  BY <1>4 DEF Status
<1> HIDE DEF c
<1>6. r \in States /\ r.pc = "truncate" /\ r.cmd = proc[p].cmd /\ r.cfg = c
  BY <1>3, <1>4 DEF States
<1>7. /\ World' /\ Counted' /\ joins' = joins /\ vm' = vm /\ saved' = saved
      /\ joins = 0 => saved'.state = "absent" /\ vm'.state = "missing" /\ node'.ip = None
  BY <1>1, Looked
<1>8. joins # 0 /\ Fits(p, "truncate", proc[p].cmd)
  BY <1>1, <1>2 DEF IInv, Unjoined, Fits, At
<1>9. proc'[p] = r
  BY <1>5 DEF IInv, Flow, Becomes
<1> HIDE DEF r
<1>10. Ran(p) => Ran(p)'
  BY <1>1, <1>3, <1>6, <1>7, <1>9 DEF Ran, RunsAs, At
<1> QED BY <1>1, <1>5, <1>6, <1>7, <1>8, <1>10, TurnKeeps DEF At

(* What breaking off does to the VM: nothing that the guest would see.       *)
LEMMA Broken ==
  ASSUME IInv, NEW p \in Processes, BreaksOff(p), UNCHANGED <<volume, external>>
  PROVE  /\ World' /\ vm'.state = vm.state /\ vm'.cfg = vm.cfg
         /\ vm'.broken = (vm.broken \/ proc[p].pc \in SaveSteps)
<1>1. vm \in [state : {"missing", "stopped", "running"}, cfg : Configs, broken : BOOLEAN]
  BY DEF IInv, World
<1>2. /\ vm' \in [state : {"missing", "stopped", "running"}, cfg : Configs, broken : BOOLEAN]
      /\ vm'.state = vm.state /\ vm'.cfg = vm.cfg
      /\ vm'.broken = (vm.broken \/ proc[p].pc \in SaveSteps)
  BY <1>1 DEF BreaksOff
<1> QED BY <1>2 DEF IInv, World, external

(* A command that ends in an error, or dies.                                 *)
LEMMA FailingKeeps ==
  ASSUME IInv, NEW p \in Processes, Becomes(p, Finished(p, FALSE)), BreaksOff(p), ~At(p, "off"),
         UNCHANGED <<volume, saved, external, commands, joins>>, faults' \in 0..MaxFaults
  PROVE  IInv'
<1>1. /\ World' /\ vm'.state = vm.state /\ vm'.cfg = vm.cfg
      /\ vm'.broken = (vm.broken \/ proc[p].pc \in SaveSteps)
  BY Broken
<1>2. /\ Finished(p, FALSE) \in States /\ Finished(p, FALSE).pc = "idle"
      /\ Finished(p, FALSE).cmd = proc[p].cmd
      /\ ~Finished(p, FALSE).ok /\ Fits(p, "idle", proc[p].cmd)
  BY FinishedState DEF IInv
<1>3. proc'[p] = Finished(p, FALSE)
  BY DEF IInv, Flow, Becomes
<1>4. Counted' /\ joins' = joins /\ saved' = saved
  BY DEF IInv, Counted
<1>5. Ran(p) => Ran(p)'
  BY <1>1, <1>2, <1>3, <1>4 DEF Ran, RunsAs
<1>6. joins = 0 => saved'.state = "absent" /\ vm'.state = "missing" /\ node'.ip = None
  BY <1>1 DEF IInv, Unjoined, external
<1> QED BY <1>1, <1>2, <1>4, <1>5, <1>6, TurnKeeps

LEMMA WaitKeeps == ASSUME IInv, NEW p \in Processes, Wait(p) PROVE IInv'
<1>1. At(p, "wait") /\ UNCHANGED <<volume, saved, external, counters>>
  BY DEF Wait
<1>2. CASE Becomes(p, Finished(p, FALSE)) /\ BreaksOff(p)
  <2>1. faults' \in 0..MaxFaults
    BY <1>1 DEF IInv, Counted, counters
  <2> QED BY <1>1, <1>2, <2>1, FailingKeeps DEF At, counters
<1>3. CASE Becomes(p, Goto(p, "status")) /\ UNCHANGED vm
  <2>1. Fits(p, "wait", proc[p].cmd)
    BY <1>1, Fit DEF IInv, At
  <2>2. Fits(p, "status", proc[p].cmd)
    BY <2>1 DEF Fits
  <2> QED BY <1>1, <1>3, <2>2, GoesKeeps DEF At, Only
<1> QED BY <1>2, <1>3 DEF Wait

LEMMA DiesKeeps == ASSUME IInv, NEW p \in Processes, Dies(p) PROVE IInv'
<1>1. faults' \in 0..MaxFaults
  BY BoundsAssumption DEF Dies, Fault, IInv, Counted
<1> QED BY <1>1, FailingKeeps DEF Dies, Fault, At

LEMMA FailsKeep == ASSUME IInv, NEW p \in Processes, Fails(p) PROVE IInv'
<1>1. faults' \in 0..MaxFaults /\ UNCHANGED <<commands, joins>>
  BY BoundsAssumption DEF Fails, Fault, IInv, Counted, counters
<1> QED BY <1>1, FailingKeeps DEF Fails, At, CommandSteps

-----------------------------------------------------------------------------
(* Steps that change the VM, its volume or the file.                         *)

(* A process changes the VM so that it does not run, on the way to s.        *)
LEMMA DownKeeps ==
  ASSUME IInv, NEW p \in Processes, NEW r \in States, Becomes(p, r), r.cmd = proc[p].cmd, Fits(p, r.pc, r.cmd),
         ~At(p, "off"), r.pc \notin {"off", "startLook"} \cup SaveSteps, World', joins = 0 => node'.ip = None,
         vm'.state # "running", vm.state = "missing" => vm'.state = "missing",
         r.pc \in Late => proc[p].pc \in Late,
         r.pc = "idle" => r.cmd \notin {"join", "start"}, UNCHANGED <<saved, counters>>
  PROVE  IInv'
<1>1. Counted' /\ joins' = joins /\ saved' = saved
  BY DEF IInv, Counted, counters
<1>2. joins = 0 => /\ saved'.state = "absent" /\ vm'.state = "missing" /\ node'.ip = None
                   /\ r.pc \notin Late
  BY <1>1 DEF IInv, Unjoined
<1>3. proc'[p] = r
  BY DEF IInv, Flow, Becomes
<1>4. Ran(p)'
  BY <1>3 DEF Ran, RunsAs
<1> QED BY <1>1, <1>2, <1>4, TurnKeeps

LEMMA VMStopsWorld ==
  ASSUME IInv, VMStops, vm.state # "missing", UNCHANGED volume
  PROVE  World' /\ vm'.state = "stopped" /\ node' = node
<1>1. vm \in [state : {"missing", "stopped", "running"}, cfg : Configs, broken : BOOLEAN]
  BY DEF IInv, World
<1>2. /\ vm' \in [state : {"missing", "stopped", "running"}, cfg : Configs, broken : BOOLEAN]
      /\ vm'.state = "stopped"
  BY <1>1 DEF VMStops
<1> QED BY <1>2 DEF IInv, World, VMStops

LEMMA StopFirstKeeps == ASSUME IInv, NEW p \in Processes, StopFirst(p) PROVE IInv'
<1>1. /\ At(p, "stopFirst") /\ vm.state = "running" /\ VMStops /\ UNCHANGED <<volume, saved, counters>>
  BY DEF StopFirst
<1>2. Fits(p, "stopFirst", proc[p].cmd)
  BY <1>1, Fit DEF IInv, At
<1>3. PICK s \in {"delete", "startVolume"} : Becomes(p, Goto(p, s)) /\ Fits(p, s, proc[p].cmd)
  BY <1>2 DEF StopFirst, Fits
<1>4. World' /\ vm'.state = "stopped" /\ node' = node
  BY <1>1, VMStopsWorld
<1>5. Goto(p, s) \in States /\ Goto(p, s).pc = s /\ Goto(p, s).cmd = proc[p].cmd
  BY GotoState DEF IInv
<1>6. joins = 0 => node'.ip = None
  BY <1>4 DEF IInv, Unjoined
<1> QED BY <1>1, <1>3, <1>4, <1>5, <1>6, DownKeeps DEF At

LEMMA StopKeeps == ASSUME IInv, NEW p \in Processes, Stop(p) PROVE IInv'
<1>1. /\ proc[p].pc \in {"stop", "removeStop"} /\ vm.state = "running" /\ VMStops
      /\ UNCHANGED <<volume, saved, counters>>
  BY DEF Stop
<1>2. Fits(p, proc[p].pc, proc[p].cmd)
  BY Fit DEF IInv
<1>3. World' /\ vm'.state = "stopped" /\ node' = node
  BY <1>1, VMStopsWorld
<1>4. joins = 0 => node'.ip = None
  BY <1>3 DEF IInv, Unjoined
<1>5. CASE At(p, "stop") /\ Becomes(p, Finished(p, TRUE))
  <2>1. /\ Finished(p, TRUE) \in States /\ Finished(p, TRUE).pc = "idle"
        /\ Finished(p, TRUE).cmd = proc[p].cmd /\ Fits(p, "idle", proc[p].cmd)
    BY FinishedState DEF IInv
  <2>2. proc[p].cmd = "stop"
    BY <1>2, <1>5 DEF At, Fits
  <2> QED BY <1>1, <1>3, <1>4, <1>5, <2>1, <2>2, DownKeeps DEF At
<1>6. CASE At(p, "removeStop") /\ Becomes(p, Goto(p, "removeEnvelope"))
  <2>1. /\ Goto(p, "removeEnvelope") \in States /\ Goto(p, "removeEnvelope").pc = "removeEnvelope"
        /\ Goto(p, "removeEnvelope").cmd = proc[p].cmd
    BY GotoState DEF IInv
  <2>2. Fits(p, "removeEnvelope", proc[p].cmd)
    BY <1>2, <1>6 DEF At, Fits
  <2> QED BY <1>1, <1>3, <1>4, <1>6, <2>1, <2>2, DownKeeps DEF At
<1> QED BY <1>1, <1>5, <1>6 DEF Stop, At

LEMMA DeletedWorld ==
  ASSUME IInv, vm.state = "stopped", vm' = [vm EXCEPT !.state = "missing"], UNCHANGED <<volume, external>>
  PROVE  World' /\ vm'.state = "missing" /\ node' = node
<1>1. vm \in [state : {"missing", "stopped", "running"}, cfg : Configs, broken : BOOLEAN]
  BY DEF IInv, World
<1>2. /\ vm' \in [state : {"missing", "stopped", "running"}, cfg : Configs, broken : BOOLEAN]
      /\ vm'.state = "missing" /\ vm'.cfg = vm.cfg
  BY <1>1
<1> QED BY <1>2 DEF IInv, World, external

LEMMA DeleteStoppedKeeps == ASSUME IInv, NEW p \in Processes, DeleteStopped(p) PROVE IInv'
<1>1. /\ At(p, "delete") /\ vm.state = "stopped" /\ vm' = [vm EXCEPT !.state = "missing"]
      /\ Becomes(p, Goto(p, "run")) /\ UNCHANGED <<volume, saved, external, counters>>
  BY DEF DeleteStopped
<1>2. Fits(p, "delete", proc[p].cmd)
  BY <1>1, Fit DEF IInv, At
<1>3. Fits(p, "run", proc[p].cmd)
  BY <1>2 DEF Fits
<1>4. World' /\ vm'.state = "missing" /\ node' = node
  BY <1>1, DeletedWorld
<1>5. Goto(p, "run") \in States /\ Goto(p, "run").pc = "run" /\ Goto(p, "run").cmd = proc[p].cmd
  BY GotoState DEF IInv
<1>6. joins = 0 => node'.ip = None
  BY <1>4 DEF IInv, Unjoined
<1> QED BY <1>1, <1>3, <1>4, <1>5, <1>6, DownKeeps DEF At

LEMMA RemoveEnvelopeKeeps == ASSUME IInv, NEW p \in Processes, RemoveEnvelope(p) PROVE IInv'
<1>1. /\ At(p, "removeEnvelope") /\ vm.state = "stopped" /\ vm' = [vm EXCEPT !.state = "missing"]
      /\ UNCHANGED <<volume, saved, external, counters>>
  BY DEF RemoveEnvelope
<1>2. Fits(p, "removeEnvelope", proc[p].cmd)
  BY <1>1, Fit DEF IInv, At
<1>3. World' /\ vm'.state = "missing" /\ node' = node
  BY <1>1, DeletedWorld
<1>4. joins = 0 => node'.ip = None
  BY <1>3 DEF IInv, Unjoined
<1>5. CASE Becomes(p, Finished(p, TRUE))
  <2>1. /\ Finished(p, TRUE) \in States /\ Finished(p, TRUE).pc = "idle"
        /\ Finished(p, TRUE).cmd = proc[p].cmd /\ Fits(p, "idle", proc[p].cmd)
    BY FinishedState DEF IInv
  <2>2. proc[p].cmd \notin {"join", "start"}
    BY <1>2 DEF Fits
  <2> QED BY <1>1, <1>3, <1>4, <1>5, <2>1, <2>2, DownKeeps DEF At
<1>6. CASE proc[p].cmd # "removeKeep" /\ Becomes(p, Goto(p, "removeVolume"))
  <2>1. /\ Goto(p, "removeVolume") \in States /\ Goto(p, "removeVolume").pc = "removeVolume"
        /\ Goto(p, "removeVolume").cmd = proc[p].cmd
    BY GotoState DEF IInv
  <2>2. Fits(p, "removeVolume", proc[p].cmd)
    BY <1>2, <1>6 DEF Fits
  <2> QED BY <1>1, <1>3, <1>4, <1>6, <2>1, <2>2, DownKeeps DEF At
<1> QED BY <1>5, <1>6 DEF RemoveEnvelope, EnvelopeGone

LEMMA RemoveVolumeKeeps == ASSUME IInv, NEW p \in Processes, RemoveVolume(p) PROVE IInv'
<1>1. /\ At(p, "removeVolume") /\ vm.state = "missing" /\ volume' = [id |-> 0, joined |-> FALSE]
      /\ Becomes(p, Goto(p, "removeFile")) /\ UNCHANGED <<vm, saved, external, counters>>
  BY DEF RemoveVolume
<1>2. Fits(p, "removeVolume", proc[p].cmd)
  BY <1>1, Fit DEF IInv, At
<1>3. Fits(p, "removeFile", proc[p].cmd)
  BY <1>2 DEF Fits
<1>4. World' /\ vm'.state = "missing" /\ node' = node
  BY <1>1 DEF IInv, World, external
<1>5. /\ Goto(p, "removeFile") \in States /\ Goto(p, "removeFile").pc = "removeFile"
      /\ Goto(p, "removeFile").cmd = proc[p].cmd
  BY GotoState DEF IInv
<1>6. joins = 0 => node'.ip = None
  BY <1>4 DEF IInv, Unjoined
<1> QED BY <1>1, <1>3, <1>4, <1>5, <1>6, DownKeeps DEF At

(* A volume that is made has an identity that no Node has.                   *)
LEMMA EnsureVolumeKeeps == ASSUME IInv, NEW p \in Processes, EnsureVolume(p) PROVE IInv'
<1>1. /\ proc[p].pc \in {"volume", "startVolume"} /\ UNCHANGED <<vm, saved, external, counters>>
      /\ volume' = IF volume.id = 0 THEN [id |-> NextVolume, joined |-> FALSE] ELSE volume
  BY DEF EnsureVolume
<1>2. PICK s \in {"joinLook", "delete", "run"} :
        /\ Becomes(p, Goto(p, s)) /\ (proc[p].pc = "startVolume" => s # "joinLook")
        /\ (proc[p].pc = "volume" => s = "joinLook")
  BY <1>1 DEF EnsureVolume, At
<1>3. Fits(p, s, proc[p].cmd)
  <2>1. Fits(p, proc[p].pc, proc[p].cmd)
    BY Fit DEF IInv
  <2> QED BY <1>1, <1>2, <2>1 DEF Fits
<1>4. World'
  <2>1. World
    BY DEF IInv
  <2>2. CASE volume.id # 0
    BY <1>1, <2>1, <2>2 DEF World, external
  <2>3. CASE volume.id = 0
    <3>1. node.id \in {0, 1} /\ NextVolume = node.id + 1
      BY <2>1, <2>3 DEF World, NextVolume
    <3>2. volume' = [id |-> node.id + 1, joined |-> FALSE]
      BY <1>1, <2>3, <3>1
    <3>3. vm.state = "missing"
      BY <2>1, <2>3 DEF World
    <3> QED BY <1>1, <2>1, <3>1, <3>2, <3>3 DEF World, external
  <2> QED BY <2>2, <2>3
<1>5. Goto(p, s) \in States /\ Goto(p, s).pc = s /\ Goto(p, s).cmd = proc[p].cmd
  BY GotoState DEF IInv
<1>6. Counted' /\ joins' = joins /\ saved' = saved /\ vm' = vm /\ node' = node
  BY <1>1 DEF IInv, Counted, counters, external
<1>7. joins # 0
  BY <1>1 DEF IInv, Unjoined
<1>8. proc'[p] = Goto(p, s)
  BY <1>2 DEF IInv, Flow, Becomes
<1>9. Ran(p) => Ran(p)'
  BY <1>1, <1>2, <1>5, <1>6, <1>8 DEF Ran, RunsAs
<1> QED BY <1>1, <1>2, <1>3, <1>4, <1>5, <1>6, <1>7, <1>9, TurnKeeps DEF At

LEMMA RunKeeps == ASSUME IInv, NEW p \in Processes, Run(p) PROVE IInv'
<1>1. /\ At(p, "run") /\ vm.state = "missing" /\ volume.id # 0 /\ Becomes(p, Goto(p, "wait"))
      /\ vm' = [state |-> "running", cfg |-> proc[p].cfg, broken |-> FALSE]
      /\ guest' = "booting" /\ primary' \in Addresses
      /\ UNCHANGED <<volume, saved, effective, node, reach, host, counters>>
  BY DEF Run
<1>2. Fits(p, "run", proc[p].cmd) /\ proc[p].cfg \in Configs
  BY <1>1, Fit DEF IInv, At
<1>3. Fits(p, "wait", proc[p].cmd)
  BY <1>2 DEF Fits
<1>4. World'
  BY <1>1, <1>2, NoneAssumption DEF IInv, World
<1>5. /\ Goto(p, "wait") \in States /\ Goto(p, "wait").pc = "wait" /\ Goto(p, "wait").cmd = proc[p].cmd
      /\ Goto(p, "wait").cfg = proc[p].cfg
  BY GotoState DEF IInv
<1>6. Counted' /\ joins' = joins
  BY <1>1 DEF IInv, Counted, counters
<1>7. joins # 0
  BY <1>1 DEF IInv, Unjoined, At
<1>8. proc'[p] = Goto(p, "wait")
  BY <1>1 DEF IInv, Flow, Becomes
<1>9. Ran(p)'
  BY <1>1, <1>5, <1>8 DEF Ran, RunsAs
<1> QED BY <1>1, <1>3, <1>4, <1>5, <1>6, <1>7, <1>9, TurnKeeps DEF At

LEMMA TruncateKeeps == ASSUME IInv, NEW p \in Processes, Truncate(p) PROVE IInv'
<1>1. /\ At(p, "truncate") /\ Becomes(p, Goto(p, "write")) /\ saved' = [saved EXCEPT !.state = "torn"]
      /\ UNCHANGED <<vm, volume, external, counters>>
  BY DEF Truncate
<1>2. Fits(p, "truncate", proc[p].cmd)
  BY <1>1, Fit DEF IInv, At
<1>3. Fits(p, "write", proc[p].cmd)
  BY <1>2 DEF Fits
<1>4. World' /\ Counted' /\ joins' = joins
  BY <1>1 DEF IInv, World, Counted, counters, external
<1>5. /\ Goto(p, "write") \in States /\ Goto(p, "write").pc = "write" /\ Goto(p, "write").cmd = proc[p].cmd
      /\ Goto(p, "write").cfg = proc[p].cfg
  BY GotoState DEF IInv
<1>6. joins # 0
  BY <1>1 DEF IInv, Unjoined, At
<1>7. proc'[p] = Goto(p, "write")
  BY <1>1 DEF IInv, Flow, Becomes
<1>8. Ran(p) => Ran(p)'
  BY <1>1, <1>5, <1>7 DEF Ran, RunsAs, At
<1> QED BY <1>1, <1>3, <1>4, <1>5, <1>6, <1>8, TurnKeeps DEF At

LEMMA WriteKeeps == ASSUME IInv, NEW p \in Processes, Write(p) PROVE IInv'
<1>1. /\ At(p, "write") /\ Becomes(p, Finished(p, TRUE))
      /\ saved' = [state |-> "whole", cfg |-> proc[p].cfg]
      /\ UNCHANGED <<vm, volume, external, counters>>
  BY DEF Write
<1>2. proc[p].cfg \in Configs
  BY Fit DEF IInv
<1>3. World' /\ Counted' /\ joins' = joins
  BY <1>1, <1>2 DEF IInv, World, Counted, counters, external
<1>4. /\ Finished(p, TRUE) \in States /\ Finished(p, TRUE).pc = "idle"
      /\ Finished(p, TRUE).cmd = proc[p].cmd /\ Finished(p, TRUE).cfg = proc[p].cfg
      /\ Fits(p, "idle", proc[p].cmd)
  BY FinishedState DEF IInv
<1>5. joins # 0
  BY <1>1 DEF IInv, Unjoined, At
<1>6. proc'[p] = Finished(p, TRUE)
  BY <1>1 DEF IInv, Flow, Becomes
<1>7. Ran(p) => Ran(p)'
  BY <1>1, <1>4, <1>6 DEF Ran, RunsAs, At
<1> QED BY <1>1, <1>3, <1>4, <1>5, <1>7, TurnKeeps DEF At

LEMMA RemoveFileKeeps == ASSUME IInv, NEW p \in Processes, RemoveFile(p) PROVE IInv'
<1>1. /\ At(p, "removeFile") /\ Becomes(p, Finished(p, TRUE))
      /\ saved' = [saved EXCEPT !.state = "absent"]
      /\ UNCHANGED <<vm, volume, external, counters>>
  BY DEF RemoveFile
<1>2. Fits(p, "removeFile", proc[p].cmd)
  BY <1>1, Fit DEF IInv, At
<1>3. World' /\ Counted' /\ joins' = joins
  BY <1>1 DEF IInv, World, Counted, counters, external
<1>4. /\ Finished(p, TRUE) \in States /\ Finished(p, TRUE).pc = "idle"
      /\ Finished(p, TRUE).cmd = proc[p].cmd /\ Fits(p, "idle", proc[p].cmd)
  BY FinishedState DEF IInv
<1>5. proc[p].cmd = "remove" /\ saved'.state = "absent"
  BY <1>1, <1>2 DEF Fits, IInv, Counted
<1>6. proc'[p] = Finished(p, TRUE)
  BY <1>1 DEF IInv, Flow, Becomes
<1>7. Ran(p)'
  BY <1>4, <1>5, <1>6 DEF Ran
<1>8. joins = 0 => saved'.state = "absent" /\ vm'.state = "missing" /\ node'.ip = None
  BY <1>1, <1>5 DEF IInv, Unjoined, external
<1> QED BY <1>1, <1>3, <1>4, <1>7, <1>8, TurnKeeps DEF At

LEMMA StepKeeps == ASSUME IInv, NEW p \in Processes, Step(p) PROVE IInv'
BY InspectKeeps, EnsureVolumeKeeps, JoinLookKeeps, StopFirstKeeps, DeleteStoppedKeeps, RunKeeps, WaitKeeps,
   StatusKeeps, TruncateKeeps, WriteKeeps, LoadKeeps, StartLookKeeps, StopLookKeeps, StopKeeps,
   RemoveLookKeeps, RemoveEnvelopeKeeps, RemoveVolumeKeeps, RemoveFileKeeps, FailsKeep DEF Step

-----------------------------------------------------------------------------
(* A command is issued, a pass begins.                                       *)

LEMMA AnyConfigType == ASSUME IInv PROVE AnyConfig \in Configs
<1>1. host \in Hosts
  BY DEF IInv, World
<1> QED BY <1>1, SettingsAssumption DEF AnyConfig, Configs

LEMMA IdleType ==
  ASSUME IInv
  PROVE  Idle \in States /\ Idle.cmd = "none" /\ Idle.pc = "idle"
BY AnyConfigType DEF Idle, States

LEMMA IssueKeeps == ASSUME IInv, NEW c \in Commands, Issue(c) PROVE IInv'
<1>1. /\ At("operator", "idle") /\ commands < MaxCommands /\ commands' = commands + 1
      /\ joins' = IF c = "join" THEN joins + 1 ELSE joins
      /\ c = "join" => joins < MaxJoins
      /\ UNCHANGED <<vm, volume, saved, external, faults>>
  BY DEF Issue
<1>2. PICK s \in Settings :
        Becomes("operator",
         [Idle EXCEPT !.cmd = c,
            !.cfg = IF c = "join" THEN [set |-> s, adv |-> host, prev |-> None] ELSE AnyConfig,
            !.pc  = CASE c = "join" -> "volume" [] c = "start" -> "load"
                      [] c = "stop" -> "stopLook" [] OTHER -> "removeLook"])
  BY DEF Issue
<1> DEFINE cfg == IF c = "join" THEN [set |-> s, adv |-> host, prev |-> None] ELSE AnyConfig
           pc  == CASE c = "join" -> "volume" [] c = "start" -> "load"
                    [] c = "stop" -> "stopLook" [] OTHER -> "removeLook"
           r   == [Idle EXCEPT !.cmd = c, !.cfg = cfg, !.pc = pc]
<1>3. cfg \in Configs
  BY AnyConfigType DEF Configs, IInv, World
<1>4. c \in {"join", "start", "stop", "remove", "removeKeep"}
  BY CommandsAssumption
<1>5. pc \in {"volume", "load", "stopLook", "removeLook"} /\ Fits("operator", pc, c)
      /\ (pc = "volume" <=> c = "join")
  BY <1>4 DEF Fits
<1> HIDE DEF cfg, pc
<1>6. r \in States /\ r.pc = pc /\ r.cmd = c
  BY <1>3, <1>4, <1>5, IdleType DEF States
<1>7. Becomes("operator", r)
  BY <1>2 DEF cfg, pc
<1> HIDE DEF r
<1>8. /\ proc' \in [Processes -> States] /\ proc'["operator"] = r
      /\ proc'["supervisor"] = proc["supervisor"]
  BY <1>6, <1>7 DEF IInv, Flow, Becomes, Processes
<1>9. Flow'
  BY <1>5, <1>6, <1>8 DEF IInv, Flow, Processes
<1>10. World' /\ Counted'
  BY <1>1, BoundsAssumption DEF IInv, World, Counted, external
<1>11. Unjoined'
  <2>1. joins' = 0 => joins = 0 /\ c # "join"
    BY <1>1 DEF IInv, Counted
  <2> QED BY <1>1, <1>5, <1>6, <1>8, <2>1 DEF IInv, Unjoined, Processes, external
<1>12. Unaided'
  <2>1. Supervised' = Supervised /\ vm' = vm /\ saved' = saved
    BY <1>1, <1>8 DEF Supervised, At
  <2>2. Ran("operator") => Ran("operator")'
    BY <1>1, <1>5, <1>6, <1>8, <2>1 DEF Ran, RunsAs, At
  <2> QED BY <2>1, <2>2 DEF IInv, Unaided
<1> QED BY <1>9, <1>10, <1>11, <1>12 DEF IInv

LEMMA PassKeeps == ASSUME IInv, Pass PROVE IInv'
<1> DEFINE r == [Idle EXCEPT !.cmd = "supervise", !.pc = "agentStatus"]
<1>1. At("supervisor", "idle") /\ Becomes("supervisor", r) /\ Only
  BY DEF Pass, Only
<1>2. r \in States /\ r.pc = "agentStatus" /\ r.cmd = "supervise"
  BY IdleType DEF States
<1>3. Fits("supervisor", "agentStatus", "supervise")
  BY DEF Fits
<1>4. /\ World' /\ Counted' /\ joins' = joins /\ vm' = vm /\ saved' = saved
      /\ joins = 0 => saved'.state = "absent" /\ vm'.state = "missing" /\ node'.ip = None
  BY <1>1, Looked
<1>5. proc'["supervisor"] = r
  BY <1>1 DEF IInv, Flow, Becomes, Processes
<1> HIDE DEF r
<1>6. Ran("supervisor") => Ran("supervisor")'
  BY <1>1, <1>2, <1>4, <1>5 DEF Ran, RunsAs, At
<1> QED BY <1>1, <1>2, <1>3, <1>4, <1>6, TurnKeeps DEF Processes, At

-----------------------------------------------------------------------------
(* The guest, the server and the network.                                    *)

(* Nothing a process did is touched, and a VM does not start by itself.      *)
LEMMA OutsideKeeps ==
  ASSUME IInv, World', Counted', UNCHANGED <<proc, saved, joins>>,
         vm'.cfg = vm.cfg, vm'.broken = vm.broken, vm'.state # vm.state => vm'.state = "stopped" /\ vm.state = "running",
         joins = 0 => node'.ip = None
  PROVE  IInv'
<1>1. Flow'
  BY DEF IInv, Flow
<1>2. Unjoined'
  BY DEF IInv, Unjoined
<1>3. Unaided'
  BY DEF IInv, Unaided, Supervised, At, Ran, RunsAs
<1> QED BY <1>1, <1>2, <1>3 DEF IInv

LEMMA GuestKeeps == ASSUME IInv, Guest PROVE IInv'
<1>1. CASE GuestBoots
  <2>1. /\ guest = "booting" /\ guest' = "trying" /\ effective' = EffectiveNodeIP
        /\ UNCHANGED <<vm, volume, saved, proc, primary, node, reach, host, counters>>
    BY <1>1 DEF GuestBoots
  <2>2. vm.cfg.prev \in Addresses \cup {None} /\ primary \in Addresses \cup {None} /\ primary # None
        /\ node.ip \in Addresses \cup {None}
    BY <2>1 DEF IInv, World, Configs
  <2>3. /\ effective' \in Addresses
        /\ vm.cfg.prev # None => effective' \in {node.ip, vm.cfg.prev}
    BY <2>1, <2>2 DEF EffectiveNodeIP
  <2>4. World'
    BY <2>1, <2>3, NoneAssumption DEF IInv, World
  <2>5. Counted'
    BY <2>1 DEF IInv, Counted, counters
  <2>6. joins = 0 => node'.ip = None
    BY <2>1 DEF IInv, Unjoined
  <2> QED BY <2>1, <2>4, <2>5, <2>6, OutsideKeeps DEF counters
<1>2. CASE GuestConnects
  <2>1. /\ guest = "trying" /\ UNCHANGED <<vm, saved, proc, primary, effective, reach, host, counters>>
    BY <1>2 DEF GuestConnects
  <2>2. vm.state = "running" /\ effective \in Addresses /\ volume.id # 0
    BY <2>1 DEF IInv, World
  <2>3. joins # 0
    BY <2>2 DEF IInv, Unjoined
  <2>4. Counted'
    BY <2>1 DEF IInv, Counted, counters
  <2>5. CASE /\ node.ip = None \/ node.id = volume.id
             /\ guest' = "connected" /\ node' = [ip |-> effective, id |-> volume.id]
             /\ volume' = [volume EXCEPT !.joined = TRUE]
    <3>1. volume.id = 1
      BY <2>2, <2>5 DEF IInv, World
    <3>2. volume' \in [id : 0..2, joined : BOOLEAN] /\ volume'.id = 1 /\ volume'.joined
      BY <2>5, <3>1 DEF IInv, World
    <3>3. node' \in [ip : Addresses \cup {None}, id : {0, 1}] /\ node'.id = 1 /\ node'.ip # None
      BY <2>2, <2>5, <3>1, NoneAssumption
    <3>4. World'
      BY <2>1, <2>5, <3>2, <3>3 DEF IInv, World
    <3> QED BY <2>1, <2>3, <2>4, <3>4, OutsideKeeps DEF counters
  <2>6. CASE node.ip # None /\ node.id # volume.id /\ guest' = "rejected" /\ UNCHANGED <<node, volume>>
    <3>1. World'
      BY <2>1, <2>6 DEF IInv, World
    <3> QED BY <2>1, <2>3, <2>4, <3>1, OutsideKeeps DEF counters
  <2> QED BY <1>2, <2>5, <2>6 DEF GuestConnects, Identity
<1>3. CASE Reachable
  <2>1. World' /\ Counted'
    BY <1>3 DEF Reachable, IInv, World, Counted, counters
  <2>2. joins = 0 => node'.ip = None
    BY <1>3 DEF Reachable, IInv, Unjoined
  <2> QED BY <1>3, <2>1, <2>2, OutsideKeeps DEF Reachable, counters
<1> QED BY <1>1, <1>2, <1>3 DEF Guest

LEMMA FaultKeeps == ASSUME IInv, Unreachable \/ HostMoves \/ VMExits PROVE IInv'
<1>1. /\ UNCHANGED <<volume, saved, proc, node, joins, commands>>
      /\ faults < MaxFaults /\ faults' = faults + 1
  BY DEF Unreachable, HostMoves, VMExits, VMStops, Fault
<1>2. Counted'
  BY <1>1, BoundsAssumption DEF IInv, Counted
<1>3. joins = 0 => node'.ip = None
  BY <1>1 DEF IInv, Unjoined
<1>4. CASE Unreachable \/ HostMoves
  <2>1. vm' = vm /\ World'
    BY <1>1, <1>4 DEF Unreachable, HostMoves, IInv, World
  <2> QED BY <1>1, <1>2, <1>3, <2>1, OutsideKeeps
<1>5. CASE VMExits
  <2>1. vm.state = "running" /\ VMStops
    BY <1>5 DEF VMExits
  <2>2. World' /\ vm'.state = "stopped"
    BY <1>1, <2>1, VMStopsWorld
  <2>3. vm'.cfg = vm.cfg /\ vm'.broken = vm.broken
    BY <2>1 DEF VMStops, IInv, World
  <2> QED BY <1>1, <1>2, <1>3, <2>1, <2>2, <2>3, OutsideKeeps
<1> QED BY <1>4, <1>5

-----------------------------------------------------------------------------
LEMMA InitInv == Init => IInv
<1> SUFFICES ASSUME Init PROVE IInv
  OBVIOUS
<1>1. host \in Hosts
  BY DEF Init
<1>2. AnyConfig \in Configs
  BY <1>1, SettingsAssumption DEF AnyConfig, Configs
<1>3. Idle \in States /\ Idle.pc = "idle" /\ Idle.cmd = "none"
  BY <1>2 DEF Idle, States
<1>4. PICK s \in {"idle", "off"} : proc = [operator |-> Idle, supervisor |-> [Idle EXCEPT !.pc = s]]
  BY DEF Init
<1> DEFINE r == [Idle EXCEPT !.pc = s]
<1>5. /\ proc \in [Processes -> States] /\ proc["operator"] = Idle
      /\ proc["supervisor"].pc \in {"idle", "off"} /\ proc["supervisor"].cmd = "none"
  <2>1. r \in States /\ r.pc = s /\ r.cmd = "none"
    BY <1>3 DEF States
  <2>2. proc = [operator |-> Idle, supervisor |-> r]
    BY <1>4
  <2> HIDE DEF r
  <2> QED BY <1>3, <2>1, <2>2 DEF Processes
<1>6. Flow
  BY <1>3, <1>5 DEF Flow, Fits, Processes
<1>7. /\ vm = [state |-> "missing", cfg |-> AnyConfig, broken |-> FALSE]
      /\ guest = "off" /\ primary = None /\ effective = None
      /\ volume = [id |-> 0, joined |-> FALSE] /\ saved = [state |-> "absent", cfg |-> AnyConfig]
      /\ node = [ip |-> None, id |-> 0] /\ commands = 0 /\ joins = 0 /\ faults = 0
  BY DEF Init
<1>8. World
  BY <1>1, <1>2, <1>7 DEF World
<1>9. Counted
  BY <1>2, <1>7, BoundsAssumption DEF Counted
<1>10. Unjoined
  BY <1>3, <1>5, <1>7 DEF Unjoined, Processes
<1>11. Unaided
  BY <1>3, <1>5, <1>7 DEF Unaided, Ran, RunsAs
<1> QED BY <1>6, <1>8, <1>9, <1>10, <1>11 DEF IInv

LEMMA NextInv == IInv /\ [Next]_vars => IInv'
<1> SUFFICES ASSUME IInv, [Next]_vars PROVE IInv'
  OBVIOUS
<1>1. CASE UNCHANGED vars
  BY <1>1 DEF vars, external, counters, IInv, Flow, World, Counted, Unjoined, Unaided, Supervised, At, Ran, RunsAs
<1>2. CASE Next
  BY <1>2, IssueKeeps, PassKeeps, GuestKeeps, StepKeeps, FailsKeep, DiesKeeps, FaultKeeps DEF Next
<1> QED BY <1>1, <1>2

LEMMA Invariant == Spec => []IInv
BY InitInv, NextInv, PTL DEF Spec

(* Every behaviour has its types: each process is at a step of a command of  *)
(* its own (JoinAgent, StartAgent, StopAgent, DeleteAgent, agent.go).        *)
THEOREM TypeCorrect == Spec => []TypeOK
<1>1. ASSUME IInv PROVE TypeOK
  <2>1. volume \in [id : 0..MaxCommands + 2, joined : BOOLEAN]
    BY <1>1, BoundsAssumption DEF IInv, World
  <2>2. ASSUME NEW p \in Processes
        PROVE  proc[p].pc \in CommandSteps \cup FileSteps \cup {"idle", "off"} /\ proc[p].cfg \in Configs
    BY <1>1 DEF IInv, Flow, States, CommandSteps, FileSteps
  <2>3. guest = "connected" => node.ip # None /\ volume.joined
    BY <1>1 DEF IInv, World
  <2> QED BY <1>1, <2>1, <2>2, <2>3 DEF IInv, World, Counted, TypeOK
<1> QED BY <1>1, Invariant, PTL

(* Whatever fails, exits or dies: without a supervisor, the agent that Join  *)
(* or StartAgent returned nil for runs with the configuration that           *)
(* saveAgentConfig wrote, unless another command launched it and broke off.  *)
THEOREM AgentRunsAsSaved == Spec => []UnbrokenRunsAsSaved
<1>1. IInv => UnbrokenRunsAsSaved
  BY DEF IInv, Unaided, Ran, RunsAs, UnbrokenRunsAsSaved
<1> QED BY <1>1, Invariant, PTL

-----------------------------------------------------------------------------
(* The Node's InternalIP.                                                    *)

(* A process goes on in the command it is in, or is done with it.            *)
GoesOn(p) ==
  /\ proc' = [proc EXCEPT ![p] = proc'[p]] /\ proc'[p].cmd = proc[p].cmd
  /\ proc'[p].cfg = proc[p].cfg
  /\ proc[p].pc \in {"idle", "agentStatus", "load"} => proc'[p].pc \in {"idle", "load"}

LEMMA GoingOn ==
  ASSUME Flow, NEW p \in Processes, NEW s \in AnyStep, Becomes(p, Goto(p, s)),
         proc[p].pc \in {"idle", "agentStatus", "load"} => s = "load"
  PROVE  GoesOn(p)
<1>1. proc'[p] = Goto(p, s) /\ proc' = [proc EXCEPT ![p] = Goto(p, s)]
  BY DEF Flow, Becomes
<1> QED BY <1>1, GotoState DEF GoesOn

LEMMA GoingHome ==
  ASSUME Flow, NEW p \in Processes, NEW ok \in BOOLEAN, Becomes(p, Finished(p, ok))
  PROVE  GoesOn(p)
<1>1. proc'[p] = Finished(p, ok) /\ proc' = [proc EXCEPT ![p] = Finished(p, ok)]
  BY DEF Flow, Becomes
<1> QED BY <1>1, FinishedState DEF GoesOn

(* All steps of a process but the three that change its configuration.       *)
LEMMA StepsGoOn ==
  ASSUME Flow, vm.state \in {"missing", "stopped", "running"}, NEW p \in Processes,
         Step(p) \/ Fails(p) \/ Dies(p), ~Status(p), ~Load(p), ~StartLook(p)
  PROVE  GoesOn(p)
<1>1. ASSUME NEW ok \in BOOLEAN, Becomes(p, Finished(p, ok)) PROVE GoesOn(p)
  BY <1>1, GoingHome
<1>2. ASSUME NEW s \in AnyStep, Becomes(p, Goto(p, s)),
             proc[p].pc \in {"idle", "agentStatus", "load"} => s = "load"
      PROVE  GoesOn(p)
  BY <1>2, GoingOn
<1>3. CASE Inspect(p)
  BY <1>1, <1>2, <1>3 DEF Inspect
<1>4. CASE EnsureVolume(p)
  BY <1>2, <1>4 DEF EnsureVolume
<1>5. CASE JoinLook(p)
  BY <1>2, <1>5 DEF JoinLook, At
<1>6. CASE StopFirst(p) \/ DeleteStopped(p) \/ Run(p) \/ Truncate(p) \/ RemoveVolume(p)
  BY <1>2, <1>6 DEF StopFirst, DeleteStopped, Run, Truncate, RemoveVolume, At
<1>7. CASE Wait(p) \/ Write(p) \/ RemoveFile(p) \/ Fails(p) \/ Dies(p)
  BY <1>1, <1>2, <1>7 DEF Wait, Write, RemoveFile, Fails, Dies, At
<1>8. CASE StopLook(p) \/ Stop(p) \/ RemoveLook(p) \/ RemoveEnvelope(p)
  BY <1>1, <1>2, <1>8 DEF StopLook, Stop, RemoveLook, RemoveEnvelope, EnvelopeGone, At
<1> QED BY <1>3, <1>4, <1>5, <1>6, <1>7, <1>8 DEF Step

(* What is known stays known to a process that goes on, and to the others.   *)
Sure(p) ==
  proc[p].cmd \in {"join", "start", "supervise"} =>
    proc[p].pc \in {"idle", "agentStatus", "load"} \/ proc[p].cfg.prev = node.ip

LEMMA SureKept ==
  ASSUME IInv, Known, NEW p \in Processes, GoesOn(p), node'.ip = node.ip
  PROVE  \A q \in Processes : Sure(q)'
<1>1. \A q \in Processes : Sure(q)
  BY DEF Known, Sure
<1>2. ASSUME NEW q \in Processes, q # p PROVE proc'[q] = proc[q]
  BY <1>2 DEF GoesOn, IInv, Flow
<1>3. Sure(p)'
  BY <1>1 DEF Sure, GoesOn
<1> QED BY <1>1, <1>2, <1>3 DEF Sure

LEMMA ProcessKnows ==
  ASSUME IInv, Known, NEW p \in Processes, Step(p) \/ Fails(p) \/ Dies(p)
  PROVE  Known' /\ node'.ip = node.ip
<1>0. vm \in [state : {"missing", "stopped", "running"}, cfg : Configs, broken : BOOLEAN]
      /\ saved \in [state : {"absent", "torn", "whole"}, cfg : Configs]
  BY DEF IInv, World, Counted
<1>1. node' = node
  BY DEF Step, Inspect, EnsureVolume, JoinLook, StopFirst, DeleteStopped, Run, Wait, Status, Truncate, Write,
         Load, StartLook, StopLook, Stop, RemoveLook, RemoveEnvelope, RemoveVolume, RemoveFile, Fails, Dies,
         VMStops, external
<1>2. guest' \in {"booting", "trying"} => vm'.cfg.prev = node.ip
  <2>1. CASE Run(p)
    <3>1. Fits(p, "run", proc[p].cmd) /\ proc[p].pc = "run"
      BY <2>1, Fit DEF IInv, At, Run
    <3>2. proc[p].cfg.prev = node.ip
      BY <3>1 DEF Known, Fits
    <3> QED BY <2>1, <3>2 DEF Run
  <2>2. CASE StopFirst(p) \/ Stop(p)
    BY <2>2 DEF StopFirst, Stop, VMStops
  <2>3. CASE guest' = guest /\ vm'.cfg = vm.cfg
    BY <2>3 DEF Known
  <2>4. ASSUME BreaksOff(p) PROVE vm'.cfg = vm.cfg
    BY <1>0, <2>4 DEF BreaksOff
  <2>5. ASSUME vm' = [vm EXCEPT !.state = "missing"] PROVE vm'.cfg = vm.cfg
    BY <1>0, <2>5
  <2> QED BY <2>1, <2>2, <2>3, <2>4, <2>5
      DEF Step, Inspect, EnsureVolume, JoinLook, DeleteStopped, Wait, Status, Truncate, Write,
         Load, StartLook, StopLook, RemoveLook, RemoveEnvelope, RemoveVolume, RemoveFile, Fails, Dies, external
<1>3. saved'.cfg.prev = node.ip
  <2>1. CASE Write(p)
    <3>1. Fits(p, "write", proc[p].cmd) /\ proc[p].pc = "write"
      BY <2>1, Fit DEF IInv, At, Write
    <3>2. proc[p].cfg.prev = node.ip
      BY <3>1 DEF Known, Fits
    <3> QED BY <2>1, <3>2 DEF Write
  <2>2. CASE Truncate(p) \/ RemoveFile(p)
    BY <1>0, <2>2 DEF Truncate, RemoveFile, Known
  <2>3. CASE saved' = saved
    BY <2>3 DEF Known
  <2> QED BY <2>1, <2>2, <2>3
      DEF Step, Inspect, EnsureVolume, JoinLook, StopFirst, DeleteStopped, Run, Wait, Status,
         Load, StartLook, StopLook, Stop, RemoveLook, RemoveEnvelope, RemoveVolume, Fails, Dies
<1>4. \A q \in Processes : Sure(q)'
  <2>1. CASE GoesOn(p)
    BY <1>1, <2>1, SureKept
  <2>2. ASSUME NEW r, Becomes(p, r), r.cmd \in {"join", "start", "supervise"} => r.pc = "idle" \/ r.cfg.prev = node.ip
        PROVE  \A q \in Processes : Sure(q)'
    <3>1. proc'[p] = r /\ \A q \in Processes : q # p => proc'[q] = proc[q]
      BY <2>2 DEF Becomes, IInv, Flow
    <3>2. \A q \in Processes : Sure(q)
      BY DEF Known, Sure
    <3> QED BY <1>1, <2>2, <3>1, <3>2 DEF Sure
  <2>3. CASE Load(p)
    <3>1. CASE Becomes(p, Finished(p, FALSE))
      BY <2>1, <3>1, GoingHome DEF IInv
    <3> DEFINE adv == UpdatedAddress(saved.cfg.adv)
               r == [Goto(p, "startLook") EXCEPT !.cfg = [saved.cfg EXCEPT !.adv = adv],
                                                 !.changed = adv # saved.cfg.adv]
    <3>2. CASE Becomes(p, r)
      <4>1. Goto(p, "startLook") \in States
        BY GotoState DEF IInv
      <4>2. [saved.cfg EXCEPT !.adv = adv].prev = saved.cfg.prev
        BY <1>0 DEF Configs
      <4> HIDE DEF adv
      <4>3. r.cfg = [saved.cfg EXCEPT !.adv = adv]
        BY <4>1 DEF States
      <4>4. r.cfg.prev = node.ip
        BY <4>2, <4>3 DEF Known
      <4> QED BY <2>2, <3>2, <4>4
    <3> QED BY <2>3, <3>1, <3>2 DEF Load
  <2>4. CASE StartLook(p)
    <3>1. PICK s \in AnyStep : Becomes(p, [Goto(p, s) EXCEPT !.found = Launched]) /\ proc[p].pc = "startLook"
      BY <2>4 DEF StartLook, At
    <3>2. Goto(p, s) \in States /\ Goto(p, s).cfg = proc[p].cfg
      BY GotoState DEF IInv
    <3>3. [Goto(p, s) EXCEPT !.found = Launched].cfg = proc[p].cfg
      BY <3>2 DEF States
    <3>4. Fits(p, "startLook", proc[p].cmd)
      BY <3>1, Fit DEF IInv
    <3>5. proc[p].cfg.prev = node.ip
      BY <3>1, <3>4 DEF Known, Fits
    <3> QED BY <2>2, <3>1, <3>3, <3>5
  <2>5. CASE Status(p)
    <3>1. Becomes(p, [Goto(p, "truncate") EXCEPT !.cfg = Recorded(@, primary)]) /\ proc[p].pc = "status"
      BY <2>5 DEF Status, At
    <3>2. Goto(p, "truncate") \in States /\ Goto(p, "truncate").cfg = proc[p].cfg
      BY GotoState DEF IInv
    <3>3. Fits(p, "status", proc[p].cmd)
      BY <3>1, Fit DEF IInv
    <3>4. proc[p].cfg.prev = node.ip /\ node.ip # None
      BY <3>1, <3>3 DEF Known, Fits
    <3>5. Recorded(proc[p].cfg, primary) = proc[p].cfg
      BY <3>4 DEF Recorded
    <3>6. [Goto(p, "truncate") EXCEPT !.cfg = Recorded(@, primary)].cfg = proc[p].cfg
      BY <3>2, <3>5 DEF States
    <3> QED BY <2>2, <3>1, <3>4, <3>6
  <2> QED BY <1>0, <2>1, <2>3, <2>4, <2>5, StepsGoOn DEF IInv
<1> QED BY <1>1, <1>2, <1>3, <1>4 DEF Known, Sure

LEMMA KnownKept ==
  ASSUME IInv, [Next]_vars, Known, joins' = 1
  PROVE  Known' /\ node'.ip = node.ip
<1>1. joins # 0 /\ joins \in Nat
  BY BoundsAssumption DEF Known, IInv, Unjoined, Counted
<1>2. CASE UNCHANGED vars
  BY <1>2 DEF vars, external, counters, Known
<1>3. ASSUME NEW c \in Commands, Issue(c) PROVE Known' /\ node'.ip = node.ip
  <2>1. c # "join" /\ UNCHANGED <<vm, saved, external>>
    BY <1>1, <1>3 DEF Issue
  <2>2. PICK s \in Settings :
        Becomes("operator",
         [Idle EXCEPT !.cmd = c,
            !.cfg = IF c = "join" THEN [set |-> s, adv |-> host, prev |-> None] ELSE AnyConfig,
            !.pc  = CASE c = "join" -> "volume" [] c = "start" -> "load"
                      [] c = "stop" -> "stopLook" [] OTHER -> "removeLook"])
    BY <1>3 DEF Issue
  <2>3. c \in {"start", "stop", "remove", "removeKeep"}
    BY <2>1, CommandsAssumption
  <2> DEFINE pc == CASE c = "join" -> "volume" [] c = "start" -> "load"
                     [] c = "stop" -> "stopLook" [] OTHER -> "removeLook"
             r  == [Idle EXCEPT !.cmd = c, !.cfg = AnyConfig, !.pc = pc]
  <2>4. c = "start" => pc = "load"
    OBVIOUS
  <2>5. Becomes("operator", r)
    BY <2>1, <2>2
  <2> HIDE DEF pc
  <2>6. r.cmd = c /\ r.pc = pc
    BY IdleType DEF States
  <2> HIDE DEF r
  <2>7. proc'["operator"] = r /\ proc'["supervisor"] = proc["supervisor"]
    BY <2>5 DEF Becomes, IInv, Flow, Processes
  <2> QED BY <2>1, <2>3, <2>4, <2>6, <2>7 DEF Known, Processes, external
<1>4. CASE Pass
  <2> DEFINE r == [Idle EXCEPT !.cmd = "supervise", !.pc = "agentStatus"]
  <2>1. Becomes("supervisor", r) /\ UNCHANGED <<vm, saved, external>>
    BY <1>4 DEF Pass
  <2>2. r.pc = "agentStatus"
    BY IdleType DEF States
  <2> HIDE DEF r
  <2>3. proc'["supervisor"] = r /\ proc'["operator"] = proc["operator"]
    BY <2>1 DEF Becomes, IInv, Flow, Processes
  <2> QED BY <2>1, <2>2, <2>3 DEF Known, Processes, external
<1>5. CASE Guest
  <2>1. CASE GuestConnects
    <3>1. /\ guest = "trying" /\ UNCHANGED <<vm, saved, proc>> /\ guest' \in {"connected", "rejected"}
          /\ node' = node \/ node'.ip = effective
      BY <2>1 DEF GuestConnects
    <3>2. effective = node.ip
      BY <3>1 DEF IInv, World, Known
    <3> QED BY <3>1, <3>2 DEF Known
  <2>2. CASE GuestBoots
    BY <2>2 DEF GuestBoots, Known
  <2>3. CASE Reachable
    BY <2>3 DEF Reachable, Known
  <2> QED BY <1>5, <2>1, <2>2, <2>3 DEF Guest
<1>6. ASSUME NEW p \in Processes, Step(p) \/ Fails(p) \/ Dies(p) PROVE Known' /\ node'.ip = node.ip
  BY <1>6, ProcessKnows
<1>7. CASE Unreachable \/ HostMoves \/ VMExits
  BY <1>7 DEF Unreachable, HostMoves, VMExits, VMStops, Known
<1> QED BY <1>2, <1>3, <1>4, <1>5, <1>6, <1>7 DEF Next

(* Until the first Join has saved, no supervisor can start the agent: the    *)
(* VM is the one that this Join launched, and so is the address that the     *)
(* Node got.                                                                 *)
Joining == joins = 1 /\ proc["operator"].cmd = "join" /\ proc["operator"].pc # "idle"

Waiting == {"off", "idle", "agentStatus", "load"}
Before  == {"volume", "joinLook", "run"}

OwnAddress ==
  vm.state = "running" =>
    /\ vm.cfg.prev = None
    /\ guest \in {"booting", "trying"} => node.ip = None
    /\ guest = "trying" => effective = primary
    /\ guest = "connected" => node.ip = primary
    /\ guest # "rejected"

FirstJoin ==
  LET r == proc["operator"] IN
  /\ saved.state # "whole" /\ proc["supervisor"].pc \in Waiting
  /\ r.pc \in Before \cup SaveSteps
  /\ r.pc \in Before => vm.state = "missing" /\ node.ip = None
  /\ r.pc \notin {"truncate", "write"} => r.cfg.prev = None
  /\ r.pc \in {"status", "truncate", "write"} => guest \in {"connected", "off"} /\ node.ip # None
  /\ r.pc \in {"truncate", "write"} => \/ r.cfg.prev = node.ip
                                       \/ r.cfg.prev = None /\ vm.state # "running"
  /\ OwnAddress

First == /\ proc["supervisor"].pc = "off" => proc["supervisor"].cmd = "none"
         /\ Joining => FirstJoin

LEMMA FirstOutside ==
  ASSUME IInv, First, Guest \/ Unreachable \/ HostMoves \/ VMExits
  PROVE  First'
<1>1. /\ UNCHANGED <<proc, joins, saved>> /\ vm'.cfg = vm.cfg
      /\ vm'.state = vm.state \/ (vm'.state = "stopped" /\ guest' = "off" /\ node' = node)
  BY DEF Guest, GuestBoots, GuestConnects, Reachable, Unreachable, HostMoves, VMExits, VMStops, Fault,
         counters, IInv, World
<1>2. SUFFICES ASSUME Joining PROVE FirstJoin'
  BY <1>1 DEF First, Joining
<1>3. FirstJoin
  BY <1>2 DEF First
<1>4. CASE GuestBoots
  <2>1. UNCHANGED <<vm, node, volume, primary>> /\ guest = "booting" /\ guest' = "trying"
        /\ effective' = EffectiveNodeIP
    BY <1>4 DEF GuestBoots
  <2>2. vm.state = "running" /\ node.ip = None /\ vm.cfg.prev = None
    BY <1>3, <2>1 DEF FirstJoin, OwnAddress, IInv, World
  <2>3. effective' = primary
    BY <2>1, <2>2 DEF EffectiveNodeIP
  <2> QED BY <1>1, <1>3, <2>1, <2>2, <2>3 DEF FirstJoin, OwnAddress
<1>5. CASE GuestConnects
  <2>1. UNCHANGED <<vm, primary, effective>> /\ guest = "trying"
    BY <1>5 DEF GuestConnects
  <2>2. vm.state = "running" /\ node.ip = None /\ effective = primary
    BY <1>3, <2>1 DEF FirstJoin, OwnAddress, IInv, World
  <2>3. guest' = "connected" /\ node'.ip = primary
    BY <1>5, <2>2 DEF GuestConnects
  <2>4. proc["operator"].pc \notin Before /\ proc["operator"].pc \notin {"status", "truncate", "write"}
    BY <1>3, <2>1, <2>2 DEF FirstJoin
  <2> QED BY <1>1, <1>3, <2>1, <2>2, <2>3, <2>4 DEF FirstJoin, OwnAddress
<1>6. CASE UNCHANGED <<vm, guest, primary, effective, node>>
  BY <1>1, <1>3, <1>6 DEF FirstJoin, OwnAddress
<1>7. CASE VMExits
  <2>1. vm.state = "running" /\ vm'.state = "stopped" /\ guest' = "off" /\ node' = node
    BY <1>7 DEF VMExits, VMStops, IInv, World
  <2> QED BY <1>1, <1>3, <2>1 DEF FirstJoin, OwnAddress
<1> QED BY <1>4, <1>5, <1>6, <1>7 DEF Guest, Reachable, Unreachable, HostMoves

(* What the turn of a process leaves alone. *)
Moved(p) ==
  /\ \A q \in Processes : q # p => proc'[q] = proc[q]
  /\ proc[p].pc \notin {"idle", "off"} /\ proc'[p].pc # "off" /\ proc'[p].cmd = proc[p].cmd
  /\ joins' = joins

LEMMA TurnOf ==
  ASSUME IInv, NEW p \in Processes, Step(p) \/ Fails(p) \/ Dies(p)
  PROVE  Moved(p)
<1>1. joins' = joins /\ proc[p].pc \notin {"idle", "off"}
  BY DEF Step, Inspect, EnsureVolume, JoinLook, StopFirst, DeleteStopped, Run, Wait, Status, Truncate, Write,
         Load, StartLook, StopLook, Stop, RemoveLook, RemoveEnvelope, RemoveVolume, RemoveFile, Fails, Dies,
         Fault, counters, At, CommandSteps
<1>2. ASSUME NEW r, Becomes(p, r), r.pc # "off", r.cmd = proc[p].cmd PROVE Moved(p)
  BY <1>1, <1>2 DEF Moved, Becomes, IInv, Flow
<1>3. ASSUME NEW ok \in BOOLEAN, Becomes(p, Finished(p, ok)) PROVE Moved(p)
  BY <1>2, <1>3, FinishedState DEF IInv
<1>4. ASSUME NEW s \in AnyStep \ {"off"}, Becomes(p, Goto(p, s)) PROVE Moved(p)
  BY <1>2, <1>4, GotoState DEF IInv
<1>5. CASE Inspect(p)
  BY <1>3, <1>4, <1>5 DEF Inspect
<1>6. CASE EnsureVolume(p)
  BY <1>4, <1>6 DEF EnsureVolume
<1>7. CASE JoinLook(p)
  BY <1>4, <1>7 DEF JoinLook
<1>8. CASE StopFirst(p) \/ DeleteStopped(p) \/ Run(p) \/ Truncate(p) \/ RemoveVolume(p)
  BY <1>4, <1>8 DEF StopFirst, DeleteStopped, Run, Truncate, RemoveVolume
<1>9. CASE Wait(p) \/ Write(p) \/ RemoveFile(p) \/ Fails(p) \/ Dies(p)
  BY <1>3, <1>4, <1>9 DEF Wait, Write, RemoveFile, Fails, Dies
<1>10. CASE StopLook(p) \/ Stop(p) \/ RemoveLook(p) \/ RemoveEnvelope(p)
  BY <1>3, <1>4, <1>10 DEF StopLook, Stop, RemoveLook, RemoveEnvelope, EnvelopeGone
<1>11. CASE Status(p)
  <2>1. Becomes(p, [Goto(p, "truncate") EXCEPT !.cfg = Recorded(@, primary)])
    BY <1>11 DEF Status
  <2>2. Goto(p, "truncate") \in States /\ Goto(p, "truncate").pc = "truncate"
        /\ Goto(p, "truncate").cmd = proc[p].cmd
    BY GotoState DEF IInv
  <2> QED BY <1>2, <2>1, <2>2 DEF States
<1>12. CASE Load(p)
  <2>1. Goto(p, "startLook") \in States /\ Goto(p, "startLook").pc = "startLook"
        /\ Goto(p, "startLook").cmd = proc[p].cmd
    BY GotoState DEF IInv
  <2>2. CASE saved.state = "whole"
    <3>1. PICK adv : Becomes(p, [Goto(p, "startLook") EXCEPT !.cfg = [saved.cfg EXCEPT !.adv = adv],
                                                            !.changed = adv # saved.cfg.adv])
      BY <1>12, <2>2 DEF Load
    <3> QED BY <1>2, <2>1, <3>1 DEF States
  <2>3. CASE saved.state # "whole"
    BY <1>3, <1>12, <2>3 DEF Load
  <2> QED BY <2>2, <2>3
<1>13. CASE StartLook(p)
  <2>1. PICK s \in AnyStep \ {"off"} : Becomes(p, [Goto(p, s) EXCEPT !.found = Launched])
    BY <1>13 DEF StartLook
  <2>2. Goto(p, s) \in States /\ Goto(p, s).pc = s /\ Goto(p, s).cmd = proc[p].cmd
    BY GotoState DEF IInv
  <2> QED BY <1>2, <2>1, <2>2 DEF States
<1> QED BY <1>5, <1>6, <1>7, <1>8, <1>9, <1>10, <1>11, <1>12, <1>13 DEF Step

LEMMA FirstAside ==
  ASSUME IInv, First, Step("supervisor") \/ Fails("supervisor") \/ Dies("supervisor") \/ Pass
  PROVE  First'
<1>1. "supervisor" \in Processes /\ "operator" \in Processes
  BY DEF Processes
<1>2. /\ proc'["operator"] = proc["operator"] /\ joins' = joins
      /\ proc["supervisor"].pc # "off" /\ proc'["supervisor"].pc # "off"
  <2>1. CASE Pass
    <3>1. /\ proc["supervisor"].pc = "idle" /\ joins' = joins
          /\ Becomes("supervisor", [Idle EXCEPT !.cmd = "supervise", !.pc = "agentStatus"])
      BY <2>1 DEF Pass, At, counters
    <3>2. [Idle EXCEPT !.cmd = "supervise", !.pc = "agentStatus"].pc = "agentStatus"
      BY IdleType DEF States
    <3> HIDE DEF Idle
    <3> QED BY <1>1, <3>1, <3>2 DEF Becomes, IInv, Flow
  <2>2. CASE Step("supervisor") \/ Fails("supervisor") \/ Dies("supervisor")
    BY <1>1, <2>2, TurnOf DEF Moved
  <2> QED BY <2>1, <2>2
<1>3. SUFFICES ASSUME Joining PROVE FirstJoin'
  BY <1>2 DEF First, Joining
<1>4. FirstJoin
  BY <1>3 DEF First
<1>5. /\ UNCHANGED <<saved, external>> /\ vm'.state = vm.state /\ vm'.cfg = vm.cfg
      /\ proc'["supervisor"].pc \in {"idle", "load", "agentStatus"}
  <2>1. proc["supervisor"].pc \in Waiting /\ saved.state # "whole"
    BY <1>4 DEF FirstJoin
  <2>2. Inspect("supervisor") \/ Load("supervisor") \/ Fails("supervisor") \/ Dies("supervisor") \/ Pass
    BY <2>1
       DEF Step, EnsureVolume, JoinLook, StopFirst, DeleteStopped, Run, Wait, Status, Truncate, Write,
           StartLook, StopLook, Stop, RemoveLook, RemoveEnvelope, RemoveVolume, RemoveFile, At, Waiting
  <2>3. vm \in [state : {"missing", "stopped", "running"}, cfg : Configs, broken : BOOLEAN]
    BY DEF IInv, World
  <2>4. ASSUME NEW r, Becomes("supervisor", r) PROVE proc'["supervisor"] = r
    BY <1>1, <2>4 DEF Becomes, IInv, Flow
  <2>5. ASSUME NEW ok \in BOOLEAN PROVE Finished("supervisor", ok).pc = "idle"
    BY <1>1, FinishedState DEF IInv
  <2>6. Goto("supervisor", "load").pc = "load"
    BY <1>1, GotoState DEF IInv
  <2>7. CASE Inspect("supervisor") \/ Load("supervisor")
    BY <2>1, <2>4, <2>5, <2>6, <2>7 DEF Inspect, Load
  <2>8. CASE Fails("supervisor") \/ Dies("supervisor")
    BY <2>3, <2>4, <2>5, <2>8 DEF Fails, Dies, BreaksOff
  <2>9. CASE Pass
    BY <2>4, <2>9, IdleType DEF Pass, States
  <2> QED BY <2>2, <2>7, <2>8, <2>9
<1> QED BY <1>2, <1>4, <1>5 DEF FirstJoin, OwnAddress, external, Waiting

LEMMA FirstGoesOn ==
  ASSUME IInv, First, Step("operator") \/ Fails("operator") \/ Dies("operator")
  PROVE  First'
<1>1. "supervisor" \in Processes /\ "operator" \in Processes
  BY DEF Processes
<1> DEFINE r == proc["operator"]
<1>2. /\ proc'["supervisor"] = proc["supervisor"] /\ joins' = joins
      /\ proc'["operator"].cmd = r.cmd /\ r.pc # "idle"
  BY <1>1, TurnOf DEF Moved
<1>3. SUFFICES ASSUME Joining, proc'["operator"].pc # "idle" PROVE FirstJoin'
  BY <1>2 DEF First, Joining
<1>4. FirstJoin
  BY <1>3 DEF First
<1>5. ASSUME NEW n, Becomes("operator", n) PROVE proc'["operator"] = n
  BY <1>1, <1>5 DEF Becomes, IInv, Flow
<1>6. ASSUME NEW ok \in BOOLEAN PROVE Finished("operator", ok).pc = "idle"
  BY <1>1, FinishedState DEF IInv
<1>7. ASSUME NEW s \in AnyStep PROVE Goto("operator", s).pc = s /\ Goto("operator", s).cfg = r.cfg
                                    /\ Goto("operator", s) \in States
  BY <1>1, GotoState DEF IInv
<1>8. /\ r.pc \in Before \cup SaveSteps
      /\ ~Fails("operator") /\ ~Dies("operator")
  BY <1>3, <1>4, <1>5, <1>6 DEF FirstJoin, Fails, Dies
<1>9. CASE EnsureVolume("operator")
  BY <1>2, <1>4, <1>5, <1>7, <1>8, <1>9 DEF EnsureVolume, FirstJoin, OwnAddress, external, At, Before
<1>10. CASE JoinLook("operator")
  <2>1. proc'["operator"] = Goto("operator", "run")
    BY <1>4, <1>5, <1>10 DEF JoinLook, FirstJoin, At, Before
  <2> QED BY <1>2, <1>4, <1>7, <1>10, <2>1 DEF JoinLook, FirstJoin, OwnAddress, external, At, Before
<1>11. CASE Run("operator")
  <2>1. proc'["operator"] = Goto("operator", "wait") /\ r.cfg.prev = None /\ node.ip = None
    BY <1>4, <1>5, <1>11 DEF Run, FirstJoin, At, Before
  <2>2. OwnAddress'
    BY <1>11, <2>1 DEF Run, OwnAddress
  <2> QED BY <1>2, <1>4, <1>7, <1>11, <2>1, <2>2 DEF Run, FirstJoin, Before
<1>12. CASE Wait("operator")
  <2>1. guest = "connected" /\ proc'["operator"] = Goto("operator", "status") /\ r.pc = "wait"
        /\ UNCHANGED <<vm, saved, external>>
    BY <1>3, <1>5, <1>6, <1>12 DEF Wait, At
  <2>2. node.ip # None
    BY <2>1 DEF IInv, World
  <2> QED BY <1>2, <1>4, <1>7, <2>1, <2>2 DEF FirstJoin, OwnAddress, external, Before
<1>13. CASE Status("operator")
  <2>1. /\ proc'["operator"] = [Goto("operator", "truncate") EXCEPT !.cfg = Recorded(@, primary)]
        /\ r.pc = "status" /\ UNCHANGED <<vm, saved, external>>
    BY <1>5, <1>13 DEF Status, At
  <2>2. proc'["operator"].pc = "truncate" /\ proc'["operator"].cfg = Recorded(r.cfg, primary)
    BY <1>7, <2>1 DEF States
  <2>3. r.cfg.prev = None /\ r.cfg \in Configs
    BY <1>1, <1>4, <2>1, Fit DEF FirstJoin, IInv
  <2>4. proc'["operator"].cfg.prev = primary
    BY <2>2, <2>3 DEF Recorded, Configs
  <2>5. CASE vm.state = "running"
    <3>1. primary = node.ip
      BY <1>4, <2>1, <2>5 DEF FirstJoin, OwnAddress, IInv, World
    <3> QED BY <1>2, <1>4, <2>1, <2>2, <2>4, <3>1 DEF FirstJoin, OwnAddress, external, Before
  <2>6. CASE vm.state # "running"
    <3>1. primary = None
      BY <2>6 DEF IInv, World
    <3> QED BY <1>2, <1>4, <2>1, <2>2, <2>4, <2>6, <3>1 DEF FirstJoin, OwnAddress, external, Before
  <2> QED BY <2>5, <2>6
<1>14. CASE Truncate("operator")
  <2>1. /\ proc'["operator"] = Goto("operator", "write") /\ r.pc = "truncate" /\ saved'.state = "torn"
        /\ UNCHANGED <<vm, external>>
    BY <1>5, <1>14 DEF Truncate, At, IInv, Counted
  <2> QED BY <1>2, <1>4, <1>7, <2>1 DEF FirstJoin, OwnAddress, external, Before
<1>15. ~Write("operator")
  BY <1>3, <1>5, <1>6 DEF Write
<1> QED BY <1>8, <1>9, <1>10, <1>11, <1>12, <1>13, <1>14, <1>15
       DEF Step, Inspect, StopFirst, DeleteStopped, Load, StartLook, StopLook, Stop, RemoveLook,
           RemoveEnvelope, RemoveVolume, RemoveFile, At, Before

LEMMA FirstIssued ==
  ASSUME IInv, First, NEW c \in Commands, Issue(c)
  PROVE  First'
<1>1. PICK s \in Settings :
        Becomes("operator",
         [Idle EXCEPT !.cmd = c,
            !.cfg = IF c = "join" THEN [set |-> s, adv |-> host, prev |-> None] ELSE AnyConfig,
            !.pc  = CASE c = "join" -> "volume" [] c = "start" -> "load"
                      [] c = "stop" -> "stopLook" [] OTHER -> "removeLook"])
  BY DEF Issue
<1> DEFINE cfg == IF c = "join" THEN [set |-> s, adv |-> host, prev |-> None] ELSE AnyConfig
           pc  == CASE c = "join" -> "volume" [] c = "start" -> "load"
                    [] c = "stop" -> "stopLook" [] OTHER -> "removeLook"
           r   == [Idle EXCEPT !.cmd = c, !.cfg = cfg, !.pc = pc]
<1>2. Becomes("operator", r)
  BY <1>1
<1>3. c = "join" => pc = "volume" /\ cfg.prev = None
  OBVIOUS
<1> HIDE DEF pc, cfg
<1>4. r.cmd = c /\ r.pc = pc /\ r.cfg = cfg
  BY IdleType DEF States
<1> HIDE DEF r
<1>5. proc'["operator"] = r /\ proc'["supervisor"] = proc["supervisor"]
  BY <1>2 DEF Becomes, IInv, Flow, Processes
<1>6. SUFFICES ASSUME c = "join", joins' = 1 PROVE FirstJoin'
  BY <1>4, <1>5 DEF First, Joining
<1>7. joins = 0 /\ UNCHANGED <<vm, saved, external>>
  BY <1>6, BoundsAssumption DEF Issue, IInv, Counted
<1>8. /\ saved.state = "absent" /\ vm.state = "missing" /\ node.ip = None
      /\ proc["supervisor"].pc \notin Late
  BY <1>7 DEF IInv, Unjoined, Processes
<1>9. proc["supervisor"].pc \in Waiting
  BY <1>8 DEF IInv, Flow, States, Fits, Processes, Waiting
<1> QED BY <1>3, <1>4, <1>5, <1>6, <1>7, <1>8, <1>9 DEF FirstJoin, OwnAddress, external, Before

JoinWrites ==
  \A p \in Processes :
    /\ Write(p) /\ proc[p].cmd = "join" /\ joins = 1
    /\ vm.state = "running" \/ proc[p].cfg.prev # None
    => Known'

LEMMA WriteKnows == ASSUME IInv, First PROVE JoinWrites
<1> SUFFICES ASSUME NEW p \in Processes, Write(p), proc[p].cmd = "join", joins = 1,
                    vm.state = "running" \/ proc[p].cfg.prev # None
             PROVE  Known'
  BY DEF JoinWrites
<1>1. p = "operator" /\ proc[p].pc = "write"
  BY Fit DEF IInv, Fits, Processes, Write, At
<1>2. FirstJoin /\ proc[p].cfg.prev = node.ip
  BY <1>1 DEF First, Joining, FirstJoin
<1>3. node.ip # None /\ guest \in {"connected", "off"} /\ proc["supervisor"].pc \in Waiting
  BY <1>1, <1>2 DEF FirstJoin
<1>4. /\ proc'["operator"].pc = "idle" /\ proc'["supervisor"] = proc["supervisor"]
      /\ saved'.cfg.prev = node.ip /\ UNCHANGED <<vm, guest, node>>
  <2>1. Becomes(p, Finished(p, TRUE)) /\ Finished(p, TRUE).pc = "idle"
    BY FinishedState DEF Write, IInv
  <2>2. proc'["operator"].pc = "idle" /\ proc'["supervisor"] = proc["supervisor"]
    BY <1>1, <2>1 DEF Becomes, IInv, Flow, Processes
  <2> QED BY <1>2, <2>2 DEF Write, external
<1>5. proc["supervisor"].pc = "off" => proc["supervisor"].cmd = "none"
  BY DEF First
<1> QED BY <1>3, <1>4, <1>5 DEF Known, Processes, Waiting

(* An agent that joined once keeps its Node and its InternalIP through every *)
(* start, stop, reboot, fault and change of address (Join, StartAgent,       *)
(* refreshAgentAdvertiseAddress): the first Join records the InternalIP,     *)
(* unless its VM exited after it connected and before AgentStatus read its   *)
(* address, nothing but a second Join changes what is recorded, and the      *)
(* server never rejects a volume that joined.                                *)
THEOREM AgentIdentityKept == Spec => IdentityKept
<1>1. IInv => NotRejected
  BY DEF IInv, World, NotRejected
<1>2. IInv /\ [Next]_vars => [Known /\ joins' = 1 => Known' /\ node'.ip = node.ip]_vars
  BY KnownKept
<1>3. Spec => []NotRejected
  BY <1>1, Invariant, PTL
<1>5. Init => First
  <2>1. ASSUME Init PROVE proc["operator"].pc = "idle" /\ proc["supervisor"].cmd = "none"
    BY <2>1 DEF Init, Idle
  <2> QED BY <2>1 DEF First, Joining
<1>6. IInv /\ First /\ [Next]_vars => First'
  <2> SUFFICES ASSUME IInv, First, [Next]_vars PROVE First'
    OBVIOUS
  <2>1. CASE UNCHANGED vars
    BY <2>1 DEF vars, external, counters, First, Joining, FirstJoin, OwnAddress
  <2> QED BY <2>1, FirstOutside, FirstAside, FirstGoesOn, FirstIssued DEF Next, Processes
<1>7. Spec => []First
  BY <1>5, <1>6, Invariant, PTL DEF Spec
<1>8. IInv /\ First /\ [Next]_vars => [JoinWrites]_vars
  BY WriteKnows
<1>9. Spec => [][JoinWrites]_vars
  BY <1>7, <1>8, Invariant, PTL DEF Spec
<1>4. Spec => [][Known /\ joins' = 1 => Known' /\ node'.ip = node.ip]_vars
  BY <1>2, Invariant, PTL DEF Spec
<1> QED BY <1>3, <1>4, <1>9 DEF IdentityKept, InternalIPKept, JoinRecords, JoinWrites

HIDE DEF AnyStep, AnyCommand, JoinSteps, StartSteps, LaunchSteps, SaveSteps, StopSteps, RemoveSteps

-----------------------------------------------------------------------------
(* The jobs of launchd: another system, with parameters and a state of its   *)
(* own.  What Launchd assumes of its constants is a hypothesis here.         *)
CONSTANTS Clients, Definitions, Args, ArgsOf, Practices, Wanted, MaxDisturbances
VARIABLES practice, plist, job, pc, op, want, created, alone, quiet, settled, removed, disturbed

Ld == INSTANCE Launchd

LaunchdAssumptions ==
  Ld!ArgsAssumption /\ Ld!WantedAssumption /\ Ld!BoundAssumption /\ Ld!PracticesAssumption /\ Ld!NoneAssumption

(* The steps of each command.                                                *)
InstallSteps == {"inspect", "bootoutOld", "bootoutOldGUI", "write", "bootstrapUser", "kickstartUser"}
UninstallSteps  == {"bootoutUser", "bootoutGUI", "removeAgent"}
RefuseSteps  == {"refusePlist", "user", "gui"}
PublishSteps == {"publish", "status", "bootstrap", "kickstart"}
UnloadSteps  == {"bootout", "unloading"}
CleanSteps   == {"absent", "remove", "check"}
Steps        == {"idle", "validate", "verify"} \cup InstallSteps \cup UninstallSteps \cup RefuseSteps
                  \cup PublishSteps \cup UnloadSteps \cup CleanSteps

May(s, k) ==
  /\ s = "idle" <=> k = None
  /\ s \in InstallSteps => k = "Install"
  /\ s \in UninstallSteps => k = "Uninstall"
  /\ s \in RefuseSteps \cup {"verify"} => k \in {"InstallUnattended", "StatusUnattended"}
  /\ s = "validate" => k \in {"InstallUnattended", "StatusUnattended", "UninstallUnattended"}
  /\ s \in PublishSteps => k = "InstallUnattended"
  /\ s \in UnloadSteps => k \in {"InstallUnattended", "UninstallUnattended"}
  /\ s \in CleanSteps => k = "UninstallUnattended"

JobFlow ==
  /\ pc \in [Clients -> Steps]
  /\ \A c \in Clients : op[c] \in practice \cup {None} /\ May(pc[c], op[c])

(* No per-user supervisor, nor any way to one but an install.                *)
UserGone == plist["user"] = None /\ \A d \in Ld!PerUser : ~Ld!Loaded(d)

(* What client c relies on at step s: of a per-user supervisor, if nobody    *)
(* installs one; of what it did, if no other came between; and of what it    *)
(* saw, if nothing was published meanwhile.                                  *)
SawNone(s) ==
  "Install" \notin practice =>
    /\ s \in {"user", "gui"} => plist["user"] = None
    /\ s = "gui" => ~Ld!Loaded("user")
    /\ s \in {"validate", "publish"} => UserGone

Did(c, s) ==
  c \in alone =>
    /\ s \in {"bootstrapUser", "kickstartUser"} => plist["user"] = want[c]
    /\ s = "kickstartUser" /\ Ld!Loaded("user") => job["user"].def = want[c]
    /\ op[c] = "InstallUnattended"
         /\ s \in {"status", "bootstrap", "kickstart", "verify"} \cup UnloadSteps
         => plist["system"] = want[c]
    /\ op[c] = "InstallUnattended" /\ s = "verify"
         /\ Ld!Loaded("system") => job["system"].phase # "exiting"
    /\ s \in {"bootoutGUI", "removeAgent"} => ~Ld!Kickable("user")
    /\ s = "removeAgent" => ~Ld!Kickable("gui")

SawRemoved(c, s) == c \in quiet /\ s \in {"absent", "check"} => plist["system"] = None

Knows(c, s) == (op[c] # "UninstallUnattended" => SawNone(s)) /\ Did(c, s) /\ SawRemoved(c, s)

Apart == "Install" \notin practice /\ (plist["system"] # None \/ Ld!Loaded("system")) => UserGone

JobInv == Ld!TypeOK /\ JobFlow /\ (\A c \in Clients : Knows(c, pc[c])) /\ Apart /\ Ld!ReportsHold


-----------------------------------------------------------------------------
(* A step of a client                                                        *)
USE DEF Steps, InstallSteps, UninstallSteps, RefuseSteps, PublishSteps, UnloadSteps, CleanSteps

Forth(c, to) == to \in Steps /\ (to = "idle" \/ May(to, op[c]))

(* The other clients stay where they are, and what they did they did not do  *)
(* alone.                                                                    *)
Turn(c) ==
  /\ JobFlow' /\ op' \in [Clients -> Ld!Commands \cup {None}] /\ want' \in [Clients -> Wanted]
  /\ disturbed' \in 0..MaxDisturbances /\ alone' \subseteq Clients
  /\ \A b \in Clients : b # c => pc'[b] = pc[b] /\ op'[b] = op[b] /\ b \notin alone'

LEMMA MovesFlow ==
  ASSUME LaunchdAssumptions, JobInv, NEW c \in Clients, NEW from, NEW to, Ld!Moves(c, from, to),
         Forth(c, to), UNCHANGED practice
  PROVE  /\ Turn(c) /\ want' = want /\ pc'[c] = to
         /\ (to # "idle" => op'[c] = op[c]) /\ (c \in alone' => c \in alone)
<1>1. /\ pc \in [Clients -> Steps] /\ op \in [Clients -> Ld!Commands \cup {None}]
      /\ alone \subseteq Clients
  BY DEF JobInv, JobFlow, Ld!TypeOK
<1>2. /\ pc' = [pc EXCEPT ![c] = to] /\ want' = want /\ disturbed' = disturbed
      /\ op' = IF to = "idle" THEN [op EXCEPT ![c] = None] ELSE op
      /\ alone' = IF to = "idle" THEN {} ELSE alone \cap {c}
  BY DEF Ld!Moves
<1>3. pc' \in [Clients -> Steps] /\ op' \in [Clients -> Ld!Commands \cup {None}]
  BY <1>1, <1>2 DEF Forth
<1>4. /\ pc'[c] = to /\ op'[c] = IF to = "idle" THEN None ELSE op[c]
      /\ \A b \in Clients : b # c => pc'[b] = pc[b] /\ op'[b] = op[b]
  BY <1>1, <1>2
<1>5. May("idle", None)
  BY DEF May, Ld!Commands, LaunchdAssumptions
<1>6. ASSUME NEW b \in Clients PROVE op'[b] \in practice \cup {None} /\ May(pc'[b], op'[b])
  BY <1>4, <1>5 DEF JobInv, JobFlow, Forth
<1> QED BY <1>1, <1>2, <1>3, <1>4, <1>6 DEF JobFlow, Turn, JobInv, Ld!TypeOK

(* A turn of a client keeps the invariant if no per-user supervisor comes of *)
(* it unless one is installed, if what is published ends the quiet of the    *)
(* others, and if the client knows what it relies on next.                   *)
LEMMA ClientTurnKeeps ==
  ASSUME LaunchdAssumptions, JobInv, NEW c \in Clients, Turn(c), UNCHANGED practice,
         plist' \in [Ld!Levels -> Definitions \cup {None}],
         job' \in [Ld!Domains -> Ld!Jobs \cup {None}],
         created' \subseteq Clients, quiet' \subseteq quiet \cup {c},
         settled' \in [Ld!Levels -> Wanted \cup {None}], removed' \subseteq Ld!Levels,
         "Install" \notin practice =>
           /\ plist["user"] = None => plist'["user"] = None
           /\ \A d \in Ld!PerUser : job[d] = None => job'[d] = None,
         plist["system"] = None => plist'["system"] = None \/ quiet' \subseteq {c},
         Knows(c, pc[c])', Apart', Ld!ReportsHold'
  PROVE  JobInv'
<1>1. Ld!TypeOK'
  <2>1. ASSUME NEW b \in Clients
        PROVE  /\ pc'[b] = "idle" <=> op'[b] = None
               /\ pc'[b] \in {"publish", "status", "bootstrap", "kickstart"} => op'[b] = "InstallUnattended"
               /\ pc'[b] \in {"absent", "remove", "check"} => op'[b] = "UninstallUnattended"
    BY DEF Turn, JobFlow, May
  <2>2. practice' \in Practices /\ quiet' \subseteq Clients
    BY DEF JobInv, Ld!TypeOK
  <2> QED BY <2>1, <2>2 DEF Turn, Ld!TypeOK
<1>2. ASSUME NEW b \in Clients, b # c PROVE Knows(b, pc[b])'
  <2>1. Knows(b, pc[b])
    BY DEF JobInv
  <2>2. SawNone(pc[b]) => SawNone(pc[b])'
    <3>1. practice' = practice /\ pc'[b] = pc[b]
      BY <1>2 DEF Turn
    <3>2. "Install" \notin practice /\ UserGone => UserGone'
      BY DEF UserGone, Ld!Loaded
    <3>3. "Install" \notin practice /\ ~Ld!Loaded("user") => ~Ld!Loaded("user")'
      BY DEF Ld!Loaded, Ld!PerUser
    <3> QED BY <3>1, <3>2, <3>3 DEF SawNone
  <2>3. Did(b, pc[b])'
    BY <1>2 DEF Turn, Did
  <2>4. SawRemoved(b, pc[b]) => SawRemoved(b, pc[b])'
    BY <1>2 DEF Turn, SawRemoved
  <2> QED BY <1>2, <2>1, <2>2, <2>3, <2>4 DEF Knows, Turn
<1> QED BY <1>1, <1>2 DEF JobInv, Turn

LEMMA MovesKeep ==
  ASSUME LaunchdAssumptions, JobInv, NEW c \in Clients, NEW from, NEW to, Ld!Moves(c, from, to),
         Forth(c, to), UNCHANGED practice,
         plist' \in [Ld!Levels -> Definitions \cup {None}],
         job' \in [Ld!Domains -> Ld!Jobs \cup {None}],
         created' \subseteq Clients, quiet' \subseteq quiet,
         settled' \in [Ld!Levels -> Wanted \cup {None}], removed' \subseteq Ld!Levels,
         "Install" \notin practice =>
           /\ plist["user"] = None => plist'["user"] = None
           /\ \A d \in Ld!PerUser : job[d] = None => job'[d] = None,
         plist["system"] = None => plist'["system"] = None \/ quiet' \subseteq {c},
         to # "idle" => Knows(c, to)', Apart', Ld!ReportsHold'
  PROVE  JobInv'
<1>1. Turn(c) /\ pc'[c] = to
  BY MovesFlow
<1>2. Knows(c, pc[c])'
  <2>1. CASE to # "idle"
    BY <1>1, <2>1 DEF Knows, SawNone, Did, SawRemoved, UserGone, Ld!Loaded, Ld!Kickable
  <2>2. CASE to = "idle"
    BY <1>1, <2>2 DEF Knows, SawNone, Did, SawRemoved
  <2> QED BY <2>1, <2>2
<1> QED BY <1>1, <1>2, ClientTurnKeeps

(* Steps that only look.                                                     *)
LEMMA ReadsKeep ==
  ASSUME LaunchdAssumptions, JobInv, NEW c \in Clients, NEW from, NEW to, Ld!Reads(c, from, to),
         Forth(c, to), UNCHANGED practice,
         to # "idle" => Knows(c, to)
  PROVE  JobInv'
<1>1. /\ Ld!Moves(c, from, to) /\ settled' = Ld!Nothing /\ UNCHANGED <<plist, job, removed>>
      /\ created' \subseteq created /\ quiet' \subseteq quiet
  BY DEF Ld!Reads, Ld!Call
<1>2. /\ pc'[c] = to /\ (to # "idle" => op'[c] = op[c]) /\ want' = want
      /\ (c \in alone' => c \in alone)
  BY <1>1, MovesFlow
<1>3. to # "idle" => Knows(c, to)'
  BY <1>1, <1>2 DEF Knows, SawNone, Did, SawRemoved, UserGone, Ld!Loaded, Ld!Kickable
<1>4. Apart' /\ Ld!ReportsHold'
  BY <1>1 DEF JobInv, Apart, UserGone, Ld!ReportsHold, Ld!SettledAgrees, Ld!RemovalIsClean,
     Ld!Nothing, Ld!Loaded, Ld!Kickable, Ld!Levels
<1>5. /\ plist' \in [Ld!Levels -> Definitions \cup {None}]
      /\ job' \in [Ld!Domains -> Ld!Jobs \cup {None}]
      /\ created' \subseteq Clients
      /\ settled' \in [Ld!Levels -> Wanted \cup {None}] /\ removed' \subseteq Ld!Levels
  BY <1>1 DEF JobInv, Ld!TypeOK, Ld!Nothing
<1> QED BY <1>1, <1>3, <1>4, <1>5, MovesKeep

LEMMA FailsKeeps ==
  ASSUME LaunchdAssumptions, JobInv, NEW c \in Clients, NEW from, Ld!Fails(c, from),
         UNCHANGED practice PROVE JobInv'
BY ReadsKeep DEF Ld!Fails, Forth

LEMMA BootoutJob ==
  ASSUME LaunchdAssumptions, Ld!TypeOK, NEW d \in Ld!Domains, Ld!Bootout(d)
  PROVE  /\ job' \in [Ld!Domains -> Ld!Jobs \cup {None}]
         /\ \A x \in Ld!Domains : x # d => job'[x] = job[x]
         /\ job'[d] # None => job[d] # None /\ job'[d].phase = "exiting" /\ job'[d].def = job[d].def
<1>1. job[d] \in Ld!Jobs \cup {None} /\ None \notin Ld!Jobs
  BY DEF Ld!TypeOK, LaunchdAssumptions
<1> DEFINE left == IF job[d] \in Ld!Jobs /\ job[d].phase # "waiting"
                   THEN [job[d] EXCEPT !.phase = "exiting"] ELSE None
<1>2. job' = [job EXCEPT ![d] = left]
  BY DEF Ld!Bootout
<1>3. left \in Ld!Jobs \cup {None}
      /\ (left # None => job[d] # None /\ left.phase = "exiting" /\ left.def = job[d].def)
  BY <1>1 DEF Ld!Jobs
<1> QED BY <1>2, <1>3 DEF Ld!TypeOK

(* A bootout leaves no job that could be restarted.                          *)
LEMMA BootsOutKeeps ==
  ASSUME LaunchdAssumptions, JobInv, NEW c \in Clients, NEW d \in Ld!Domains, NEW from, NEW to,
         Ld!BootsOut(c, d, from, to), Forth(c, to),
         UNCHANGED practice, to \in {"bootoutOldGUI", "write", "bootoutGUI", "removeAgent", "unloading"},
         to = "unloading" => Did(c, to), to = "bootoutGUI" => d = "user",
         to = "removeAgent" => d = "gui" /\ Did(c, "bootoutGUI")
  PROVE  JobInv'
<1>1. /\ Ld!Moves(c, from, to) /\ settled' = Ld!Nothing /\ UNCHANGED <<plist, removed>>
      /\ Ld!Bootout(d)
      /\ created' \subseteq created /\ quiet' \subseteq quiet
  BY DEF Ld!BootsOut, Ld!Call
<1>2. /\ pc'[c] = to /\ op'[c] = op[c] /\ want' = want /\ (c \in alone' => c \in alone)
  BY <1>1, MovesFlow
<1>3. /\ job' \in [Ld!Domains -> Ld!Jobs \cup {None}]
      /\ \A x \in Ld!Domains : x # d => job'[x] = job[x]
      /\ job'[d] # None => job[d] # None /\ job'[d].phase = "exiting" /\ job'[d].def = job[d].def
  BY <1>1, BootoutJob DEF JobInv
<1>4. /\ \A x \in Ld!Domains : job[x] = None => job'[x] = None
      /\ \A x \in Ld!Domains : ~Ld!Kickable(x) => ~Ld!Kickable(x)'
      /\ ~Ld!Kickable(d)'
  BY <1>3 DEF Ld!Kickable, Ld!Loaded
<1>5. Knows(c, to)'
  <2>1. Did(c, to)'
    BY <1>1, <1>2, <1>3, <1>4 DEF Did, Ld!Domains
  <2> QED BY <2>1 DEF Knows, SawNone, SawRemoved
<1>6. Apart'
  BY <1>1, <1>4 DEF JobInv, Apart, UserGone, Ld!Loaded, Ld!PerUser, Ld!Domains
<1>7. Ld!ReportsHold'
  BY <1>1, <1>4 DEF JobInv, Ld!ReportsHold, Ld!SettledAgrees, Ld!RemovalIsClean, Ld!Nothing,
     Ld!Loaded, Ld!PerUser, Ld!Domains, Ld!Levels
<1>8. /\ plist' \in [Ld!Levels -> Definitions \cup {None}]
      /\ created' \subseteq Clients
      /\ settled' \in [Ld!Levels -> Wanted \cup {None}] /\ removed' \subseteq Ld!Levels
  BY <1>1 DEF JobInv, Ld!TypeOK, Ld!Nothing
<1>9. "Install" \notin practice => \A x \in Ld!PerUser : job[x] = None => job'[x] = None
  BY <1>4 DEF Ld!PerUser, Ld!Domains
<1> QED BY <1>1, <1>3, <1>5, <1>6, <1>7, <1>8, <1>9, MovesKeep

(* What holds of a client at a step.                                         *)
LEMMA Where ==
  ASSUME LaunchdAssumptions, JobInv, NEW c \in Clients
  PROVE  May(pc[c], op[c]) /\ Knows(c, pc[c]) /\ op[c] \in practice \cup {None}
        /\ None \notin Ld!Commands
BY DEF JobInv, JobFlow, LaunchdAssumptions

-----------------------------------------------------------------------------
(* The per-user LaunchAgent.                                                 *)

LEMMA LookForAgentKeeps ==
  ASSUME LaunchdAssumptions, JobInv, NEW c \in Clients, Ld!Inspect(c), UNCHANGED practice
  PROVE  JobInv'
<1> DEFINE to == IF plist["user"] # None THEN "bootoutOld" ELSE "write"
<1>1. pc[c] = "inspect" /\ Ld!Reads(c, "inspect", to)
  BY DEF Ld!Inspect, Ld!Reads, Ld!Call, Ld!Moves
<1>2. Forth(c, to) /\ Knows(c, to)
  BY <1>1, Where DEF Forth, May, Knows, SawNone, Did, SawRemoved
<1> QED BY <1>1, <1>2, ReadsKeep

LEMMA AgentBootoutsKeep ==
  ASSUME LaunchdAssumptions, JobInv, NEW c \in Clients,
         Ld!BootoutOld(c) \/ Ld!BootoutOldGUI(c) \/ Ld!BootoutUser(c) \/ Ld!BootoutGUI(c),
         UNCHANGED practice
  PROVE  JobInv'
<1>1. CASE Ld!BootoutOld(c)
  <2>1. pc[c] = "bootoutOld" /\ Ld!BootsOut(c, "user", "bootoutOld", "bootoutOldGUI")
    BY <1>1 DEF Ld!BootoutOld, Ld!BootsOut, Ld!Call, Ld!Moves
  <2>2. Forth(c, "bootoutOldGUI")
    BY <2>1, Where DEF Forth, May
  <2> QED BY <2>1, <2>2, BootsOutKeeps DEF Ld!Domains
<1>2. CASE Ld!BootoutOldGUI(c)
  <2>1. pc[c] = "bootoutOldGUI" /\ Ld!BootsOut(c, "gui", "bootoutOldGUI", "write")
    BY <1>2 DEF Ld!BootoutOldGUI, Ld!BootsOut, Ld!Call, Ld!Moves
  <2>2. Forth(c, "write")
    BY <2>1, Where DEF Forth, May
  <2> QED BY <2>1, <2>2, BootsOutKeeps DEF Ld!Domains
<1>3. CASE Ld!BootoutUser(c)
  <2>1. pc[c] = "bootoutUser" /\ Ld!BootsOut(c, "user", "bootoutUser", "bootoutGUI")
    BY <1>3 DEF Ld!BootoutUser, Ld!BootsOut, Ld!Call, Ld!Moves
  <2>2. Forth(c, "bootoutGUI")
    BY <2>1, Where DEF Forth, May
  <2> QED BY <2>1, <2>2, BootsOutKeeps DEF Ld!Domains
<1>4. CASE Ld!BootoutGUI(c)
  <2>1. pc[c] = "bootoutGUI" /\ Ld!BootsOut(c, "gui", "bootoutGUI", "removeAgent")
    BY <1>4 DEF Ld!BootoutGUI, Ld!BootsOut, Ld!Call, Ld!Moves
  <2>2. Forth(c, "removeAgent") /\ Did(c, "bootoutGUI")
    BY <2>1, Where DEF Forth, May, Knows
  <2> QED BY <2>1, <2>2, BootsOutKeeps DEF Ld!Domains
<1> QED BY <1>1, <1>2, <1>3, <1>4

LEMMA WriteAgentKeeps ==
  ASSUME LaunchdAssumptions, JobInv, NEW c \in Clients, Ld!WriteAgent(c), UNCHANGED practice
  PROVE  JobInv'
<1>1. /\ pc[c] = "write" /\ Ld!Moves(c, "write", "bootstrapUser")
      /\ plist' = [plist EXCEPT !["user"] = want[c]] /\ job' = job
      /\ settled' = Ld!Nothing /\ removed' = removed \ {"user"}
      /\ created' = created /\ quiet' = quiet
  BY DEF Ld!WriteAgent, Ld!Call, Ld!Moves
<1>2. op[c] = "Install" /\ "Install" \in practice /\ Forth(c, "bootstrapUser")
  BY <1>1, Where DEF Forth, May, Ld!Commands
<1>3. /\ plist' \in [Ld!Levels -> Definitions \cup {None}]
      /\ plist'["user"] = want[c] /\ plist'["system"] = plist["system"]
  BY <1>1 DEF JobInv, Ld!TypeOK, Ld!Levels, LaunchdAssumptions
<1>4. want' = want
  BY <1>1 DEF Ld!Moves
<1>5. Knows(c, "bootstrapUser")'
  BY <1>3, <1>4 DEF Knows, SawNone, Did, SawRemoved
<1>6. Apart'
  BY <1>2 DEF Apart
<1>7. Ld!ReportsHold'
  BY <1>1, <1>3 DEF JobInv, Ld!ReportsHold, Ld!SettledAgrees, Ld!RemovalIsClean, Ld!Nothing,
     Ld!Levels, Ld!Loaded
<1>8. /\ job' \in [Ld!Domains -> Ld!Jobs \cup {None}] /\ created' \subseteq Clients
      /\ settled' \in [Ld!Levels -> Wanted \cup {None}] /\ removed' \subseteq Ld!Levels
  BY <1>1 DEF JobInv, Ld!TypeOK, Ld!Nothing
<1> QED BY <1>1, <1>2, <1>3, <1>5, <1>6, <1>7, <1>8, MovesKeep

LEMMA FreshType ==
  ASSUME LaunchdAssumptions, NEW d \in Definitions
  PROVE  Ld!Fresh(d) \in Ld!Jobs /\ Ld!Fresh(d) # None /\ Ld!Fresh(d).def = d
        /\ Ld!Fresh(d).phase = "running"
BY DEF Ld!Fresh, Ld!Jobs, LaunchdAssumptions

LEMMA BootstrapUserKeeps ==
  ASSUME LaunchdAssumptions, JobInv, NEW c \in Clients, Ld!BootstrapUser(c), UNCHANGED practice
  PROVE  JobInv'
<1>1. CASE Ld!Fails(c, "bootstrapUser")
  BY <1>1, FailsKeeps
<1>2. CASE /\ Ld!Call(c, "bootstrapUser", "kickstartUser") /\ plist["user"] # None
           /\ job' = [job EXCEPT !["user"] = Ld!Fresh(plist["user"])]
           /\ settled' = Ld!Nothing /\ UNCHANGED <<plist, removed>>
  <2>1. /\ pc[c] = "bootstrapUser" /\ Ld!Moves(c, "bootstrapUser", "kickstartUser")
        /\ created' = created /\ quiet' = quiet
    BY <1>2 DEF Ld!Call, Ld!Moves
  <2>2. op[c] = "Install" /\ "Install" \in practice /\ Forth(c, "kickstartUser")
        /\ Did(c, "bootstrapUser")
    BY <2>1, Where DEF Forth, May, Ld!Commands, Knows
  <2>3. plist["user"] \in Definitions
    BY <1>2 DEF JobInv, Ld!TypeOK, Ld!Levels
  <2>4. /\ job' \in [Ld!Domains -> Ld!Jobs \cup {None}] /\ job'["system"] = job["system"]
        /\ job'["user"].def = plist["user"]
    BY <1>2, <2>3, FreshType DEF JobInv, Ld!TypeOK, Ld!Domains
  <2>5. want' = want /\ (c \in alone' => c \in alone)
    BY <2>1 DEF Ld!Moves
  <2>6. Knows(c, "kickstartUser")'
    BY <1>2, <2>2, <2>4, <2>5 DEF Knows, SawNone, Did, SawRemoved
  <2>7. Apart'
    BY <2>2 DEF Apart
  <2>8. Ld!ReportsHold'
    BY <1>2, <2>4 DEF JobInv, Ld!ReportsHold, Ld!SettledAgrees, Ld!RemovalIsClean, Ld!Nothing,
       Ld!Levels, Ld!Loaded
  <2>9. /\ plist' \in [Ld!Levels -> Definitions \cup {None}] /\ created' \subseteq Clients
        /\ settled' \in [Ld!Levels -> Wanted \cup {None}] /\ removed' \subseteq Ld!Levels
    BY <1>2, <2>1 DEF JobInv, Ld!TypeOK, Ld!Nothing
  <2> QED BY <1>2, <2>1, <2>2, <2>4, <2>6, <2>7, <2>8, <2>9, MovesKeep
<1> QED BY <1>1, <1>2 DEF Ld!BootstrapUser, Ld!Bootstraps

(* What a restart of a job leaves as it was.                                 *)
LEMMA KickstartJob ==
  ASSUME LaunchdAssumptions, Ld!TypeOK, NEW l \in Ld!Levels, Ld!Kickable(l),
         job' = [job EXCEPT ![l].phase = "running"]
  PROVE  /\ job' \in [Ld!Domains -> Ld!Jobs \cup {None}]
         /\ \A x \in Ld!Domains : x # l => job'[x] = job[x]
         /\ job[l] # None /\ job'[l] # None /\ job'[l].def = job[l].def /\ job'[l].phase = "running"
<1>1. l \in Ld!Domains /\ job[l] \in Ld!Jobs
  BY DEF Ld!TypeOK, Ld!Kickable, Ld!Loaded, Ld!Levels, Ld!Domains
<1>2. [job[l] EXCEPT !.phase = "running"] \in Ld!Jobs
  BY <1>1 DEF Ld!Jobs
<1>3. job' = [job EXCEPT ![l] = [job[l] EXCEPT !.phase = "running"]]
  BY <1>1 DEF Ld!TypeOK
<1> QED BY <1>1, <1>2, <1>3 DEF Ld!TypeOK, Ld!Kickable, Ld!Loaded, Ld!Jobs, LaunchdAssumptions

LEMMA KickstartUserKeeps ==
  ASSUME LaunchdAssumptions, JobInv, NEW c \in Clients, Ld!KickstartUser(c), UNCHANGED practice
  PROVE  JobInv'
<1>1. CASE Ld!KickstartFails(c, "user", "kickstartUser")
  BY <1>1, FailsKeeps DEF Ld!KickstartFails
<1>2. CASE Ld!Kickstarts(c, "user", "kickstartUser", "idle") /\ Ld!Settles(c, "user")
  <2>1. /\ pc[c] = "kickstartUser" /\ Ld!Moves(c, "kickstartUser", "idle") /\ Ld!Kickable("user")
        /\ job' = [job EXCEPT !["user"].phase = "running"] /\ UNCHANGED <<plist, removed>>
        /\ created' \subseteq created /\ quiet' \subseteq quiet
        /\ settled' = IF c \in alone THEN [Ld!Nothing EXCEPT !["user"] = want[c]] ELSE Ld!Nothing
    BY <1>2 DEF Ld!Kickstarts, Ld!Call, Ld!Moves, Ld!Settles
  <2>2. op[c] = "Install" /\ "Install" \in practice /\ Forth(c, "idle") /\ Did(c, "kickstartUser")
    BY <2>1, Where DEF Forth, May, Ld!Commands, Knows
  <2>3. /\ job' \in [Ld!Domains -> Ld!Jobs \cup {None}]
        /\ job'["system"] = job["system"] /\ job'["gui"] = job["gui"]
        /\ job["user"] # None /\ job'["user"].def = job["user"].def
    BY <2>1, KickstartJob DEF JobInv, Ld!Levels, Ld!Domains
  <2>4. want[c] \in Wanted /\ None \notin Wanted
    BY DEF JobInv, Ld!TypeOK, LaunchdAssumptions
  <2>5. /\ settled' \in [Ld!Levels -> Wanted \cup {None}] /\ settled'["system"] = None
        /\ settled'["user"] # None => c \in alone /\ settled'["user"] = want[c]
    BY <2>1, <2>4 DEF Ld!Nothing, Ld!Levels
  <2>6. Ld!SettledAgrees'
    <3>1. c \in alone => plist["user"] = want[c] /\ job["user"].def = want[c]
      BY <2>2, <2>3 DEF Did, Ld!Loaded
    <3>2. plist' = plist
      BY <2>1
    <3> QED BY <2>3, <2>5, <3>1, <3>2 DEF Ld!SettledAgrees
  <2>7. Ld!RemovalIsClean'
    BY <2>1, <2>3 DEF JobInv, Ld!ReportsHold, Ld!RemovalIsClean, Ld!PerUser, Ld!Loaded
  <2>8. Apart' /\ Ld!ReportsHold'
    BY <2>2, <2>6, <2>7 DEF Apart, Ld!ReportsHold
  <2>9. /\ plist' \in [Ld!Levels -> Definitions \cup {None}] /\ created' \subseteq Clients
        /\ removed' \subseteq Ld!Levels
    BY <2>1 DEF JobInv, Ld!TypeOK
  <2>10. /\ Ld!Moves(c, "kickstartUser", "idle") /\ plist' = plist /\ quiet' \subseteq quiet
    BY <2>1
  <2> QED BY <2>2, <2>3, <2>5, <2>8, <2>9, <2>10, MovesKeep
<1> QED BY <1>1, <1>2 DEF Ld!KickstartUser

LEMMA RemoveAgentKeeps ==
  ASSUME LaunchdAssumptions, JobInv, NEW c \in Clients, Ld!RemoveAgent(c), UNCHANGED practice
  PROVE  JobInv'
<1>1. /\ pc[c] = "removeAgent" /\ Ld!Moves(c, "removeAgent", "idle")
      /\ plist' = [plist EXCEPT !["user"] = None] /\ job' = job
      /\ settled' = Ld!Nothing
         /\ removed' = IF c \in alone THEN removed \cup {"user"} ELSE removed
      /\ created' \subseteq created /\ quiet' \subseteq quiet
  BY DEF Ld!RemoveAgent, Ld!Call, Ld!Moves
<1>2. Forth(c, "idle") /\ Did(c, "removeAgent")
  BY <1>1, Where DEF Forth, Knows
<1>3. /\ plist' \in [Ld!Levels -> Definitions \cup {None}]
      /\ plist'["user"] = None /\ plist'["system"] = plist["system"]
  BY <1>1 DEF JobInv, Ld!TypeOK, Ld!Levels
<1>4. Apart'
  BY <1>1, <1>3 DEF JobInv, Apart, UserGone, Ld!Loaded
<1>5. Ld!ReportsHold'
  BY <1>1, <1>2, <1>3 DEF JobInv, Ld!ReportsHold, Ld!SettledAgrees, Ld!RemovalIsClean, Ld!Nothing,
     Ld!Levels, Ld!Loaded, Did, Ld!Kickable, Ld!PerUser
<1>6. /\ job' \in [Ld!Domains -> Ld!Jobs \cup {None}] /\ created' \subseteq Clients
      /\ settled' \in [Ld!Levels -> Wanted \cup {None}] /\ removed' \subseteq Ld!Levels
  BY <1>1 DEF JobInv, Ld!TypeOK, Ld!Nothing, Ld!Levels
<1> QED BY <1>1, <1>2, <1>3, <1>4, <1>5, <1>6, MovesKeep

-----------------------------------------------------------------------------
(* The unattended LaunchDaemon.                                              *)

LEMMA RefusePlistKeeps ==
  ASSUME LaunchdAssumptions, JobInv, NEW c \in Clients, Ld!RefusePlist(c), UNCHANGED practice
  PROVE  JobInv'
<1> DEFINE to == IF plist["user"] # None THEN "idle" ELSE "user"
<1>1. pc[c] = "refusePlist" /\ Ld!Reads(c, "refusePlist", to)
  BY DEF Ld!RefusePlist, Ld!Reads, Ld!Call, Ld!Moves
<1>2. Forth(c, to) /\ (to # "idle" => Knows(c, to))
  BY <1>1, Where DEF Forth, May, Knows, SawNone, Did, SawRemoved
<1> QED BY <1>1, <1>2, ReadsKeep

LEMMA RefuseLoadedKeeps ==
  ASSUME LaunchdAssumptions, JobInv, NEW c \in Clients, NEW d \in Ld!PerUser,
         Ld!RefuseLoaded(c, d), UNCHANGED practice PROVE JobInv'
<1> DEFINE to == IF Ld!Loaded(d) THEN "idle" ELSE IF d = "user" THEN "gui" ELSE "validate"
<1>1. pc[c] = d /\ Ld!Reads(c, d, to)
  BY DEF Ld!RefuseLoaded, Ld!Reads, Ld!Call, Ld!Moves
<1>2. Forth(c, to) /\ (to # "idle" => Knows(c, to))
  <2>1. d \in {"user", "gui"} /\ May(d, op[c]) /\ Knows(c, d)
    BY <1>1, Where DEF Ld!PerUser
  <2>2. Forth(c, to)
    BY <2>1 DEF Forth, May
  <2>3. to = "validate" /\ SawNone("gui") => SawNone("validate")
    BY <2>1 DEF SawNone, UserGone, Ld!PerUser
  <2>4. to # "idle" => SawNone(to)
    BY <2>1, <2>3 DEF May, Knows, SawNone
  <2>5. Did(c, to) /\ SawRemoved(c, to)
    BY <2>1 DEF Did, SawRemoved
  <2> QED BY <2>2, <2>4, <2>5 DEF Knows
<1> QED BY <1>1, <1>2, ReadsKeep

LEMMA ValidateKeeps ==
  ASSUME LaunchdAssumptions, JobInv, NEW c \in Clients, Ld!Validate(c), UNCHANGED practice
  PROVE  JobInv'
<1>1. pc[c] = "validate" /\ May("validate", op[c]) /\ Knows(c, "validate")
  BY Where DEF Ld!Validate, Ld!Reads, Ld!Call, Ld!Moves
<1>2. PICK to : /\ Ld!Reads(c, "validate", to)
                /\ \/ to = "idle"
                   \/ to = "publish" /\ op[c] = "InstallUnattended"
                   \/ to = "verify" /\ op[c] = "StatusUnattended"
                   \/ to = "absent" /\ op[c] = "UninstallUnattended" /\ plist["system"] = None
                   \/ to = "bootout" /\ op[c] = "UninstallUnattended"
  BY <1>1 DEF Ld!Validate, May
<1>3. Forth(c, to)
  <2>1. (op[c] \in Ld!Commands => op[c] # None)
    BY <1>1 DEF May, LaunchdAssumptions
  <2> QED BY <1>2, <2>1 DEF Forth, May, Ld!Commands
<1>4. to # "idle" => Knows(c, to)
  BY <1>1, <1>2 DEF Knows, SawNone, Did, SawRemoved
<1> QED BY <1>2, <1>3, <1>4, ReadsKeep

(* What publishing changes, and for whom.                                    *)
LEMMA PublishedKeeps ==
  ASSUME LaunchdAssumptions, JobInv, NEW c \in Clients, Turn(c), UNCHANGED practice,
         Knows(c, "publish"),
         op[c] = "InstallUnattended", plist["system"] = None,
         plist' = [plist EXCEPT !["system"] = want[c]], job' = job, settled' = Ld!Nothing,
         removed' = removed \ {"system"}, created' \subseteq Clients, quiet' \subseteq {c},
         Knows(c, pc[c])'
  PROVE  JobInv'
<1>1. want[c] \in Definitions /\ want[c] # None
  BY DEF JobInv, Ld!TypeOK, LaunchdAssumptions
<1>2. /\ plist' \in [Ld!Levels -> Definitions \cup {None}]
      /\ plist'["system"] = want[c] /\ plist'["user"] = plist["user"]
  BY <1>1 DEF JobInv, Ld!TypeOK, Ld!Levels
<1>3. "Install" \notin practice => UserGone
  BY DEF Knows, SawNone
<1>4. Apart'
  BY <1>2, <1>3 DEF Apart, UserGone, Ld!Loaded
<1>5. Ld!ReportsHold'
  BY <1>2 DEF JobInv, Ld!ReportsHold, Ld!SettledAgrees, Ld!RemovalIsClean, Ld!Nothing, Ld!Levels,
     Ld!Loaded, Ld!Kickable
<1>6. /\ job' \in [Ld!Domains -> Ld!Jobs \cup {None}]
      /\ settled' \in [Ld!Levels -> Wanted \cup {None}]
      /\ removed' \subseteq Ld!Levels
  BY DEF JobInv, Ld!TypeOK, Ld!Nothing
<1> QED BY <1>2, <1>4, <1>5, <1>6, ClientTurnKeeps

LEMMA PublishKeeps ==
  ASSUME LaunchdAssumptions, JobInv, NEW c \in Clients, Ld!Publish(c), UNCHANGED practice
  PROVE  JobInv'
<1>1. /\ pc[c] = "publish" /\ Ld!Moves(c, "publish", "status") /\ plist["system"] = None
      /\ plist' = [plist EXCEPT !["system"] = want[c]] /\ job' = job
      /\ created' = created \cup {c} /\ quiet' = quiet \cap {c}
      /\ settled' = Ld!Nothing /\ removed' = removed \ {"system"}
  BY DEF Ld!Publish, Ld!Moves
<1>2. op[c] = "InstallUnattended" /\ Forth(c, "status") /\ Knows(c, "publish")
  BY <1>1, Where DEF Forth, May
<1>3. Turn(c) /\ want' = want /\ pc'[c] = "status"
  BY <1>1, <1>2, MovesFlow
<1>4. plist'["system"] = want[c]
  BY <1>1 DEF JobInv, Ld!TypeOK, Ld!Levels
<1>5. Knows(c, pc[c])'
  BY <1>3, <1>4 DEF Knows, SawNone, Did, SawRemoved
<1>6. created' \subseteq Clients
  BY <1>1 DEF JobInv, Ld!TypeOK
<1> QED BY <1>1, <1>2, <1>3, <1>5, <1>6, PublishedKeeps

(* A client that ends, for whatever reason.                                  *)
LEMMA EndsFlow ==
  ASSUME LaunchdAssumptions, JobInv, NEW S \in SUBSET Clients,
         pc' = [c \in Clients |-> IF c \in S THEN "idle" ELSE pc[c]],
         op' = [c \in Clients |-> IF c \in S THEN None ELSE op[c]], UNCHANGED practice
  PROVE  JobFlow' /\ op' \in [Clients -> Ld!Commands \cup {None}]
<1>1. May("idle", None)
  BY DEF May, Ld!Commands, LaunchdAssumptions
<1> QED BY <1>1 DEF JobInv, JobFlow, Ld!TypeOK

LEMMA PublishUnsyncedKeeps ==
  ASSUME LaunchdAssumptions, JobInv, NEW c \in Clients, Ld!PublishUnsynced(c),
         UNCHANGED practice PROVE JobInv'
<1>1. /\ pc[c] = "publish" /\ plist["system"] = None
      /\ plist' = [plist EXCEPT !["system"] = want[c]] /\ job' = job
      /\ alone' = {} /\ created' = created \ {c} /\ quiet' = {}
      /\ settled' = Ld!Nothing /\ removed' = removed \ {"system"}
      /\ disturbed < MaxDisturbances /\ disturbed' = disturbed + 1 /\ want' = want
      /\ pc' = [pc EXCEPT ![c] = "idle"] /\ op' = [op EXCEPT ![c] = None]
  BY DEF Ld!PublishUnsynced
<1>2. op[c] = "InstallUnattended" /\ Knows(c, "publish")
  BY <1>1, Where DEF May
<1>3. /\ pc' = [b \in Clients |-> IF b \in {c} THEN "idle" ELSE pc[b]]
      /\ op' = [b \in Clients |-> IF b \in {c} THEN None ELSE op[b]]
  BY <1>1 DEF JobInv, JobFlow, Ld!TypeOK
<1>4. JobFlow' /\ op' \in [Clients -> Ld!Commands \cup {None}]
  BY <1>3, EndsFlow
<1>5. Turn(c) /\ pc'[c] = "idle"
  BY <1>1, <1>3, <1>4 DEF Turn, JobInv, Ld!TypeOK, LaunchdAssumptions
<1>6. Knows(c, pc[c])'
  BY <1>5 DEF Knows, SawNone, Did, SawRemoved
<1>7. created' \subseteq Clients
  BY <1>1 DEF JobInv, Ld!TypeOK
<1> QED BY <1>1, <1>2, <1>5, <1>6, <1>7, PublishedKeeps

LEMMA PublishFoundKeeps ==
  ASSUME LaunchdAssumptions, JobInv, NEW c \in Clients, Ld!PublishFound(c), UNCHANGED practice
  PROVE  JobInv'
<1> DEFINE to == IF plist["system"] = want[c] THEN "status" ELSE "idle"
<1>1. pc[c] = "publish" /\ Ld!Reads(c, "publish", to)
  BY DEF Ld!PublishFound, Ld!Reads, Ld!Call, Ld!Moves
<1>2. Forth(c, to) /\ (to # "idle" => Knows(c, to))
  BY <1>1, Where DEF Forth, May, Knows, SawNone, Did, SawRemoved
<1> QED BY <1>1, <1>2, ReadsKeep

LEMMA LookAtJobKeeps ==
  ASSUME LaunchdAssumptions, JobInv, NEW c \in Clients, Ld!Status(c), UNCHANGED practice
  PROVE  JobInv'
<1>1. PICK to \in {"bootstrap", "idle", "bootout", "kickstart"} : Ld!Reads(c, "status", to)
  BY DEF Ld!Status
<1>2. pc[c] = "status" /\ May("status", op[c]) /\ Knows(c, "status")
  BY <1>1, Where DEF Ld!Reads, Ld!Call, Ld!Moves
<1>3. Forth(c, to)
  BY <1>2 DEF Forth, May
<1>4. Knows(c, to)
  BY <1>2 DEF May, Knows, SawNone, Did, SawRemoved
<1> QED BY <1>1, <1>3, <1>4, ReadsKeep

LEMMA BootoutSystemKeeps ==
  ASSUME LaunchdAssumptions, JobInv, NEW c \in Clients, Ld!BootoutSystem(c), UNCHANGED practice
  PROVE  JobInv'
<1>1. pc[c] = "bootout" /\ Ld!BootsOut(c, "system", "bootout", "unloading")
  BY DEF Ld!BootoutSystem, Ld!BootsOut, Ld!Call, Ld!Moves
<1>2. Forth(c, "unloading") /\ Did(c, "unloading")
  BY <1>1, Where DEF Forth, May, Knows, Did
<1> QED BY <1>1, <1>2, BootsOutKeeps DEF Ld!Domains

LEMMA UnloadedKeeps ==
  ASSUME LaunchdAssumptions, JobInv, NEW c \in Clients, Ld!Unloaded(c), UNCHANGED practice
  PROVE  JobInv'
<1> DEFINE to == IF op[c] = "InstallUnattended" THEN "bootstrap" ELSE "remove"
<1>1. pc[c] = "unloading" /\ Ld!Reads(c, "unloading", to)
  BY DEF Ld!Unloaded, Ld!Reads, Ld!Call, Ld!Moves
<1>2. Forth(c, to) /\ Knows(c, to)
  BY <1>1, Where DEF Forth, May, Knows, SawNone, Did, SawRemoved
<1> QED BY <1>1, <1>2, ReadsKeep

LEMMA UnloadTimesOutKeeps ==
  ASSUME LaunchdAssumptions, JobInv, NEW c \in Clients, Ld!UnloadTimesOut(c), UNCHANGED practice
  PROVE  JobInv'
BY FailsKeeps DEF Ld!UnloadTimesOut

LEMMA BootstrapSystemKeeps ==
  ASSUME LaunchdAssumptions, JobInv, NEW c \in Clients, Ld!BootstrapSystem(c), UNCHANGED practice
  PROVE  JobInv'
<1>1. CASE Ld!Fails(c, "bootstrap")
  BY <1>1, FailsKeeps
<1>2. CASE /\ Ld!Call(c, "bootstrap", "kickstart") /\ plist["system"] # None
           /\ job' = [job EXCEPT !["system"] = Ld!Fresh(plist["system"])]
           /\ settled' = Ld!Nothing /\ UNCHANGED <<plist, removed>>
  <2>1. /\ pc[c] = "bootstrap" /\ Ld!Moves(c, "bootstrap", "kickstart")
        /\ created' = created /\ quiet' = quiet
    BY <1>2 DEF Ld!Call, Ld!Moves
  <2>2. op[c] = "InstallUnattended" /\ Forth(c, "kickstart") /\ Did(c, "bootstrap")
    BY <2>1, Where DEF Forth, May, Knows
  <2>3. plist["system"] \in Definitions
    BY <1>2 DEF JobInv, Ld!TypeOK, Ld!Levels
  <2>4. /\ job' \in [Ld!Domains -> Ld!Jobs \cup {None}] /\ job'["user"] = job["user"]
        /\ job'["gui"] = job["gui"]
    BY <1>2, <2>3, FreshType DEF JobInv, Ld!TypeOK, Ld!Domains
  <2>5. /\ want' = want /\ (c \in alone' => c \in alone) /\ op' = op
        /\ Ld!Moves(c, "bootstrap", "kickstart")
    BY <2>1 DEF Ld!Moves
  <2>6. Knows(c, "kickstart")'
    BY <1>2, <2>2, <2>5 DEF Knows, SawNone, Did, SawRemoved
  <2>7. Apart'
    BY <1>2, <2>4 DEF JobInv, Apart, UserGone, Ld!Loaded, Ld!PerUser
  <2>8. Ld!ReportsHold'
    BY <1>2, <2>4 DEF JobInv, Ld!ReportsHold, Ld!SettledAgrees, Ld!RemovalIsClean, Ld!Nothing,
       Ld!Levels, Ld!Loaded, Ld!Kickable, Ld!PerUser
  <2>9. /\ plist' \in [Ld!Levels -> Definitions \cup {None}] /\ created' \subseteq Clients
        /\ settled' \in [Ld!Levels -> Wanted \cup {None}] /\ removed' \subseteq Ld!Levels
    BY <1>2, <2>1 DEF JobInv, Ld!TypeOK, Ld!Nothing
  <2>10. \A d \in Ld!PerUser : job[d] = None => job'[d] = None
    BY <2>4 DEF Ld!PerUser
  <2> QED BY <1>2, <2>1, <2>2, <2>4, <2>6, <2>7, <2>8, <2>9, <2>10, MovesKeep
<1> QED BY <1>1, <1>2 DEF Ld!BootstrapSystem, Ld!Bootstraps

LEMMA KickstartSystemKeeps ==
  ASSUME LaunchdAssumptions, JobInv, NEW c \in Clients, Ld!KickstartSystem(c), UNCHANGED practice
  PROVE  JobInv'
<1>1. CASE Ld!KickstartFails(c, "system", "kickstart")
  BY <1>1, FailsKeeps DEF Ld!KickstartFails
<1>2. CASE Ld!Kickstarts(c, "system", "kickstart", "verify") /\ settled' = Ld!Nothing
  <2>1. /\ pc[c] = "kickstart" /\ Ld!Moves(c, "kickstart", "verify") /\ Ld!Kickable("system")
        /\ job' = [job EXCEPT !["system"].phase = "running"] /\ UNCHANGED <<plist, removed>>
        /\ created' = created /\ quiet' = quiet
    BY <1>2 DEF Ld!Kickstarts, Ld!Call, Ld!Moves
  <2>2. op[c] = "InstallUnattended" /\ Forth(c, "verify") /\ Did(c, "kickstart")
    BY <2>1, Where DEF Forth, May, Knows
  <2>3. /\ job' \in [Ld!Domains -> Ld!Jobs \cup {None}]
        /\ job'["user"] = job["user"] /\ job'["gui"] = job["gui"]
        /\ job["system"] # None /\ job'["system"].phase = "running"
    BY <2>1, KickstartJob DEF JobInv, Ld!Levels, Ld!Domains
  <2>4. want' = want /\ (c \in alone' => c \in alone) /\ op' = op
    BY <2>1 DEF Ld!Moves
  <2>5. Knows(c, "verify")'
    BY <2>1, <2>2, <2>3, <2>4 DEF Knows, SawNone, Did, SawRemoved
  <2>6. Apart'
    BY <2>1, <2>3 DEF JobInv, Apart, UserGone, Ld!Loaded, Ld!PerUser
  <2>7. Ld!ReportsHold'
    BY <1>2, <2>1, <2>3 DEF JobInv, Ld!ReportsHold, Ld!SettledAgrees, Ld!RemovalIsClean,
       Ld!Nothing, Ld!Levels, Ld!Loaded, Ld!Kickable, Ld!PerUser
  <2>8. /\ plist' \in [Ld!Levels -> Definitions \cup {None}] /\ created' \subseteq Clients
        /\ settled' \in [Ld!Levels -> Wanted \cup {None}] /\ removed' \subseteq Ld!Levels
    BY <1>2, <2>1 DEF JobInv, Ld!TypeOK, Ld!Nothing
  <2>9. \A d \in Ld!PerUser : job[d] = None => job'[d] = None
    BY <2>3 DEF Ld!PerUser
  <2> QED BY <2>1, <2>2, <2>3, <2>5, <2>6, <2>7, <2>8, <2>9, MovesKeep
<1> QED BY <1>1, <1>2 DEF Ld!KickstartSystem

(* A last look that changes neither plist nor job.                           *)
LEMMA LastLookKeeps ==
  ASSUME LaunchdAssumptions, JobInv, NEW c \in Clients, NEW from, Ld!Call(c, from, "idle"),
         UNCHANGED <<practice, plist, job>>,
         settled' \in [Ld!Levels -> Wanted \cup {None}], removed' \subseteq Ld!Levels,
         Ld!ReportsHold'
  PROVE  JobInv'
<1>1. /\ Ld!Moves(c, from, "idle") /\ created' \subseteq created /\ quiet' \subseteq quiet
  BY DEF Ld!Call
<1>2. Forth(c, "idle")
  BY DEF Forth
<1>3. Apart'
  BY DEF JobInv, Apart, UserGone, Ld!Loaded
<1>4. /\ plist' \in [Ld!Levels -> Definitions \cup {None}]
      /\ job' \in [Ld!Domains -> Ld!Jobs \cup {None}]
      /\ created' \subseteq Clients
  BY <1>1 DEF JobInv, Ld!TypeOK
<1> QED BY <1>1, <1>2, <1>3, <1>4, MovesKeep

LEMMA VerifyKeeps ==
  ASSUME LaunchdAssumptions, JobInv, NEW c \in Clients, Ld!Verify(c), UNCHANGED practice
  PROVE  JobInv'
<1>1. /\ pc[c] = "verify" /\ Ld!Call(c, "verify", "idle") /\ UNCHANGED <<plist, job, removed>>
  BY DEF Ld!Verify, Ld!Call, Ld!Moves
<1>2. CASE settled' = Ld!Nothing
  <2>1. Ld!ReportsHold' /\ settled' \in [Ld!Levels -> Wanted \cup {None}]
        /\ removed' \subseteq Ld!Levels
    BY <1>1, <1>2 DEF JobInv, Ld!TypeOK, Ld!ReportsHold, Ld!SettledAgrees, Ld!RemovalIsClean,
       Ld!Nothing, Ld!Levels, Ld!Loaded, Ld!Kickable
  <2> QED BY <1>1, <2>1, LastLookKeeps
<1>3. CASE /\ Ld!Loaded("system") /\ Ld!Healthy(c) /\ op[c] = "InstallUnattended" /\ c \in alone
           /\ settled' = [Ld!Nothing EXCEPT !["system"] = want[c]]
  <2>1. plist["system"] = want[c] /\ job["system"].phase # "exiting"
    BY <1>1, <1>3, Where DEF Knows, Did
  <2>2. /\ settled' \in [Ld!Levels -> Wanted \cup {None}]
        /\ settled'["system"] = want[c] /\ settled'["user"] = None
    BY <1>3 DEF JobInv, Ld!TypeOK, Ld!Nothing, Ld!Levels
  <2>3. Ld!SettledAgrees'
    BY <1>1, <1>3, <2>1, <2>2 DEF Ld!SettledAgrees, Ld!Healthy, Ld!Kickable, Ld!Loaded
  <2>4. Ld!RemovalIsClean' /\ removed' \subseteq Ld!Levels
    BY <1>1 DEF JobInv, Ld!TypeOK, Ld!ReportsHold, Ld!RemovalIsClean, Ld!Loaded, Ld!Kickable
  <2> QED BY <1>1, <2>2, <2>3, <2>4, LastLookKeeps DEF Ld!ReportsHold
<1> QED BY <1>2, <1>3 DEF Ld!Verify, Ld!Settles

LEMMA CleanLooksKeep ==
  ASSUME LaunchdAssumptions, JobInv, NEW c \in Clients, Ld!Absent(c) \/ Ld!Check(c),
         UNCHANGED practice
  PROVE  JobInv'
<1>1. PICK s \in {"absent", "check"} : /\ Ld!Call(c, s, "idle") /\ UNCHANGED <<plist, job>>
      /\ settled' = Ld!Nothing
                                       /\ IF Ld!Loaded("system") THEN UNCHANGED removed ELSE Ld!Clean(c)
  BY DEF Ld!Absent, Ld!Check
<1>2. pc[c] = s /\ SawRemoved(c, s)
  BY <1>1, Where DEF Ld!Call, Ld!Moves, Knows
<1>3. removed' \subseteq removed \cup {"system"} /\ removed' \subseteq Ld!Levels
  BY <1>1 DEF JobInv, Ld!TypeOK, Ld!Clean, Ld!Levels
<1>4. "system" \in removed' => plist["system"] = None /\ ~Ld!Loaded("system")
  BY <1>1, <1>2 DEF JobInv, Ld!ReportsHold, Ld!RemovalIsClean, Ld!Clean, SawRemoved
<1>5. Ld!RemovalIsClean'
  BY <1>1, <1>3, <1>4 DEF JobInv, Ld!ReportsHold, Ld!RemovalIsClean, Ld!Loaded, Ld!Kickable
<1>6. Ld!SettledAgrees' /\ settled' \in [Ld!Levels -> Wanted \cup {None}]
  BY <1>1 DEF Ld!SettledAgrees, Ld!Nothing, Ld!Levels
<1> QED BY <1>1, <1>3, <1>5, <1>6, LastLookKeeps DEF Ld!ReportsHold

LEMMA RemoveDaemonKeeps ==
  ASSUME LaunchdAssumptions, JobInv, NEW c \in Clients, Ld!RemoveDaemon(c), UNCHANGED practice
  PROVE  JobInv'
<1>1. CASE Ld!Fails(c, "remove")
  BY <1>1, FailsKeeps
<1>2. CASE /\ Ld!Call(c, "remove", "check") /\ plist' = [plist EXCEPT !["system"] = None]
           /\ settled' = Ld!Nothing /\ UNCHANGED <<job, removed>>
  <2>1. /\ pc[c] = "remove" /\ Ld!Moves(c, "remove", "check")
        /\ created' = created /\ quiet' = quiet
    BY <1>2 DEF Ld!Call, Ld!Moves
  <2>2. op[c] = "UninstallUnattended" /\ Forth(c, "check")
    BY <2>1, Where DEF Forth, May
  <2>3. /\ plist' \in [Ld!Levels -> Definitions \cup {None}]
        /\ plist'["system"] = None /\ plist'["user"] = plist["user"] /\ op' = op
    BY <1>2, <2>1 DEF JobInv, Ld!TypeOK, Ld!Levels, Ld!Moves
  <2>4. Knows(c, "check")'
    BY <2>2, <2>3 DEF Knows, Did, SawRemoved
  <2>5. Apart'
    BY <1>2, <2>3 DEF JobInv, Apart, UserGone, Ld!Loaded
  <2>6. Ld!ReportsHold'
    BY <1>2, <2>3 DEF JobInv, Ld!ReportsHold, Ld!SettledAgrees, Ld!RemovalIsClean, Ld!Nothing,
       Ld!Levels, Ld!Loaded, Ld!Kickable
  <2>7. /\ job' \in [Ld!Domains -> Ld!Jobs \cup {None}] /\ created' \subseteq Clients
        /\ settled' \in [Ld!Levels -> Wanted \cup {None}] /\ removed' \subseteq Ld!Levels
    BY <1>2, <2>1 DEF JobInv, Ld!TypeOK, Ld!Nothing
  <2> QED BY <1>2, <2>1, <2>2, <2>3, <2>4, <2>5, <2>6, <2>7, MovesKeep
<1> QED BY <1>1, <1>2 DEF Ld!RemoveDaemon

LEMMA CommandKeeps ==
  ASSUME LaunchdAssumptions, JobInv, NEW c \in Clients, Ld!Command(c), UNCHANGED practice
  PROVE  JobInv'
<1>1. CASE Ld!Agent(c)
  BY <1>1, LookForAgentKeeps, AgentBootoutsKeep, WriteAgentKeeps, BootstrapUserKeeps,
     KickstartUserKeeps,
     RemoveAgentKeeps DEF Ld!Agent
<1>2. CASE Ld!Daemon(c)
  BY <1>2, RefusePlistKeeps, RefuseLoadedKeeps, ValidateKeeps, PublishKeeps, PublishUnsyncedKeeps,
     PublishFoundKeeps, LookAtJobKeeps, BootoutSystemKeeps, UnloadedKeeps, UnloadTimesOutKeeps,
     BootstrapSystemKeeps, KickstartSystemKeeps, VerifyKeeps, CleanLooksKeep, RemoveDaemonKeeps
         DEF Ld!Daemon
<1> QED BY <1>1, <1>2 DEF Ld!Command

LEMMA BeginKeeps ==
  ASSUME LaunchdAssumptions, JobInv, NEW c \in Clients, NEW k \in Ld!Commands, NEW d \in Wanted,
         Ld!Begin(c, k, d), UNCHANGED practice
  PROVE  JobInv'
<1>1. /\ pc[c] = "idle" /\ k \in practice
      /\ pc' = [pc EXCEPT ![c] = Ld!FirstCall[k]] /\ op' = [op EXCEPT ![c] = k]
      /\ want' = [want EXCEPT ![c] = d]
      /\ created' = created \ {c} /\ alone' = {c} /\ quiet' = quiet \cup {c}
      /\ settled' = Ld!Nothing /\ UNCHANGED <<plist, job, removed, disturbed>>
  BY DEF Ld!Begin
<1>2. \/ k = "Install" /\ Ld!FirstCall[k] = "inspect"
      \/ k = "Uninstall" /\ Ld!FirstCall[k] = "bootoutUser"
      \/ k \in {"InstallUnattended", "StatusUnattended"} /\ Ld!FirstCall[k] = "refusePlist"
      \/ k = "UninstallUnattended" /\ Ld!FirstCall[k] = "validate"
  BY DEF Ld!Commands, Ld!FirstCall
<1>3. Ld!FirstCall[k] \in Steps /\ May(Ld!FirstCall[k], k)
  BY <1>2 DEF May, LaunchdAssumptions
<1>4. /\ pc'[c] = Ld!FirstCall[k] /\ op'[c] = k
      /\ \A b \in Clients : b # c => pc'[b] = pc[b] /\ op'[b] = op[b]
  BY <1>1 DEF JobInv, JobFlow, Ld!TypeOK
<1>5. JobFlow'
  <2>1. pc' \in [Clients -> Steps]
    BY <1>1, <1>3 DEF JobInv, JobFlow
  <2>2. ASSUME NEW b \in Clients PROVE op'[b] \in practice \cup {None} /\ May(pc'[b], op'[b])
    BY <1>1, <1>3, <1>4 DEF JobInv, JobFlow
  <2> QED BY <2>1, <2>2 DEF JobFlow
<1>6. Turn(c)
  BY <1>1, <1>4, <1>5 DEF Turn, JobInv, Ld!TypeOK
<1>7. Knows(c, pc[c])'
  BY <1>2, <1>4 DEF Knows, SawNone, Did, SawRemoved
<1>8. Apart' /\ Ld!ReportsHold'
  BY <1>1 DEF JobInv, Apart, UserGone, Ld!ReportsHold, Ld!SettledAgrees, Ld!RemovalIsClean,
     Ld!Nothing, Ld!Loaded, Ld!Kickable, Ld!Levels
<1>9. /\ plist' \in [Ld!Levels -> Definitions \cup {None}]
      /\ job' \in [Ld!Domains -> Ld!Jobs \cup {None}]
      /\ created' \subseteq Clients
      /\ settled' \in [Ld!Levels -> Wanted \cup {None}] /\ removed' \subseteq Ld!Levels
  BY <1>1 DEF JobInv, Ld!TypeOK, Ld!Nothing
<1> QED BY <1>1, <1>6, <1>7, <1>8, <1>9, ClientTurnKeeps

-----------------------------------------------------------------------------
(* launchd and the rest of the world.                                        *)

(* What a step of the world keeps that begins no command: clients stay or    *)
(* end, what a client knows stays true, and nothing is published.            *)
LEMMA WorldKeeps ==
  ASSUME LaunchdAssumptions, JobInv, UNCHANGED <<practice, want, removed>>, JobFlow',
         op' \in [Clients -> Ld!Commands \cup {None}],
         \A c \in Clients : pc'[c] = "idle" \/ (pc'[c] = pc[c] /\ op'[c] = op[c]),
         plist' \in [Ld!Levels -> Definitions \cup {None}],
         job' \in [Ld!Domains -> Ld!Jobs \cup {None}],
         \A l \in Ld!Levels : plist[l] = None => plist'[l] = None,
         alone' \subseteq alone, quiet' \subseteq quiet, created' \subseteq created,
         settled' \in [Ld!Levels -> Wanted \cup {None}], disturbed' \in 0..MaxDisturbances,
         plist["user"] = None => \A d \in Ld!PerUser : job[d] = None => job'[d] = None,
         \A c \in Clients : c \in alone' => Did(c, pc[c])' \/ pc'[c] = "idle",
         Apart', Ld!ReportsHold'
  PROVE  JobInv'
<1>1. Ld!TypeOK'
  <2>1. ASSUME NEW c \in Clients
        PROVE  /\ pc'[c] = "idle" <=> op'[c] = None
               /\ pc'[c] \in {"publish", "status", "bootstrap", "kickstart"} => op'[c] = "InstallUnattended"
               /\ pc'[c] \in {"absent", "remove", "check"} => op'[c] = "UninstallUnattended"
    BY DEF JobFlow, May
  <2> QED BY <2>1 DEF JobInv, Ld!TypeOK
<1>2. ASSUME NEW c \in Clients PROVE Knows(c, pc[c])'
  <2>1. CASE pc'[c] = "idle"
    BY <2>1 DEF Knows, SawNone, Did, SawRemoved
  <2>2. CASE pc'[c] # "idle"
    <3>1. pc'[c] = pc[c] /\ op'[c] = op[c] /\ Knows(c, pc[c])
      BY <2>2 DEF JobInv
    <3>2. plist["user"] = None => plist'["user"] = None
      BY DEF Ld!Levels
    <3>3. UserGone => UserGone'
      BY <3>2 DEF UserGone, Ld!Loaded
    <3>4. SawNone(pc[c]) => SawNone(pc[c])'
      BY <3>1, <3>2, <3>3 DEF SawNone, Ld!Loaded, Ld!PerUser
    <3>5. Did(c, pc[c])'
      BY <2>2 DEF Did
    <3>6. SawRemoved(c, pc[c]) => SawRemoved(c, pc[c])'
      BY <3>1 DEF SawRemoved, Ld!Levels
    <3> QED BY <3>1, <3>4, <3>5, <3>6 DEF Knows
  <2> QED BY <2>1, <2>2
<1> QED BY <1>1, <1>2 DEF JobInv

(* A job that ends, dies or is started again says what it said.              *)
LEMMA JobStep ==
  ASSUME LaunchdAssumptions, Ld!TypeOK, NEW d \in Ld!Domains,
         Ld!JobExits(d) \/ Ld!JobDies(d) \/ Ld!JobRestarts(d)
  PROVE  /\ job' \in [Ld!Domains -> Ld!Jobs \cup {None}] /\ disturbed' \in 0..MaxDisturbances
         /\ \A x \in Ld!Domains :
              /\ Ld!Loaded(x)' => Ld!Loaded(x) /\ job'[x].def = job[x].def
              /\ Ld!Kickable(x)' <=> Ld!Kickable(x)
              /\ Ld!Loaded(x)' /\ job[x].phase # "exiting" => job'[x].phase # "exiting"
         /\ UNCHANGED <<plist, Ld!clients, Ld!history>>
<1>1. job[d] \in Ld!Jobs /\ None \notin Ld!Jobs
  BY DEF Ld!TypeOK, Ld!JobExits, Ld!JobDies, Ld!JobRestarts, Ld!Loaded, LaunchdAssumptions
<1>2. CASE Ld!JobExits(d)
  <2>1. /\ job[d].phase = "exiting" /\ job' = [job EXCEPT ![d] = None]
        /\ UNCHANGED <<plist, Ld!clients, Ld!history, disturbed>>
    BY <1>2 DEF Ld!JobExits
  <2> QED BY <1>1, <2>1 DEF Ld!TypeOK, Ld!Loaded, Ld!Kickable
<1>3. CASE Ld!JobDies(d) \/ Ld!JobRestarts(d)
  <2>1. PICK p \in {"waiting", "running"} :
          job[d].phase \in {"waiting", "running"} /\ job' = [job EXCEPT ![d].phase = p]
    BY <1>3 DEF Ld!JobDies, Ld!JobRestarts
  <2>2. [job[d] EXCEPT !.phase = p] \in Ld!Jobs
    BY <1>1 DEF Ld!Jobs
  <2>3. job' = [job EXCEPT ![d] = [job[d] EXCEPT !.phase = p]]
    BY <2>1 DEF Ld!TypeOK
  <2>4. job'[d].def = job[d].def /\ job'[d].phase = p /\ job'[d] # None
    BY <1>1, <2>2, <2>3 DEF Ld!TypeOK, Ld!Jobs
  <2>5. UNCHANGED <<plist, Ld!clients, Ld!history>> /\ disturbed' \in 0..MaxDisturbances
    BY <1>3 DEF Ld!JobDies, Ld!JobRestarts, Ld!TypeOK, LaunchdAssumptions
  <2> QED BY <1>1, <2>1, <2>2, <2>3, <2>4, <2>5 DEF Ld!TypeOK, Ld!Loaded, Ld!Kickable
<1> QED BY <1>2, <1>3

LEMMA JobKeeps ==
  ASSUME LaunchdAssumptions, JobInv, NEW d \in Ld!Domains,
         Ld!JobExits(d) \/ Ld!JobDies(d) \/ Ld!JobRestarts(d), UNCHANGED practice PROVE JobInv'
<1>1. /\ job' \in [Ld!Domains -> Ld!Jobs \cup {None}] /\ disturbed' \in 0..MaxDisturbances
      /\ \A x \in Ld!Domains :
           /\ Ld!Loaded(x)' => Ld!Loaded(x) /\ job'[x].def = job[x].def
           /\ Ld!Kickable(x)' <=> Ld!Kickable(x)
           /\ Ld!Loaded(x)' /\ job[x].phase # "exiting" => job'[x].phase # "exiting"
  BY JobStep DEF JobInv
<1>2. /\ plist' = plist /\ pc' = pc /\ op' = op /\ want' = want /\ created' = created
      /\ alone' = alone /\ quiet' = quiet /\ settled' = settled /\ removed' = removed
  BY JobStep DEF JobInv, Ld!clients, Ld!history
<1>3. JobFlow' /\ Apart'
  BY <1>1, <1>2 DEF JobInv, JobFlow, Apart, UserGone, Ld!PerUser, Ld!Domains
<1>4. Ld!ReportsHold'
  <2>1. Ld!SettledAgrees'
    BY <1>1, <1>2 DEF JobInv, Ld!ReportsHold, Ld!SettledAgrees, Ld!Domains, Ld!Kickable
  <2>2. Ld!RemovalIsClean'
    BY <1>1, <1>2 DEF JobInv, Ld!ReportsHold, Ld!RemovalIsClean, Ld!Domains, Ld!PerUser
  <2> QED BY <2>1, <2>2 DEF Ld!ReportsHold
<1>5. ASSUME NEW c \in Clients PROVE Did(c, pc[c])'
  <2>1. Did(c, pc[c])
    BY DEF JobInv, Knows
  <2> QED BY <1>1, <1>2, <2>1 DEF Did, Ld!Domains, Ld!Kickable
<1>6. \A x \in Ld!Domains : job[x] = None => job'[x] = None
  BY <1>1 DEF Ld!Loaded
<1>7. \A x \in Ld!PerUser : job[x] = None => job'[x] = None
  BY <1>6 DEF Ld!PerUser, Ld!Domains
<1> QED BY <1>1, <1>2, <1>3, <1>4, <1>5, <1>7, WorldKeeps DEF JobInv, Ld!TypeOK

LEMMA CommandDiesKeeps ==
  ASSUME LaunchdAssumptions, JobInv, NEW c \in Clients, Ld!CommandDies(c), UNCHANGED practice
  PROVE  JobInv'
<1>1. /\ pc' = [b \in Clients |-> IF b \in {c} THEN "idle" ELSE pc[b]]
      /\ op' = [b \in Clients |-> IF b \in {c} THEN None ELSE op[b]]
      /\ created' = created \ {c} /\ alone' = alone \ {c} /\ quiet' = quiet \ {c} /\ want' = want
      /\ disturbed < MaxDisturbances /\ disturbed' = disturbed + 1
      /\ plist' = plist /\ job' = job /\ settled' = settled /\ removed' = removed
  BY DEF Ld!CommandDies, Ld!Gone, Ld!history
<1>2. JobFlow' /\ op' \in [Clients -> Ld!Commands \cup {None}]
  BY <1>1, EndsFlow
<1>3. Apart' /\ Ld!ReportsHold'
  BY <1>1 DEF JobInv, Apart, UserGone, Ld!ReportsHold, Ld!SettledAgrees, Ld!RemovalIsClean,
     Ld!Loaded, Ld!Kickable
<1>4. ASSUME NEW b \in Clients
      PROVE  pc'[b] = "idle" \/ (pc'[b] = pc[b] /\ op'[b] = op[b] /\ Did(b, pc[b])')
  <2>1. pc'[b] = "idle" \/ (pc'[b] = pc[b] /\ op'[b] = op[b])
    BY <1>1
  <2>2. Did(b, pc[b])
    BY DEF JobInv, Knows
  <2> QED BY <1>1, <2>1, <2>2 DEF Did, Ld!Loaded, Ld!Kickable
<1>5. disturbed' \in 0..MaxDisturbances
  BY <1>1 DEF JobInv, Ld!TypeOK, LaunchdAssumptions
<1> QED BY <1>1, <1>2, <1>3, <1>4, <1>5, WorldKeeps DEF JobInv, Ld!TypeOK

(* Only what is on disk says what runs after a reboot.                       *)
LEMMA RebootKeeps ==
  ASSUME LaunchdAssumptions, JobInv, Ld!Reboot, UNCHANGED practice
  PROVE  JobInv'
<1>1. /\ pc' = [b \in Clients |-> IF b \in Clients THEN "idle" ELSE pc[b]]
      /\ op' = [b \in Clients |-> IF b \in Clients THEN None ELSE op[b]]
      /\ created' = created \ Clients /\ alone' = alone \ Clients /\ quiet' = quiet \ Clients
      /\ want' = want /\ disturbed < MaxDisturbances /\ disturbed' = disturbed + 1
      /\ job' = [d \in Ld!Domains |-> IF d = "system" /\ plist["system"] # None
                                   THEN Ld!Fresh(plist["system"]) ELSE None]
      /\ plist' = plist /\ settled' = settled /\ removed' = removed
  BY DEF Ld!Reboot, Ld!Gone, Ld!history
<1>2. JobFlow' /\ op' \in [Clients -> Ld!Commands \cup {None}]
  BY <1>1, EndsFlow
<1>3. /\ job'["user"] = None /\ job'["gui"] = None
      /\ plist["system"] = None => job'["system"] = None
      /\ plist["system"] # None => job'["system"] = Ld!Fresh(plist["system"])
  BY <1>1 DEF Ld!Domains
<1>4. plist["system"] # None => plist["system"] \in Definitions
  BY DEF JobInv, Ld!TypeOK, Ld!Levels
<1>5. /\ job' \in [Ld!Domains -> Ld!Jobs \cup {None}]
      /\ plist["system"] # None => /\ Ld!Kickable("system")'
                                   /\ job'["system"].def = plist["system"]
  BY <1>1, <1>3, <1>4, FreshType DEF Ld!Kickable, Ld!Loaded
<1>6. Apart'
  BY <1>1, <1>3 DEF JobInv, Apart, UserGone, Ld!Loaded, Ld!PerUser
<1>7. Ld!SettledAgrees'
  BY <1>1, <1>3, <1>5 DEF JobInv, Ld!ReportsHold, Ld!SettledAgrees, Ld!Loaded, Ld!Kickable
<1>8. Ld!RemovalIsClean'
  BY <1>1, <1>3 DEF JobInv, Ld!ReportsHold, Ld!RemovalIsClean, Ld!Loaded, Ld!Kickable, Ld!PerUser
<1>9. disturbed' \in 0..MaxDisturbances /\ \A b \in Clients : pc'[b] = "idle"
  BY <1>1 DEF JobInv, Ld!TypeOK, LaunchdAssumptions
<1>10. \A d \in Ld!PerUser : job'[d] = None
  BY <1>3 DEF Ld!PerUser
<1> QED BY <1>1, <1>2, <1>5, <1>6, <1>7, <1>8, <1>9, <1>10, WorldKeeps DEF JobInv, Ld!TypeOK,
   Ld!ReportsHold

(* A login loads the agent the disk holds; it ends the solitude of all.      *)
LEMMA LoginKeeps ==
  ASSUME LaunchdAssumptions, JobInv, Ld!Login, UNCHANGED practice
  PROVE  JobInv'
<1>1. /\ plist["user"] # None /\ ~Ld!Loaded("user")
      /\ job' = [job EXCEPT !["user"] = Ld!Fresh(plist["user"])]
      /\ alone' = {} /\ plist' = plist /\ pc' = pc /\ op' = op /\ want' = want
      /\ created' = created /\ quiet' = quiet /\ settled' = settled /\ removed' = removed
      /\ disturbed' = disturbed
  BY DEF Ld!Login, Ld!history
<1>2. plist["user"] \in Definitions
  BY <1>1 DEF JobInv, Ld!TypeOK, Ld!Levels
<1>3. /\ job' \in [Ld!Domains -> Ld!Jobs \cup {None}]
      /\ job'["system"] = job["system"] /\ job'["user"].def = plist["user"]
  BY <1>1, <1>2, FreshType DEF JobInv, Ld!TypeOK, Ld!Domains
<1>4. Apart'
  BY <1>1, <1>3 DEF JobInv, Apart, UserGone, Ld!Loaded
<1>5. Ld!ReportsHold'
  BY <1>1, <1>3 DEF JobInv, Ld!ReportsHold, Ld!SettledAgrees, Ld!RemovalIsClean, Ld!Loaded,
     Ld!Kickable
<1>6. JobFlow'
  BY <1>1 DEF JobInv, JobFlow
<1> QED BY <1>1, <1>3, <1>4, <1>5, <1>6, WorldKeeps DEF JobInv, Ld!TypeOK

LEMMA RemoveByHandKeeps ==
  ASSUME LaunchdAssumptions, JobInv, NEW l \in Ld!Levels, Ld!RemoveByHand(l), UNCHANGED practice
  PROVE  JobInv'
<1>1. /\ plist' = [plist EXCEPT ![l] = None] /\ alone' = {} /\ settled' = Ld!Nothing
      /\ job' = job /\ pc' = pc /\ op' = op /\ want' = want
      /\ created' = created /\ quiet' = quiet /\ removed' = removed /\ disturbed' = disturbed
  BY DEF Ld!RemoveByHand
<1>2. /\ plist' \in [Ld!Levels -> Definitions \cup {None}]
      /\ \A x \in Ld!Levels : plist'[x] \in {plist[x], None}
  BY <1>1 DEF JobInv, Ld!TypeOK
<1>3. Apart' /\ JobFlow'
  BY <1>1, <1>2 DEF JobInv, Apart, UserGone, Ld!Loaded, JobFlow, Ld!Levels
<1>4. Ld!ReportsHold' /\ settled' \in [Ld!Levels -> Wanted \cup {None}]
  BY <1>1, <1>2 DEF JobInv, Ld!ReportsHold, Ld!SettledAgrees, Ld!RemovalIsClean, Ld!Nothing,
     Ld!Levels, Ld!Loaded, Ld!Kickable
<1>5. \A x \in Ld!Levels : plist[x] = None => plist'[x] = None
  BY <1>2
<1> QED BY <1>1, <1>2, <1>3, <1>4, <1>5, WorldKeeps DEF JobInv, Ld!TypeOK

-----------------------------------------------------------------------------
LEMMA JobInit == LaunchdAssumptions /\ Ld!Init => JobInv
<1> SUFFICES ASSUME LaunchdAssumptions, Ld!Init PROVE JobInv
  OBVIOUS
<1>1. PICK d \in Definitions \cup {None}, at \in Ld!Domains :
        /\ plist = [Ld!Nothing EXCEPT ![IF at = "system" THEN "system" ELSE "user"] = d]
        /\ job = [x \in Ld!Domains |-> IF x = at /\ d # None THEN Ld!Fresh(d) ELSE None]
  BY DEF Ld!Init
<1>2. /\ practice \in Practices
      /\ pc = [c \in Clients |-> "idle"] /\ op = [c \in Clients |-> None]
      /\ want \in [Clients -> Wanted]
      /\ created = {} /\ alone = {} /\ quiet = {}
      /\ settled = Ld!Nothing /\ removed = {} /\ disturbed = 0
  BY DEF Ld!Init
<1>3. d # None => d \in Definitions
  OBVIOUS
<1>4. job \in [Ld!Domains -> Ld!Jobs \cup {None}]
  BY <1>1, <1>3, FreshType
<1>5. plist \in [Ld!Levels -> Definitions \cup {None}]
  BY <1>1 DEF Ld!Nothing, Ld!Levels
<1>6. May("idle", None)
  BY DEF May, Ld!Commands, LaunchdAssumptions
<1>7. JobFlow
  BY <1>2, <1>6 DEF JobFlow
<1>8. Ld!TypeOK
  BY <1>2, <1>4, <1>5 DEF Ld!TypeOK, Ld!Nothing, LaunchdAssumptions
<1>9. \A c \in Clients : Knows(c, pc[c])
  BY <1>2 DEF Knows, SawNone, Did, SawRemoved
<1>10. Apart
  BY <1>1 DEF Apart, UserGone, Ld!Loaded, Ld!Nothing, Ld!Levels, Ld!Domains, Ld!PerUser
<1>11. Ld!ReportsHold
  BY <1>2 DEF Ld!ReportsHold, Ld!SettledAgrees, Ld!RemovalIsClean, Ld!Nothing, Ld!Levels
<1> QED BY <1>7, <1>8, <1>9, <1>10, <1>11 DEF JobInv

LEMMA JobNext == LaunchdAssumptions /\ JobInv /\ [Ld!Next]_(Ld!vars) => JobInv'
<1> SUFFICES ASSUME LaunchdAssumptions, JobInv, [Ld!Next]_(Ld!vars) PROVE JobInv'
  OBVIOUS
<1>1. CASE UNCHANGED Ld!vars
  BY <1>1 DEF Ld!vars, Ld!clients, Ld!history, JobInv, Ld!TypeOK, JobFlow, May, Knows, SawNone,
     Did, SawRemoved, Apart,
     UserGone, Ld!ReportsHold, Ld!SettledAgrees, Ld!RemovalIsClean, Ld!Loaded, Ld!Kickable
<1>2. CASE Ld!Next
  BY <1>2, BeginKeeps, CommandKeeps, JobKeeps, CommandDiesKeeps, RebootKeeps, LoginKeeps,
     RemoveByHandKeeps
     DEF Ld!Next, Ld!Environment
<1> QED BY <1>1, <1>2

LEMMA JobInvariance == LaunchdAssumptions /\ Ld!Spec => []JobInv
<1>1. LaunchdAssumptions => LaunchdAssumptions'
  OBVIOUS
<1> QED BY <1>1, JobInit, JobNext, PTL DEF Ld!Spec

(* Every behaviour has its types, and every command is at a step of its own  *)
(* flow (agent.go, launch_daemon.go).                                        *)
THEOREM LaunchdTypeCorrect == LaunchdAssumptions /\ Ld!Spec => []Ld!TypeOK
<1>1. JobInv => Ld!TypeOK
  BY DEF JobInv
<1>2. LaunchdAssumptions => LaunchdAssumptions'
  OBVIOUS
<1> QED BY <1>1, <1>2, JobInvariance, PTL

(* Whatever dies, reboots or logs in while commands of any number of         *)
(* operators interleave: unless someone installs the per-user supervisor,    *)
(* it and the unattended one are never loaded together.                      *)
THEOREM KindsNeverTogether == LaunchdAssumptions /\ Ld!Spec => []Ld!NeverBothKinds
<1>1. JobInv => Ld!NeverBothKinds
  BY DEF JobInv, Apart, UserGone, Ld!NeverBothKinds
<1>2. LaunchdAssumptions => LaunchdAssumptions'
  OBVIOUS
<1> QED BY <1>1, <1>2, JobInvariance, PTL

(* What an install or a removal that ended well reports is so, and stays so  *)
(* over failures of the job, logins and reboots.                             *)
THEOREM LaunchdReportsHold == LaunchdAssumptions /\ Ld!Spec => []Ld!ReportsHold
<1>1. JobInv => Ld!ReportsHold
  BY DEF JobInv
<1>2. LaunchdAssumptions => LaunchdAssumptions'
  OBVIOUS
<1> QED BY <1>1, <1>2, JobInvariance, PTL
=============================================================================
