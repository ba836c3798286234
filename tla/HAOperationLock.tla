-------------------------- MODULE HAOperationLock ---------------------------
(***************************************************************************)
(* The lock that serialises the operations on one HA cluster: an exclusive *)
(* flock on a file in the cluster's directory.  Operators' commands and    *)
(* the passes of the supervisor open the file, check that the path still   *)
(* names what they opened, and poll until they own it or their deadline    *)
(* passes.  The kernel frees the lock of a process that dies.              *)
(*                                                                         *)
(* Time is counted in polls.  Between two ticks every process that waits   *)
(* polls once, in any order; what is not a wait takes no time.  A          *)
(* lifecycle command stops waiting after Patience and then holds the lock  *)
(* for as long as it likes; a member command and a pass have one deadline  *)
(* for the wait and the work together.  What the holder does to the        *)
(* cluster is not modelled here.                                           *)
(***************************************************************************)
EXTENDS Integers, FiniteSets

CONSTANTS Operators,        (* operators' processes                          *)
          Inodes,           (* inodes the filesystem may give a new file     *)
          Interval,         (* ticks between two passes of the supervisor    *)
          Patience,         (* haRuntimeOperationTimeout                     *)
          MemberTimeout,    (* the deadline of a member command              *)
          MaxCommands, MaxOverruns, MaxDeaths                     (* bounds  *)

supervisor == "supervisor"
None       == "none"
Processes  == Operators \cup {supervisor}

ASSUME OperatorsAssumption == supervisor \notin Operators /\ None \notin Operators
ASSUME InodesAssumption    == 0 \notin Inodes
ASSUME TimesAssumption     == /\ {Interval, Patience, MemberTimeout} \subseteq Nat
                              /\ Interval > 0 /\ Patience > 1
(* The pause between two passes: Supervise (lifecycle.go:48) refuses an       *)
(* interval of less than five seconds, which are 200 polls.                  *)
ASSUME PauseAssumption     == Interval > Patience \/ Interval \div 5 > 1
ASSUME BoundsAssumption    == {MaxCommands, MaxOverruns, MaxDeaths} \subseteq Nat

VARIABLES
  path,       (* the inode the lock's path names, 0 when there is none       *)
  owner,      (* the process that owns the flock of each inode               *)
  opened,     (* the inode each process has open, 0 for none                 *)
  pc, kind,   (* what each process does, and for which sort of operation     *)
  left,       (* ticks until the deadline of its context                     *)
  polled,     (* the waiting processes that tried since the last tick        *)
  ticker,     (* ticks until the supervisor's ticker fires, 0: no ticker     *)
  due,        (* the one tick that the ticker buffers                        *)
  met,        (* history: those who found another operator with the lock     *)
  commands, overruns, deaths

lock  == <<path, owner, opened, pc>>
clock == <<ticker, due>>
count == <<commands, overruns, deaths>>
vars  == <<lock, kind, left, polled, clock, met, count>>

(* Mutant: a pass of a long interval may take longer than operators wait. *)
PassBudget_Uncapped == Interval - Interval \div 5

(* A pass ends before the next is due, and before the patience of a command  *)
(* that came just after it.                                                  *)
PassBudget ==
  LET timeout == Interval - Interval \div 5
  IN  IF timeout > Patience - 1 THEN Patience - 1 ELSE timeout

Kinds == {"pass", "lifecycle", "member"}

(* A flock belongs to a process that has its file open. *)
TypeOK ==
  /\ path \in Inodes \cup {0}
  /\ owner \in [Inodes -> Processes \cup {None}]
  /\ opened \in [Processes -> Inodes \cup {0}]
  /\ pc \in [Processes -> {"idle", "opening", "checking", "waiting", "holding", "recovering"}]
  /\ kind \in [Processes -> Kinds]
  /\ left \in [Processes -> Nat]
  /\ polled \subseteq Processes /\ met \subseteq Processes
  /\ ticker \in 0..Interval /\ due \in BOOLEAN
  /\ commands \in 0..MaxCommands /\ overruns \in 0..MaxOverruns /\ deaths \in 0..MaxDeaths
  /\ \A i \in Inodes : owner[i] # None => opened[owner[i]] = i

Init ==
  /\ path = 0
  /\ owner = [i \in Inodes |-> None]
  /\ opened = [p \in Processes |-> 0]
  /\ pc = [p \in Processes |-> "idle"]
  /\ kind = [p \in Processes |-> IF p = supervisor THEN "pass" ELSE "lifecycle"]
  /\ left = [p \in Processes |-> 0]
  /\ polled = {} /\ met = {}
  /\ ticker = 0 /\ due = FALSE
  /\ commands = 0 /\ overruns = 0 /\ deaths = 0

Holds(p) == pc[p] \in {"holding", "recovering"}

-----------------------------------------------------------------------------
(* Getting the lock. *)

(* An operator gives a command. *)
BeginCommand(o) ==
  /\ pc[o] = "idle" /\ commands < MaxCommands
  /\ \E k \in {"lifecycle", "member"} :
       /\ kind' = [kind EXCEPT ![o] = k]
       /\ left' = [left EXCEPT ![o] = IF k = "member" THEN MemberTimeout ELSE Patience]
  /\ pc' = [pc EXCEPT ![o] = "opening"]
  /\ met' = met \ {o}
  /\ commands' = commands + 1
  /\ UNCHANGED <<path, owner, opened, polled, clock, overruns, deaths>>

(* Mutant: the supervisor reconciles only when it starts. *)
BeginPass_Once ==
  /\ pc[supervisor] = "idle" /\ ticker = 0
  /\ pc' = [pc EXCEPT ![supervisor] = "opening"]
  /\ left' = [left EXCEPT ![supervisor] = PassBudget]
  /\ due' = FALSE
  /\ UNCHANGED <<path, owner, opened, kind, polled, ticker, met, count>>

(* The supervisor reconciles when it starts, and then once per tick.         *)
BeginPass ==
  /\ pc[supervisor] = "idle" /\ (ticker = 0 \/ due)
  /\ pc' = [pc EXCEPT ![supervisor] = "opening"]
  /\ left' = [left EXCEPT ![supervisor] = PassBudget]
  /\ due' = FALSE
  /\ UNCHANGED <<path, owner, opened, kind, polled, ticker, met, count>>

(* Open the file, making it if there is none. *)
Open(p) ==
  /\ pc[p] = "opening"
  /\ IF path # 0
     THEN path' = path
     ELSE path' \in {i \in Inodes : \A q \in Processes : opened[q] # i}
  /\ opened' = [opened EXCEPT ![p] = path']
  /\ pc' = [pc EXCEPT ![p] = "checking"]
  /\ UNCHANGED <<owner, kind, left, polled, clock, met, count>>

(* A pass is over, with or without the lock: the first one starts the        *)
(* ticker.                                                                   *)
Ends(p) ==
  /\ pc' = [pc EXCEPT ![p] = "idle"]
  /\ opened' = [opened EXCEPT ![p] = 0]
  /\ polled' = polled \ {p}
  /\ ticker' = IF p = supervisor /\ ticker = 0 THEN Interval ELSE ticker

Check(p) ==
  /\ pc[p] = "checking"
  /\ IF opened[p] = path
     THEN pc' = [pc EXCEPT ![p] = "waiting"] /\ UNCHANGED <<opened, polled, ticker>>
     ELSE Ends(p)
  /\ UNCHANGED <<path, owner, kind, left, due, met, count>>

(* Try the flock without blocking, at once and then at every poll.           *)
Poll(p) ==
  /\ pc[p] = "waiting" /\ p \notin polled
  /\ LET holder == owner[opened[p]]
     IN  IF holder = None
         THEN /\ owner' = [owner EXCEPT ![opened[p]] = p]
              /\ pc' = [pc EXCEPT ![p] = "holding"]
              /\ UNCHANGED <<polled, met>>
         ELSE /\ polled' = polled \cup {p}
              /\ met' = IF holder = supervisor THEN met ELSE met \cup {p}
              /\ UNCHANGED <<owner, pc>>
  /\ UNCHANGED <<path, opened, kind, left, clock, count>>

(* Mutant: the wait for the lock does not look at its context. *)
TimeOut_Never(p) == FALSE /\ UNCHANGED vars

TimeOut(p) ==
  /\ pc[p] = "waiting" /\ p \in polled /\ left[p] = 0
  /\ Ends(p)
  /\ UNCHANGED <<path, owner, kind, left, due, met, count>>

-----------------------------------------------------------------------------
(* Giving it back. *)

Freed(p) == [i \in Inodes |-> IF owner[i] = p THEN None ELSE owner[i]]

(* Mutant: a command that deleted the cluster deletes the lock with it. *)
Release_Removes(p) ==
  /\ Holds(p)
  /\ owner' = Freed(p)
  /\ path' \in {path} \cup (IF p = supervisor THEN {} ELSE {0})
  /\ Ends(p)
  /\ UNCHANGED <<kind, left, due, met, count>>

(* An operation is done, whatever came of it.  One that deleted the cluster  *)
(* leaves the file, and with it the directory.                               *)
Release(p) ==
  /\ Holds(p)
  /\ owner' = Freed(p)
  /\ Ends(p)
  /\ UNCHANGED <<path, kind, left, due, met, count>>

(* A pass whose deadline passed while it moved a member to a new kind of     *)
(* envelope starts the member again, in a context of its own.                *)
Overrun ==
  /\ pc[supervisor] = "holding" /\ overruns < MaxOverruns
  /\ left[supervisor] = 0
  /\ pc' = [pc EXCEPT ![supervisor] = "recovering"]
  /\ left' = [left EXCEPT ![supervisor] = Patience]
  /\ overruns' = overruns + 1
  /\ UNCHANGED <<path, owner, opened, kind, polled, clock, met, commands, deaths>>

(* A process dies; launchd starts the supervisor again, with a new ticker.   *)
Die(p) ==
  /\ pc[p] # "idle" /\ deaths < MaxDeaths
  /\ owner' = Freed(p)
  /\ pc' = [pc EXCEPT ![p] = "idle"]
  /\ opened' = [opened EXCEPT ![p] = 0]
  /\ polled' = polled \ {p}
  /\ IF p = supervisor THEN ticker' = 0 /\ due' = FALSE ELSE UNCHANGED clock
  /\ deaths' = deaths + 1
  /\ UNCHANGED <<path, kind, left, met, commands, overruns>>

-----------------------------------------------------------------------------
(* The deadline of what a process does: a lifecycle command has none once it *)
(* owns the lock.                                                            *)
Deadline(p) == pc[p] # "idle" /\ ~(Holds(p) /\ kind[p] = "lifecycle")

(* A poll passes.  Nothing that takes no time is left undone.                *)
Tick ==
  /\ \A p \in Processes :
       /\ pc[p] \notin {"opening", "checking"}
       /\ pc[p] = "waiting" => p \in polled
       /\ Deadline(p) => left[p] > 0
  /\ ~(pc[supervisor] = "idle" /\ (ticker = 0 \/ due))
  /\ left' = [p \in Processes |-> IF left[p] > 0 THEN left[p] - 1 ELSE 0]
  /\ polled' = {}
  /\ ticker' = IF ticker = 1 THEN Interval ELSE IF ticker = 0 THEN 0 ELSE ticker - 1
  /\ due' = (due \/ ticker = 1)
  /\ UNCHANGED <<lock, kind, met, count>>

Step(p) == Open(p) \/ Check(p) \/ Poll(p) \/ TimeOut(p)

Next ==
  \/ \E o \in Operators : BeginCommand(o)
  \/ BeginPass
  \/ \E p \in Processes : Step(p) \/ Release(p) \/ Die(p)
  \/ Overrun
  \/ Tick

Spec == Init /\ [][Next]_vars

(* Time passes, processes run, and what has a deadline heeds it.  Nothing    *)
(* makes a lifecycle command that owns the lock end.                         *)
Fairness ==
  /\ WF_vars(Tick)
  /\ WF_vars(BeginPass)
  /\ \A p \in Processes : WF_vars(Step(p))
  /\ \A p \in Processes : WF_vars(Deadline(p) /\ left[p] = 0 /\ Release(p))

FairSpec == Spec /\ Fairness

-----------------------------------------------------------------------------
(* Properties. *)

Mutex == INSTANCE OperationMutex WITH holders <- {p \in Processes : Holds(p)}

(* The lock keeps what OperationMutex promises: with every open, check and   *)
(* poll a step of its own, with processes that die and clusters that are     *)
(* deleted and made again between them, operations exclude each other        *)
(* (haOperationLock's comment: "a waiter can never lock a replacement inode  *)
(* while an older operation owns it").                                       *)
Exclusive == Mutex!Spec

(* A command that stops waiting for the lock met another command: passes of  *)
(* the supervisor alone never use up its patience, as long as none of them   *)
(* overruns its deadline and the supervisor is not restarted                 *)
(* (haSupervisorReconcileTimeout against acquireHALifecycleOperationLock).   *)
OperatorAdmitted ==
  [][\A o \in Operators :
       TimeOut(o) /\ kind[o] = "lifecycle" => o \in met \/ overruns + deaths > 0]_vars

(* Whoever waits for the lock stops waiting, even when the holder never      *)
(* gives it back (acquireHAOperationLock's select).                          *)
WaitEnds == \A p \in Processes : []<>(pc[p] # "waiting")

(* Once no operator works on the cluster the supervisor gets the lock again  *)
(* and again, whatever died or was refused before (release, and the kernel's *)
(* release of a dead process's flock).                                       *)
SupervisorReturns ==
  <>[](\A o \in Operators : pc[o] = "idle") => []<>Holds(supervisor)

(* Neither operators nor the supervisor are kept at the lock for ever.       *)
NobodyStarves == WaitEnds /\ SupervisorReturns
=============================================================================
