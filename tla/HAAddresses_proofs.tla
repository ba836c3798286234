------------------------- MODULE HAAddresses_proofs -------------------------
(* Proofs about HAAddresses, for any number of members and addresses, and    *)
(* whichever address the runtime hands out; and about HAOperationLock, which *)
(* lets one process at a time start members.                                 *)
EXTENDS HAAddresses, FiniteSetTheorems, TLAPS

-----------------------------------------------------------------------------
Typing ==
  /\ env \in [Members -> {"missing", "stopped", "running"}]
  /\ primary \in [Members -> Addresses \cup {None}]
  /\ guest \in [Members -> {"off", "booting", "serving"}]
  /\ guarded \in [Members -> BOOLEAN] /\ log \in [Members -> BOOLEAN]
  /\ pc \in {"idle", "clear", "check", "run", "wait", "remove", "delete"}

(* What is known of the member that an operation is about.                   *)
Operation ==
  /\ pc # "idle" => op \in Members
  /\ pc \in {"check", "run"} => env[op] = "missing"
  /\ pc \in {"clear", "delete"} => env[op] # "running"
  /\ pc = "remove" => Collides(op) \/ guest[op] = "off"

Exhausted == outcome = "exhausted" => pc = "idle" /\ op \in Members /\ env[op] = "missing"

IInv == Typing /\ TypeOK /\ Operation /\ ServersApart /\ Exhausted

-----------------------------------------------------------------------------
LEMMA LimitType == RetryLimit \in Nat \ {0}
<1>1. Cardinality(Members) \in Nat /\ (Cardinality(Members) = 0 <=> Members = {})
  BY MembersAssumption, FS_CardinalityType, FS_EmptySet
<1> QED BY <1>1, MembersAssumption DEF RetryLimit

(* A VM that is down has no address and collides with nobody.                *)
LEMMA DownIsApart == ASSUME NEW m \in Members, primary[m] = None PROVE ~Collides(m)
BY NoneAssumption DEF Collides, Addresses

(* The steps that leave every VM and every log alone.                        *)
LEMMA VMsKept ==
  ASSUME IInv, UNCHANGED vms, op' \in Members \cup {None}, attempt' \in 0..Cardinality(Members),
         faults' \in 0..MaxFaults,
         pc' \in {"idle", "clear", "check", "run", "wait", "remove", "delete"}
  PROVE  Typing' /\ TypeOK' /\ ServersApart'
BY DEF IInv, Typing, TypeOK, ServersApart, Collides, vms

(* The VM of m goes down; its log says no more than that it stopped.         *)
LEMMA VMDown ==
  ASSUME IInv, NEW m \in Members, Exited(m), log' = log \/ log' = [log EXCEPT ![m] = TRUE],
         op' = op, attempt' = attempt, faults' \in 0..MaxFaults,
         pc' \in {"idle", "clear", "check", "run", "wait", "remove", "delete"}
  PROVE  /\ Typing' /\ TypeOK' /\ ServersApart'
         /\ env'[m] = "stopped" /\ guest'[m] = "off"
         /\ \A n \in Members \ {m} : env'[n] = env[n] /\ guest'[n] = guest[n] /\ (Collides(n)' <=> Collides(n))
<1>1. /\ env' = [env EXCEPT ![m] = "stopped"] /\ guest' = [guest EXCEPT ![m] = "off"]
      /\ primary' = [primary EXCEPT ![m] = None] /\ guarded' = guarded
  BY DEF Exited
<1>2. Typing'
  BY <1>1 DEF IInv, Typing
<1>3. /\ env'[m] = "stopped" /\ guest'[m] = "off" /\ primary'[m] = None
      /\ \A n \in Members \ {m} : /\ env'[n] = env[n] /\ guest'[n] = guest[n]
                                  /\ primary'[n] = primary[n] /\ log'[n] = log[n]
  BY <1>1 DEF IInv, Typing
<1>4. TypeOK'
  BY <1>2, <1>3 DEF IInv, Typing, TypeOK
<1>5. \A n \in Members \ {m} : Collides(n)' <=> Collides(n)
  BY <1>3 DEF Collides
<1>6. ServersApart'
  BY <1>1, <1>3, <1>5 DEF IInv, ServersApart
<1> QED BY <1>2, <1>3, <1>4, <1>5, <1>6

(* The envelope of a member that is down is deleted, with its log.           *)
LEMMA EnvelopeGone ==
  ASSUME IInv, op \in Members, env[op] # "running", Removed,
         UNCHANGED <<primary, guest, guarded, recent, op, faults>>, attempt' \in 0..Cardinality(Members),
         pc' \in {"idle", "check"}
  PROVE  Typing' /\ TypeOK' /\ ServersApart' /\ env'[op] = "missing"
<1>1. env' = [env EXCEPT ![op] = "missing"] /\ log' = [log EXCEPT ![op] = FALSE]
  BY DEF Removed
<1>2. Typing' /\ env'[op] = "missing"
  BY <1>1 DEF IInv, Typing
<1>3. TypeOK'
  BY <1>1, <1>2 DEF IInv, Typing, TypeOK
<1>4. ServersApart'
  BY DEF IInv, ServersApart, Collides
<1> QED BY <1>2, <1>3, <1>4

-----------------------------------------------------------------------------
LEMMA InitInv == Init => IInv
<1> SUFFICES ASSUME Init PROVE IInv
  OBVIOUS
<1>1. Typing
  BY DEF Init, Typing
<1>2. TypeOK
  <2>1. 0 \in 0..Cardinality(Members) /\ 0 \in 0..MaxFaults
    BY LimitType, BoundAssumption DEF RetryLimit
  <2> QED BY <2>1 DEF Init, TypeOK
<1>3. Operation /\ Exhausted
  BY DEF Init, Operation, Exhausted
<1>4. ServersApart
  BY DEF Init, ServersApart
<1> QED BY <1>1, <1>2, <1>3, <1>4 DEF IInv

LEMMA GuestStartsInv == ASSUME IInv, NEW m \in Members, GuestStarts(m) PROVE IInv'
<1>0. guest[m] = "booting" /\ UNCHANGED <<pc, op, attempt, outcome, faults>>
  BY DEF GuestStarts
<1>1. env[m] = "running"
  BY <1>0 DEF IInv, TypeOK
<1>2. CASE guarded[m] /\ Collides(m)
  <2>1. Exited(m) /\ log' = [log EXCEPT ![m] = TRUE]
    BY <1>2 DEF GuestStarts
  <2>2. /\ Typing' /\ TypeOK' /\ ServersApart' /\ env'[m] = "stopped" /\ guest'[m] = "off"
        /\ \A n \in Members \ {m} : env'[n] = env[n] /\ guest'[n] = guest[n] /\ (Collides(n)' <=> Collides(n))
    BY <1>0, <2>1, VMDown DEF IInv, TypeOK, Typing
  <2>3. Operation'
    BY <1>0, <1>1, <2>2 DEF IInv, Operation
  <2>4. Exhausted'
    BY <1>0, <1>1, <2>2 DEF IInv, Exhausted
  <2> QED BY <2>2, <2>3, <2>4 DEF IInv
<1>3. CASE ~(guarded[m] /\ Collides(m))
  <2>1. guest' = [guest EXCEPT ![m] = "serving"] /\ UNCHANGED <<env, primary, guarded, log, recent>>
    BY <1>3 DEF GuestStarts
  <2>2. /\ guest'[m] = "serving" /\ \A n \in Members \ {m} : guest'[n] = guest[n]
        /\ \A n \in Members : Collides(n)' <=> Collides(n)
    BY <2>1 DEF IInv, Typing, Collides
  <2>3. Typing'
    BY <1>0, <2>1 DEF IInv, Typing
  <2>4. TypeOK'
    BY <1>0, <1>1, <2>1, <2>2 DEF IInv, TypeOK
  <2>5. ServersApart'
    BY <1>3, <2>1, <2>2 DEF IInv, ServersApart
  <2>6. Operation'
    BY <1>0, <2>1, <2>2 DEF IInv, Operation
  <2>7. Exhausted'
    BY <1>0, <2>1 DEF IInv, Exhausted
  <2> QED BY <2>3, <2>4, <2>5, <2>6, <2>7 DEF IInv
<1> QED BY <1>2, <1>3

LEMMA ExitsInv == ASSUME IInv, NEW m \in Members, Exits(m) PROVE IInv'
<1>1. /\ env[m] = "running" /\ faults' = faults + 1 /\ faults < MaxFaults /\ Exited(m)
      /\ UNCHANGED <<log, pc, op, attempt, outcome>>
  BY DEF Exits, Fault
<1>2. faults' \in 0..MaxFaults
  BY <1>1, BoundAssumption DEF IInv, TypeOK
<1>3. /\ Typing' /\ TypeOK' /\ ServersApart' /\ env'[m] = "stopped" /\ guest'[m] = "off"
      /\ \A n \in Members \ {m} : env'[n] = env[n] /\ guest'[n] = guest[n] /\ (Collides(n)' <=> Collides(n))
  BY <1>1, <1>2, VMDown DEF IInv, Typing
<1>4. Operation'
  BY <1>1, <1>3 DEF IInv, Operation
<1>5. Exhausted'
  BY <1>1, <1>3 DEF IInv, Exhausted
<1> QED BY <1>3, <1>4, <1>5 DEF IInv

LEMMA BeginInv == ASSUME IInv, NEW m \in Members, Begin(m) PROVE IInv'
<1>1. /\ pc = "idle" /\ env[m] # "running" /\ op' = m /\ attempt' = 1 /\ outcome' = "none"
      /\ pc' = (IF env[m] = "stopped" THEN "clear" ELSE "check") /\ UNCHANGED vms /\ faults' = faults
  BY DEF Begin
<1>2. 1 \in 0..Cardinality(Members) /\ faults' \in 0..MaxFaults
  BY <1>1, LimitType DEF RetryLimit, IInv, TypeOK
<1>3. Typing' /\ TypeOK' /\ ServersApart'
  BY <1>1, <1>2, VMsKept
<1>4. Operation' /\ Exhausted'
  BY <1>1 DEF IInv, Typing, Operation, Exhausted, vms
<1> QED BY <1>3, <1>4 DEF IInv

(* The steps that look and decide. *)
LEMMA DecidesInv ==
  ASSUME IInv, CheckPeers \/ Wait \/ Breaks PROVE IInv'
<1>1. /\ op' = op /\ attempt' = attempt /\ UNCHANGED vms /\ pc # "idle" /\ op \in Members
      /\ pc' \in {"idle", "run", "remove"} /\ outcome # "exhausted"
      /\ outcome' \in {outcome, "failed", "started"}
      /\ faults' = faults \/ Fault
      /\ pc' = "run" => pc = "check"
      /\ pc' = "remove" => Collides(op) \/ log[op]
  BY DEF CheckPeers, Wait, Breaks, Finish, IInv, Operation, Exhausted
<1>2. faults' \in 0..MaxFaults
  BY <1>1, BoundAssumption DEF IInv, TypeOK, Fault
<1>3. Typing' /\ TypeOK' /\ ServersApart'
  BY <1>1, <1>2, VMsKept DEF IInv, TypeOK
<1>4. log[op] => guest[op] = "off"
  BY <1>1 DEF IInv, TypeOK
<1>5. Collides(op)' <=> Collides(op)
  BY <1>1 DEF Collides, vms
<1>6. Operation' /\ Exhausted'
  BY <1>1, <1>4, <1>5 DEF IInv, Operation, Exhausted, vms
<1> QED BY <1>3, <1>6 DEF IInv

LEMMA ClearInv == ASSUME IInv, Clear PROVE IInv'
<1>1. /\ op \in Members /\ env[op] # "running" /\ Removed /\ pc' = "check" /\ outcome # "exhausted"
      /\ UNCHANGED <<primary, guest, guarded, recent, op, attempt, outcome, faults>>
  BY DEF Clear, IInv, Operation, Exhausted
<1>2. Typing' /\ TypeOK' /\ ServersApart' /\ env'[op] = "missing"
  BY <1>1, EnvelopeGone DEF IInv, TypeOK
<1>3. Operation' /\ Exhausted'
  BY <1>1, <1>2 DEF Operation, Exhausted
<1> QED BY <1>2, <1>3 DEF IInv

LEMMA DeleteConflictingInv == ASSUME IInv, DeleteConflicting PROVE IInv'
<1>1. /\ op \in Members /\ env[op] # "running" /\ Removed /\ outcome # "exhausted"
      /\ UNCHANGED <<primary, guest, guarded, recent, op, faults>>
  BY DEF DeleteConflicting, IInv, Operation, Exhausted
<1>2. /\ pc' \in {"idle", "check"}
      /\ outcome' = "exhausted" => pc' = "idle"
      /\ attempt' \in {attempt, attempt + 1}
      /\ attempt' # attempt => attempt # RetryLimit
  BY <1>1 DEF DeleteConflicting, Finish
<1>3. attempt' \in 0..Cardinality(Members)
  BY <1>2, LimitType DEF IInv, TypeOK, RetryLimit
<1>4. Typing' /\ TypeOK' /\ ServersApart' /\ env'[op] = "missing"
  BY <1>1, <1>2, <1>3, EnvelopeGone
<1>5. Operation' /\ Exhausted'
  BY <1>1, <1>2, <1>4 DEF Operation, Exhausted
<1> QED BY <1>4, <1>5 DEF IInv

LEMMA StopConflictingInv == ASSUME IInv, StopConflicting PROVE IInv'
<1>1. /\ op \in Members /\ pc' = "delete" /\ outcome # "exhausted"
      /\ UNCHANGED <<log, op, attempt, outcome, faults>>
  BY DEF StopConflicting, IInv, Operation, Exhausted
<1>2. CASE env[op] = "running"
  <2>1. Exited(op)
    BY <1>2 DEF StopConflicting
  <2>2. Typing' /\ TypeOK' /\ ServersApart' /\ env'[op] = "stopped"
    BY <1>1, <2>1, VMDown DEF IInv, TypeOK
  <2> QED BY <1>1, <2>2 DEF IInv, Operation, Exhausted
<1>3. CASE env[op] # "running"
  <2>1. UNCHANGED vms
    BY <1>1, <1>3 DEF StopConflicting, vms
  <2>2. Typing' /\ TypeOK' /\ ServersApart'
    BY <1>1, <2>1, VMsKept DEF IInv, TypeOK
  <2> QED BY <1>1, <1>3, <2>1, <2>2 DEF IInv, Operation, Exhausted, vms
<1> QED BY <1>2, <1>3

LEMMA RunInv == ASSUME IInv, Run PROVE IInv'
<1>1. PICK x \in Offered : primary' = [primary EXCEPT ![op] = x]
  BY DEF Run
<1>2. /\ op \in Members /\ env[op] = "missing" /\ pc' = "wait" /\ outcome # "exhausted"
      /\ env' = [env EXCEPT ![op] = "running"] /\ guest' = [guest EXCEPT ![op] = "booting"]
      /\ guarded' = [guarded EXCEPT ![op] = TRUE]
      /\ UNCHANGED <<log, op, attempt, outcome, faults>>
  BY DEF Run, IInv, Operation, Exhausted
<1>3. x \in Addresses /\ x # None /\ \A m \in Members : primary[m] # x
  BY NoneAssumption DEF Offered
<1>4. Typing'
  BY <1>1, <1>2, <1>3 DEF IInv, Typing
<1>5. /\ env'[op] = "running" /\ guest'[op] = "booting" /\ primary'[op] = x /\ ~log[op]
      /\ \A n \in Members \ {op} : /\ env'[n] = env[n] /\ guest'[n] = guest[n]
                                   /\ primary'[n] = primary[n] /\ guarded'[n] = guarded[n]
  BY <1>1, <1>2 DEF IInv, Typing, TypeOK
<1>6. TypeOK'
  <2>1. env' \in [Members -> {"missing", "stopped", "running"}]
    BY <1>4 DEF Typing
  <2>2. \A m \in Members : /\ primary'[m] \in Addresses \cup {None}
                           /\ primary'[m] # None <=> env'[m] = "running"
                           /\ guest'[m] # "off" <=> env'[m] = "running"
                           /\ log'[m] => env'[m] = "stopped"
    BY <1>2, <1>3, <1>5 DEF IInv, TypeOK
  <2>3. \A m, n \in Members : primary'[m] = primary'[n] => m = n \/ primary'[m] = None
    BY <1>3, <1>5 DEF IInv, TypeOK
  <2> QED BY <1>2, <2>1, <2>2, <2>3 DEF IInv, TypeOK
<1>7. ServersApart'
  BY <1>5 DEF IInv, ServersApart, Collides
<1>8. Operation' /\ Exhausted'
  BY <1>2 DEF Operation, Exhausted
<1> QED BY <1>4, <1>6, <1>7, <1>8 DEF IInv

LEMMA NextInv == ASSUME IInv, [Next]_vars PROVE IInv'
<1>1. CASE UNCHANGED vars
  BY <1>1 DEF vars, vms, IInv, Typing, TypeOK, Operation, ServersApart, Exhausted, Collides
<1> QED
  BY <1>1, GuestStartsInv, ExitsInv, BeginInv, DecidesInv, ClearInv, DeleteConflictingInv,
     StopConflictingInv, RunInv DEF Next, Steps

LEMMA Invariance == Spec => []IInv
<1>1. Init => IInv
  BY InitInv
<1>2. IInv /\ [Next]_vars => IInv'
  BY NextInv
<1> QED BY <1>1, <1>2, PTL DEF Spec

-----------------------------------------------------------------------------
(* The type invariant, with no two running VMs at one address.               *)
THEOREM AddressTypeCorrect == Spec => []TypeOK
<1>1. IInv => TypeOK
  BY DEF IInv
<1> QED BY <1>1, Invariance, PTL

(* No server of the present launch format runs at an address reserved for    *)
(* another member, for any number of members and any runtime.                *)
THEOREM ServersKeepApart == Spec => []ServersApart
<1>1. IInv => ServersApart
  BY DEF IInv
<1> QED BY <1>1, Invariance, PTL

(* Exhaustion leaves no conflicting envelope behind.                         *)
THEOREM ExhaustionFailsClosed == Spec => []ExhaustedLeavesNone
<1>1. IInv => ExhaustedLeavesNone
  BY DEF IInv, Exhausted, ExhaustedLeavesNone
<1> QED BY <1>1, Invariance, PTL

(* Starting a member takes no server down that has an address of its own.    *)
THEOREM NoServerTakenDown == Spec => OnlyConflictsRemoved
<1> DEFINE Kept == \A m \in Members :
       guest[m] = "serving" /\ ~Collides(m) /\ guest'[m] # "serving" => faults' # faults
<1>1. ASSUME IInv, [Next]_vars PROVE Kept \/ UNCHANGED vars
  <2> SUFFICES ASSUME NEW m \in Members, guest[m] = "serving", ~Collides(m), guest'[m] # "serving"
               PROVE  faults' # faults
    OBVIOUS
  <2>1. ASSUME NEW n \in Members, GuestStarts(n) PROVE FALSE
    <3>1. n # m
      BY <2>1 DEF GuestStarts
    <3>2. guest' = [guest EXCEPT ![n] = "off"] \/ guest' = [guest EXCEPT ![n] = "serving"]
      BY <2>1 DEF GuestStarts, Exited
    <3> QED BY <1>1, <3>1, <3>2 DEF IInv, Typing
  <2>2. ASSUME NEW n \in Members, Exits(n) PROVE faults' # faults
    <3>1. faults \in Int /\ faults' = faults + 1
      BY <1>1, <2>2, BoundAssumption DEF Exits, Fault, IInv, TypeOK
    <3> QED BY <3>1
  <2>3. CASE Run
    <3>1. op \in Members /\ env[op] = "missing" /\ guest' = [guest EXCEPT ![op] = "booting"]
      BY <1>1, <2>3 DEF Run, IInv, Operation
    <3>2. op # m
      BY <1>1, <3>1 DEF IInv, TypeOK
    <3> QED BY <1>1, <3>1, <3>2 DEF IInv, Typing
  <2>4. CASE StopConflicting
    <3>1. op \in Members /\ (Collides(op) \/ guest[op] = "off")
      BY <1>1, <2>4 DEF StopConflicting, IInv, Operation
    <3>2. op # m
      BY <3>1
    <3>3. guest' = guest \/ guest' = [guest EXCEPT ![op] = "off"]
      BY <2>4 DEF StopConflicting, Exited
    <3> QED BY <1>1, <3>1, <3>2, <3>3 DEF IInv, Typing
  <2>5. CASE UNCHANGED guest
    BY <2>5
  <2> QED
    BY <1>1, <2>1, <2>2, <2>3, <2>4, <2>5
    DEF Next, Steps, vars, vms, Begin, Clear, CheckPeers, Wait, DeleteConflicting, Breaks
<1>2. (Kept \/ UNCHANGED vars) => [Kept]_vars
  OBVIOUS
<1>3. IInv /\ [Next]_vars => [Kept]_vars
  BY <1>1, <1>2
<1>4. [][Kept]_vars => OnlyConflictsRemoved
  BY DEF OnlyConflictsRemoved
<1> QED BY <1>3, <1>4, Invariance, PTL DEF Spec

-----------------------------------------------------------------------------
(* The operation lock, by which one process at a time starts members:        *)
(* another system, with parameters and a state of its own.  What             *)
(* HAOperationLock assumes of its constants is a hypothesis here.            *)
(*                                                                           *)
(* The lock implements OperationMutex, for every set of operators, every     *)
(* supply of inodes, every timing and every number of deaths.  That one      *)
(* inode has one owner is the kernel's doing; that all processes wait for    *)
(* the same inode is the code's, and follows only because the path, once it  *)
(* names a file, names that file for ever.                                   *)
CONSTANTS Operators, Inodes, Interval, Patience, MemberTimeout, MaxCommands, MaxOverruns, MaxDeaths
VARIABLES path, owner, opened, step, kind, left, polled, ticker, due, met, commands, overruns, deaths

Lock == INSTANCE HAOperationLock WITH pc <- step

LockAssumptions ==
  /\ Lock!OperatorsAssumption /\ Lock!InodesAssumption
  /\ Lock!TimesAssumption /\ Lock!PauseAssumption /\ Lock!BoundsAssumption

USE DEF LockAssumptions, Lock!OperatorsAssumption, Lock!InodesAssumption, Lock!TimesAssumption,
        Lock!PauseAssumption, Lock!BoundsAssumption


(* Who has a file open has the one that the path names, and nobody is in the *)
(* middle of an operation without it.                                        *)
OneFile ==
  \A p \in Lock!Processes :
    /\ opened[p] \in {0, path}
    /\ step[p] \notin {"idle", "opening"} => opened[p] # 0

(* The flock and the processes agree on who works. *)
Owned ==
  /\ \A i \in Inodes : owner[i] # Lock!None => Lock!Holds(owner[i])
  /\ \A p \in Lock!Processes : Lock!Holds(p) => owner[opened[p]] = p

LockInv == Lock!TypeOK /\ OneFile /\ Owned

-----------------------------------------------------------------------------
LEMMA BudgetType == LockAssumptions => Lock!PassBudget \in Nat
  BY DEF Lock!PassBudget

(* The lock starts free. *)
LEMMA LockInitInv == LockAssumptions /\ Lock!Init => LockInv
  <1> SUFFICES ASSUME LockAssumptions, Lock!Init PROVE LockInv
    OBVIOUS
  <1>1. Lock!TypeOK
    <2>1. /\ path \in Inodes \cup {0} /\ owner \in [Inodes -> Lock!Processes \cup {Lock!None}]
          /\ opened \in [Lock!Processes -> Inodes \cup {0}]
          /\ step \in [Lock!Processes -> {"idle", "opening", "checking", "waiting", "holding", "recovering"}]
      BY DEF Lock!Init
    <2>2. kind \in [Lock!Processes -> Lock!Kinds] /\ left \in [Lock!Processes -> Nat]
      BY DEF Lock!Init, Lock!Kinds
    <2>3. polled \subseteq Lock!Processes /\ met \subseteq Lock!Processes /\ due \in BOOLEAN
      BY DEF Lock!Init
    <2>4. /\ ticker \in 0..Interval /\ commands \in 0..MaxCommands
          /\ overruns \in 0..MaxOverruns /\ deaths \in 0..MaxDeaths
      BY DEF Lock!Init
    <2>5. \A i \in Inodes : owner[i] = Lock!None
      BY DEF Lock!Init
    <2> QED
      BY <2>1, <2>2, <2>3, <2>4, <2>5 DEF Lock!TypeOK
  <1>2. OneFile /\ Owned
    BY DEF Lock!Init, OneFile, Owned, Lock!Holds
  <1> QED
    BY <1>1, <1>2 DEF LockInv

(* A process that ends its operation, by itself or by dying. *)
LEMMA Departure ==
  ASSUME LockAssumptions, LockInv, NEW p \in Lock!Processes, step[p] # "idle",
         owner' = Lock!Freed(p), path' = path,
         step' = [step EXCEPT ![p] = "idle"],
         opened' = [opened EXCEPT ![p] = 0]
  PROVE  /\ owner' \in [Inodes -> Lock!Processes \cup {Lock!None}]
         /\ opened' \in [Lock!Processes -> Inodes \cup {0}]
         /\ step' \in [Lock!Processes -> {"idle", "opening", "checking", "waiting", "holding", "recovering"}]
         /\ \A i \in Inodes : owner'[i] # Lock!None => opened'[owner'[i]] = i
         /\ OneFile' /\ Owned'
  <1> USE DEF LockInv, Lock!TypeOK
  <1>1. /\ owner' \in [Inodes -> Lock!Processes \cup {Lock!None}]
        /\ opened' \in [Lock!Processes -> Inodes \cup {0}]
        /\ step' \in [Lock!Processes -> {"idle", "opening", "checking", "waiting", "holding", "recovering"}]
    BY DEF Lock!Freed
  <1>2. OneFile'
    BY DEF OneFile
  <1>3. \A i \in Inodes : owner'[i] # Lock!None =>
           owner'[i] \in Lock!Processes /\ owner'[i] = owner[i] /\ owner[i] # p
    BY DEF Lock!Freed, Lock!Processes
  <1>4. \A i \in Inodes : owner'[i] # Lock!None => opened'[owner'[i]] = i
    BY <1>3
  <1>5. \A i \in Inodes : owner'[i] # Lock!None => Lock!Holds(owner[i])'
    BY <1>3 DEF Owned, Lock!Holds
  <1>6. \A q \in Lock!Processes : Lock!Holds(q)' => owner'[opened'[q]] = q
    <2> SUFFICES ASSUME NEW q \in Lock!Processes, Lock!Holds(q)' PROVE owner'[opened'[q]] = q
      OBVIOUS
    <2>1. q # p /\ Lock!Holds(q) /\ opened'[q] = opened[q]
      BY DEF Lock!Holds
    <2>2. owner[opened[q]] = q /\ opened[q] \in Inodes
      BY <2>1 DEF Owned, OneFile, Lock!Holds
    <2> QED
      BY <2>1, <2>2 DEF Lock!Freed
  <1> QED
    BY <1>1, <1>2, <1>4, <1>5, <1>6 DEF Owned

(* A process that gives up before it owned anything. *)
LEMMA Refusal ==
  ASSUME LockAssumptions, LockInv, NEW p \in Lock!Processes, ~Lock!Holds(p), owner' = owner
  PROVE  owner' = Lock!Freed(p)
  BY DEF LockInv, Lock!TypeOK, Owned, Lock!Freed

-----------------------------------------------------------------------------
LEMMA BeginCommandKeeps ==
  ASSUME LockAssumptions, LockInv, NEW o \in Operators, Lock!BeginCommand(o)
  PROVE  LockInv'
  <1> USE DEF Lock!BeginCommand, LockInv, Lock!TypeOK, Lock!Kinds, Lock!clock, Lock!Processes
  <1>1. Lock!TypeOK'
    <2>1. /\ kind' \in [Lock!Processes -> Lock!Kinds] /\ left' \in [Lock!Processes -> Nat]
          /\ step' \in [Lock!Processes -> {"idle", "opening", "checking", "waiting", "holding", "recovering"}]
      OBVIOUS
    <2>2. commands' \in 0..MaxCommands
      OBVIOUS
    <2> QED
      BY <2>1, <2>2
  <1>2. OneFile'
    BY DEF OneFile
  <1>3. Owned'
    BY DEF Owned, Lock!Holds
  <1> QED
    BY <1>1, <1>2, <1>3

LEMMA BeginPassKeeps ==
  ASSUME LockAssumptions, LockInv, Lock!BeginPass
  PROVE  LockInv'
  <1> USE BudgetType DEF Lock!BeginPass, LockInv, Lock!TypeOK, Lock!count, Lock!Processes
  <1>1. Lock!TypeOK'
    OBVIOUS
  <1>2. OneFile'
    BY DEF OneFile
  <1>3. Owned'
    BY DEF Owned, Lock!Holds
  <1> QED
    BY <1>1, <1>2, <1>3

LEMMA OpenKeeps ==
  ASSUME LockAssumptions, LockInv, NEW p \in Lock!Processes, Lock!Open(p)
  PROVE  LockInv' /\ (path # 0 => path' = path)
  <1> USE DEF Lock!Open, LockInv, Lock!TypeOK, Lock!clock, Lock!count
  <1>1. path' \in Inodes /\ (path # 0 => path' = path)
    OBVIOUS
  <1>2. opened[p] \in {0, path} /\ ~Lock!Holds(p)
    BY DEF OneFile, Lock!Holds
  <1>3. OneFile'
    <2> SUFFICES ASSUME NEW q \in Lock!Processes
                 PROVE  opened'[q] \in {0, path'} /\ (step'[q] \notin {"idle", "opening"} => opened'[q] # 0)
      BY DEF OneFile
    <2>1. CASE q = p
      BY <2>1, <1>1
    <2>2. CASE q # p
      BY <2>2, <1>1 DEF OneFile
    <2> QED
      BY <2>1, <2>2
  <1>4. \A i \in Inodes : owner[i] # Lock!None => owner[i] # p /\ owner[i] \in Lock!Processes
    BY <1>2 DEF Owned, Lock!Processes
  <1>5. Lock!TypeOK'
    BY <1>1, <1>4
  <1>6. Owned'
    BY <1>2, <1>4 DEF Owned, Lock!Holds
  <1> QED
    BY <1>1, <1>3, <1>5, <1>6

LEMMA EndsKeeps ==
  ASSUME LockAssumptions, LockInv, NEW p \in Lock!Processes, step[p] # "idle",
         owner' = Lock!Freed(p), path' = path, Lock!Ends(p),
         UNCHANGED <<kind, left, due, met, Lock!count>>
  PROVE  LockInv'
  <1>1. /\ owner' \in [Inodes -> Lock!Processes \cup {Lock!None}]
        /\ opened' \in [Lock!Processes -> Inodes \cup {0}]
        /\ step' \in [Lock!Processes -> {"idle", "opening", "checking", "waiting", "holding", "recovering"}]
        /\ \A i \in Inodes : owner'[i] # Lock!None => opened'[owner'[i]] = i
        /\ OneFile' /\ Owned'
    BY Departure DEF Lock!Ends
  <1>2. polled' \subseteq Lock!Processes /\ ticker' \in 0..Interval
    BY DEF LockInv, Lock!TypeOK, Lock!Ends
  <1> QED
    BY <1>1, <1>2 DEF LockInv, Lock!TypeOK, Lock!count

LEMMA CheckKeeps ==
  ASSUME LockAssumptions, LockInv, NEW p \in Lock!Processes, Lock!Check(p)
  PROVE  LockInv'
  <1>0. step[p] = "checking" /\ ~Lock!Holds(p)
    BY DEF Lock!Check, Lock!Holds
  <1>1. CASE opened[p] = path
    <2> USE <1>0, <1>1 DEF Lock!Check, LockInv, Lock!TypeOK, Lock!count
    <2>1. Lock!TypeOK'
      OBVIOUS
    <2>2. OneFile'
      BY DEF OneFile
    <2>3. Owned'
      <3>1. \A q \in Lock!Processes : Lock!Holds(q)' <=> Lock!Holds(q)
        BY DEF Lock!Holds
      <3>2. \A i \in Inodes : owner[i] # Lock!None => owner[i] \in Lock!Processes
        BY DEF Lock!Processes
      <3> QED
        BY <3>1, <3>2 DEF Owned
    <2> QED
      BY <2>1, <2>2, <2>3
  <1>2. CASE opened[p] # path
    BY <1>0, <1>2, EndsKeeps, Refusal DEF Lock!Check
  <1> QED
    BY <1>1, <1>2

LEMMA PollKeeps ==
  ASSUME LockAssumptions, LockInv, NEW p \in Lock!Processes, Lock!Poll(p)
  PROVE  LockInv'
  <1> USE DEF LockInv, Lock!TypeOK, Lock!Processes
  <1>0. step[p] = "waiting" /\ opened[p] \in Inodes /\ opened[p] = path
    BY DEF Lock!Poll, OneFile
  <1>n. \A q \in Lock!Processes : q # Lock!None
    BY DEF Lock!None, Lock!supervisor
  <1>1. CASE owner[opened[p]] = Lock!None
    <2>1. /\ owner' = [owner EXCEPT ![opened[p]] = p] /\ step' = [step EXCEPT ![p] = "holding"]
          /\ UNCHANGED <<path, opened, kind, left, polled, met, ticker, due, commands, overruns, deaths>>
      BY <1>1 DEF Lock!Poll, Lock!clock, Lock!count
    <2>2. Lock!TypeOK'
      BY <1>0, <2>1
    <2>3. OneFile'
      BY <1>0, <2>1 DEF OneFile
    <2>4. \A q \in Lock!Processes : ~Lock!Holds(q)
      BY <1>0, <1>n, <1>1 DEF Owned, OneFile, Lock!Holds
    <2>5. Owned'
      BY <1>0, <2>1, <2>4 DEF Owned, Lock!Holds
    <2> QED
      BY <2>2, <2>3, <2>5
  <1>2. CASE owner[opened[p]] # Lock!None
    <2>1. /\ UNCHANGED <<Lock!lock, kind, left, Lock!clock, Lock!count>>
          /\ polled' = polled \cup {p} /\ met' \subseteq met \cup {p}
      BY <1>2 DEF Lock!Poll, Lock!lock
    <2>2. Lock!TypeOK'
      BY <2>1 DEF Lock!lock, Lock!clock, Lock!count
    <2>3. OneFile' /\ Owned'
      BY <2>1 DEF Lock!lock, OneFile, Owned, Lock!Holds
    <2> QED
      BY <2>2, <2>3
  <1> QED
    BY <1>1, <1>2

LEMMA OverrunKeeps ==
  ASSUME LockAssumptions, LockInv, Lock!Overrun
  PROVE  LockInv'
  <1> USE DEF Lock!Overrun, LockInv, Lock!TypeOK, Lock!clock, Lock!Processes
  <1>1. Lock!TypeOK'
    OBVIOUS
  <1>2. OneFile'
    BY DEF OneFile
  <1>3. Owned'
    BY DEF Owned, Lock!Holds
  <1> QED
    BY <1>1, <1>2, <1>3

LEMMA DieKeeps ==
  ASSUME LockAssumptions, LockInv, NEW p \in Lock!Processes, Lock!Die(p)
  PROVE  LockInv'
  <1>1. /\ owner' \in [Inodes -> Lock!Processes \cup {Lock!None}]
        /\ opened' \in [Lock!Processes -> Inodes \cup {0}]
        /\ step' \in [Lock!Processes -> {"idle", "opening", "checking", "waiting", "holding", "recovering"}]
        /\ \A i \in Inodes : owner'[i] # Lock!None => opened'[owner'[i]] = i
        /\ OneFile' /\ Owned'
    BY Departure DEF Lock!Die
  <1>2. polled' \subseteq Lock!Processes /\ ticker' \in 0..Interval /\ due' \in BOOLEAN
    <2>1. CASE p = Lock!supervisor
      <3>1. ticker' = 0 /\ due' = FALSE /\ polled' = polled \ {p}
        BY <2>1 DEF Lock!Die
      <3>2. 0 \in 0..Interval
        OBVIOUS
      <3> QED
        BY <3>1, <3>2 DEF LockInv, Lock!TypeOK
    <2>2. CASE p # Lock!supervisor
      BY <2>2 DEF LockInv, Lock!TypeOK, Lock!Die, Lock!clock
    <2> QED
      BY <2>1, <2>2
  <1>3. deaths' \in 0..MaxDeaths
    BY DEF LockInv, Lock!TypeOK, Lock!Die
  <1> QED
    BY <1>1, <1>2, <1>3 DEF LockInv, Lock!TypeOK, Lock!Die

LEMMA TickKeeps ==
  ASSUME LockAssumptions, LockInv, Lock!Tick
  PROVE  LockInv'
  <1>1. /\ left' \in [Lock!Processes -> Nat] /\ polled' \subseteq Lock!Processes
        /\ ticker' \in 0..Interval /\ due' \in BOOLEAN
    BY DEF Lock!Tick, LockInv, Lock!TypeOK
  <1>2. UNCHANGED <<path, owner, opened, step, kind, met, commands, overruns, deaths>>
    BY DEF Lock!Tick, Lock!lock, Lock!count
  <1>3. Lock!TypeOK'
    BY <1>1, <1>2 DEF LockInv, Lock!TypeOK
  <1>4. OneFile' /\ Owned'
    BY <1>2 DEF LockInv, OneFile, Owned, Lock!Holds
  <1> QED
    BY <1>3, <1>4 DEF LockInv

(* No step leaves the invariant. *)
LEMMA LockNextInv == LockAssumptions /\ LockInv /\ [Lock!Next]_(Lock!vars) => LockInv'
  <1> SUFFICES ASSUME LockAssumptions, LockInv, [Lock!Next]_(Lock!vars) PROVE LockInv'
    OBVIOUS
  <1>1. CASE \E o \in Operators : Lock!BeginCommand(o)
    BY <1>1, BeginCommandKeeps
  <1>2. CASE Lock!BeginPass
    BY <1>2, BeginPassKeeps
  <1>3. ASSUME NEW p \in Lock!Processes, Lock!Step(p) PROVE LockInv'
    <2>1. CASE Lock!Open(p)
      BY <2>1, OpenKeeps
    <2>2. CASE Lock!Check(p)
      BY <2>2, CheckKeeps
    <2>3. CASE Lock!Poll(p)
      BY <2>3, PollKeeps
    <2>4. CASE Lock!TimeOut(p)
      <3>1. step[p] = "waiting" /\ ~Lock!Holds(p)
        BY <2>4 DEF Lock!TimeOut, Lock!Holds
      <3> QED
        BY <2>4, <3>1, EndsKeeps, Refusal DEF Lock!TimeOut
    <2> QED
      BY <1>3, <2>1, <2>2, <2>3, <2>4 DEF Lock!Step
  <1>4. ASSUME NEW p \in Lock!Processes, Lock!Release(p) PROVE LockInv'
    <2>1. step[p] # "idle"
      BY <1>4 DEF Lock!Release, Lock!Holds
    <2> QED
      BY <1>4, <2>1, EndsKeeps DEF Lock!Release
  <1>5. CASE \E p \in Lock!Processes : Lock!Die(p)
    BY <1>5, DieKeeps
  <1>6. CASE Lock!Overrun
    BY <1>6, OverrunKeeps
  <1>7. CASE Lock!Tick
    BY <1>7, TickKeeps
  <1>8. CASE UNCHANGED Lock!vars
    BY <1>8 DEF Lock!vars, Lock!lock, Lock!clock, Lock!count, LockInv, Lock!TypeOK, OneFile, Owned, Lock!Holds
  <1> QED
    BY <1>1, <1>2, <1>3, <1>4, <1>5, <1>6, <1>7, <1>8 DEF Lock!Next

(* The lock file, the flock and the processes keep their types, and a flock  *)
(* belongs to a process that has the file open (acquireHAOperationLock,      *)
(* release).                                                                 *)
THEOREM LockTypeCorrect == LockAssumptions /\ Lock!Spec => []Lock!TypeOK
  <1>1. LockAssumptions /\ Lock!Init => LockInv
    BY LockInitInv
  <1>2. LockAssumptions /\ LockInv /\ [Lock!Next]_(Lock!vars) => LockInv'
    BY LockNextInv
  <1>3. LockInv => Lock!TypeOK
    BY DEF LockInv
  <1>0. LockAssumptions => LockAssumptions'
    OBVIOUS
  <1> QED
    BY <1>0, <1>1, <1>2, <1>3, PTL DEF Lock!Spec

-----------------------------------------------------------------------------
(* The refinement. *)

Holders == {p \in Lock!Processes : Lock!Holds(p)}

(* Two holders would own one and the same inode. *)
LEMMA OneHolder ==
  ASSUME LockAssumptions, LockInv, NEW p \in Lock!Processes, NEW q \in Lock!Processes,
         Lock!Holds(p), Lock!Holds(q)
  PROVE  p = q
  <1>1. opened[p] = path /\ opened[q] = path
    BY DEF LockInv, OneFile, Lock!Holds
  <1> QED
    BY <1>1 DEF LockInv, Owned

LEMMA AloneHolds ==
  ASSUME LockAssumptions, LockInv, NEW p \in Lock!Processes, Lock!Holds(p)
  PROVE  Holders = {p}
  BY OneHolder DEF Holders

(* A process whose operation ends leaves, if it held the lock. *)
LEMMA EndLeaves ==
  ASSUME LockAssumptions, LockInv, NEW p \in Lock!Processes, step' = [step EXCEPT ![p] = "idle"]
  PROVE  Lock!Mutex!Leave(p) \/ UNCHANGED Holders
  <1> USE DEF LockInv, Lock!TypeOK
  <1>1. \A q \in Lock!Processes \ {p} : Lock!Holds(q)' <=> Lock!Holds(q)
    BY DEF Lock!Holds
  <1>2. ~Lock!Holds(p)'
    BY DEF Lock!Holds
  <1>3. CASE Lock!Holds(p)
    BY <1>1, <1>2, <1>3, AloneHolds DEF Lock!Mutex!Leave, Holders
  <1>4. CASE ~Lock!Holds(p)
    BY <1>1, <1>2, <1>4 DEF Holders
  <1> QED
    BY <1>3, <1>4

(* A step that moves a process between two states of the same side. *)
LEMMA SideKept ==
  ASSUME LockAssumptions, LockInv, NEW p \in Lock!Processes, NEW s, step' = [step EXCEPT ![p] = s],
         Lock!Holds(p) <=> s \in {"holding", "recovering"}
  PROVE  UNCHANGED Holders
  BY DEF Holders, Lock!Holds, LockInv, Lock!TypeOK

(* Every step of the lock is a step of the mutex, or none. *)
LEMMA StepRefines == LockAssumptions /\ LockInv /\ [Lock!Next]_(Lock!vars) => [Lock!Mutex!Next]_Holders
  <1> SUFFICES ASSUME LockAssumptions, LockInv, [Lock!Next]_(Lock!vars) PROVE Lock!Mutex!Next \/ UNCHANGED Holders
    OBVIOUS
  <1>1. ASSUME NEW o \in Operators, Lock!BeginCommand(o) PROVE UNCHANGED Holders
    <2>1. o \in Lock!Processes /\ ~Lock!Holds(o)
      BY <1>1 DEF Lock!BeginCommand, Lock!Holds, Lock!Processes
    <2> QED
      BY <1>1, <2>1, SideKept DEF Lock!BeginCommand
  <1>2. CASE Lock!BeginPass
    <2>1. Lock!supervisor \in Lock!Processes /\ ~Lock!Holds(Lock!supervisor)
      BY <1>2 DEF Lock!BeginPass, Lock!Holds, Lock!Processes
    <2> QED
      BY <1>2, <2>1, SideKept DEF Lock!BeginPass
  <1>3. ASSUME NEW p \in Lock!Processes, Lock!Step(p) PROVE Lock!Mutex!Next \/ UNCHANGED Holders
    <2>1. CASE Lock!Open(p)
      BY <2>1, SideKept DEF Lock!Open, Lock!Holds
    <2>2. CASE Lock!Check(p)
      <3>1. CASE opened[p] = path
        BY <2>2, <3>1, SideKept DEF Lock!Check, Lock!Holds
      <3>2. CASE opened[p] # path
        BY <2>2, <3>2, EndLeaves DEF Lock!Check, Lock!Ends, Lock!Mutex!Next
      <3> QED
        BY <3>1, <3>2
    <2>3. CASE Lock!Poll(p)
      <3>1. CASE owner[opened[p]] = Lock!None
        <4>1. step[p] = "waiting" /\ step' = [step EXCEPT ![p] = "holding"]
          BY <2>3, <3>1 DEF Lock!Poll
        <4>2. opened[p] = path
          BY <4>1 DEF LockInv, OneFile
        <4>3. \A q \in Lock!Processes : ~Lock!Holds(q)
          <5>1. \A q \in Lock!Processes : q # Lock!None
            BY DEF Lock!None, Lock!supervisor, Lock!Processes
          <5> QED
            BY <3>1, <4>2, <5>1 DEF LockInv, OneFile, Owned, Lock!Holds
        <4>4. \A q \in Lock!Processes : Lock!Holds(q)' <=> q = p
          BY <4>1, <4>3 DEF Lock!Holds, LockInv, Lock!TypeOK
        <4>5. Lock!Mutex!Enter(p)
          BY <4>3, <4>4 DEF Lock!Mutex!Enter
        <4> QED
          BY <4>5 DEF Lock!Mutex!Next
      <3>2. CASE owner[opened[p]] # Lock!None
        BY <2>3, <3>2 DEF Lock!Poll, Holders, Lock!Holds
      <3> QED
        BY <3>1, <3>2
    <2>4. CASE Lock!TimeOut(p)
      BY <2>4, EndLeaves DEF Lock!TimeOut, Lock!Ends, Lock!Mutex!Next
    <2> QED
      BY <1>3, <2>1, <2>2, <2>3, <2>4 DEF Lock!Step
  <1>4. ASSUME NEW p \in Lock!Processes, Lock!Release(p) \/ Lock!Die(p) PROVE Lock!Mutex!Next \/ UNCHANGED Holders
    BY <1>4, EndLeaves DEF Lock!Release, Lock!Die, Lock!Ends, Lock!Mutex!Next
  <1>5. CASE Lock!Overrun
    <2>1. Lock!supervisor \in Lock!Processes /\ Lock!Holds(Lock!supervisor)
      BY <1>5 DEF Lock!Overrun, Lock!Holds, Lock!Processes
    <2> QED
      BY <1>5, <2>1, SideKept DEF Lock!Overrun
  <1>6. CASE Lock!Tick
    BY <1>6 DEF Lock!Tick, Lock!lock, Holders, Lock!Holds
  <1>7. CASE UNCHANGED Lock!vars
    BY <1>7 DEF Lock!vars, Lock!lock, Holders, Lock!Holds
  <1> QED
    BY <1>1, <1>2, <1>3, <1>4, <1>5, <1>6, <1>7 DEF Lock!Next

(* Operations on one HA cluster exclude each other, whoever opens the lock   *)
(* file when, whoever dies and whatever is deleted (haOperationLock).        *)
THEOREM LockExclusive == LockAssumptions /\ Lock!Spec => Lock!Exclusive
  <1>1. Lock!Init => Lock!Mutex!Init
    BY DEF Lock!Init, Lock!Mutex!Init, Lock!Holds
  <1>2. LockAssumptions /\ Lock!Init => LockInv
    BY LockInitInv
  <1>3. LockAssumptions /\ LockInv /\ [Lock!Next]_(Lock!vars) => LockInv'
    BY LockNextInv
  <1>4. LockAssumptions /\ LockInv /\ [Lock!Next]_(Lock!vars) => [Lock!Mutex!Next]_Holders
    BY StepRefines
  <1>0. LockAssumptions => LockAssumptions'
    OBVIOUS
  <1> QED
    BY <1>0, <1>1, <1>2, <1>3, <1>4, PTL DEF Lock!Spec, Lock!Exclusive, Lock!Mutex!Spec, Holders

-----------------------------------------------------------------------------
(* Patience.  Until an operation overruns or dies, the passes keep pace with *)
(* the ticker, and an operator who met nobody waits for one pass at most.    *)
Calm  == overruns + deaths = 0
Works == step[Lock!supervisor] # "idle"

Pace ==
  /\ due => ~Works /\ ticker = Interval
  /\ Works => /\ left[Lock!supervisor] <= Lock!PassBudget
              /\ ticker = 0 \/ ticker + Lock!PassBudget = Interval + left[Lock!supervisor]

Waits(o) == step[o] = "waiting" /\ kind[o] = "lifecycle" /\ o \notin met

(* What the wait took, the pass took too.                                    *)
Lately(o) == left[o] + Lock!PassBudget >= Patience + left[Lock!supervisor]
Pausing   == ~Works /\ ~due /\ ticker > 0

(* A wait that has just begun, one beside a pass, one that is about to get   *)
(* the lock, and one beside a pass that ended at this tick.                  *)
InTime(o) ==
  \/ left[o] = Patience /\ o \notin polled
  \/ Works /\ Lately(o)
  \/ Pausing /\ o \notin polled
  \/ Pausing /\ ticker > 1 /\ left[o] > 0

Polling == \A p \in polled : step[p] = "waiting"
Entering ==
  /\ kind[Lock!supervisor] = "pass"
  /\ \A o \in Operators : kind[o] = "lifecycle" /\ step[o] \in {"opening", "checking"} => left[o] = Patience
Patient == Calm => Pace /\ \A o \in Operators : Waits(o) => InTime(o)

Clocks == Polling /\ Entering /\ Patient

(* A pass is shorter than an operator's patience, and two passes leave a     *)
(* pause.                                                                    *)
LEMMA Budget ==
  LockAssumptions => /\ Lock!PassBudget \in Nat /\ Lock!PassBudget < Patience
                     /\ Lock!PassBudget + 1 < Interval
BY DEF Lock!PassBudget

LEMMA Sups == LockAssumptions => /\ Lock!supervisor \in Lock!Processes /\ Operators \subseteq Lock!Processes
                                 /\ \A o \in Operators : o # Lock!supervisor
BY DEF Lock!Processes

LEMMA ClocksInit == LockAssumptions /\ Lock!Init => Clocks
BY Sups, Budget DEF Lock!Init, Clocks, Polling, Entering, Patient, Calm, Pace, Works, Waits

(* What concerns neither the supervisor nor the clocks.                      *)
LEMMA PaceKept ==
  ASSUME Pace, Works' <=> Works, left'[Lock!supervisor] = left[Lock!supervisor], UNCHANGED <<ticker, due>>
  PROVE  Pace'
BY DEF Pace

LEMMA InTimeKept ==
  ASSUME NEW o, InTime(o), Works' <=> Works, left'[Lock!supervisor] = left[Lock!supervisor],
         UNCHANGED <<ticker, due>>, left'[o] = left[o], o \in polled' <=> o \in polled
  PROVE  InTime(o)'
BY DEF InTime, Lately, Pausing

LEMMA BeginCommandTimes ==
  ASSUME LockAssumptions, LockInv, Clocks, NEW o \in Operators, Lock!BeginCommand(o)
  PROVE  Clocks'
<1>1. /\ step[o] = "idle" /\ step' = [step EXCEPT ![o] = "opening"]
      /\ UNCHANGED <<polled, ticker, due, overruns, deaths>> /\ met' = met \ {o}
      /\ \E k \in {"lifecycle", "member"} :
           /\ kind' = [kind EXCEPT ![o] = k]
           /\ left' = [left EXCEPT ![o] = IF k = "member" THEN MemberTimeout ELSE Patience]
  BY DEF Lock!BeginCommand, Lock!clock
<1>2. /\ DOMAIN step = Lock!Processes /\ DOMAIN kind = Lock!Processes /\ DOMAIN left = Lock!Processes
      /\ polled \subseteq Lock!Processes
  BY DEF LockInv, Lock!TypeOK
<1>3. /\ \A p \in Lock!Processes \ {o} : step'[p] = step[p] /\ kind'[p] = kind[p] /\ left'[p] = left[p]
      /\ step'[o] = "opening" /\ (kind'[o] = "lifecycle" => left'[o] = Patience)
  BY <1>1, <1>2, Sups
<1>4. Polling' /\ Entering'
  BY <1>1, <1>2, <1>3, Sups DEF Clocks, Polling, Entering
<1>5. (Works' <=> Works) /\ left'[Lock!supervisor] = left[Lock!supervisor]
  BY <1>3, Sups DEF Works
<1>6. ASSUME Calm, NEW q \in Operators, Waits(q)' PROVE InTime(q)'
  <2>1. q # o /\ Waits(q) /\ left'[q] = left[q]
    BY <1>1, <1>3, <1>6, Sups DEF Waits
  <2> QED BY <1>1, <1>5, <1>6, <2>1, InTimeKept DEF Clocks, Patient
<1>7. Patient'
  BY <1>1, <1>5, <1>6, PaceKept DEF Clocks, Patient, Calm
<1> QED BY <1>4, <1>7 DEF Clocks

LEMMA BeginPassTimes ==
  ASSUME LockAssumptions, LockInv, Clocks, Lock!BeginPass
  PROVE  Clocks'
<1>1. /\ step[Lock!supervisor] = "idle" /\ (ticker = 0 \/ due)
      /\ step' = [step EXCEPT ![Lock!supervisor] = "opening"]
      /\ left' = [left EXCEPT ![Lock!supervisor] = Lock!PassBudget]
      /\ due' = FALSE
      /\ UNCHANGED <<kind, polled, ticker, met, overruns, deaths>>
  BY DEF Lock!BeginPass, Lock!count
<1>2. DOMAIN step = Lock!Processes /\ DOMAIN left = Lock!Processes
  BY DEF LockInv, Lock!TypeOK
<1>3. /\ step'[Lock!supervisor] = "opening" /\ left'[Lock!supervisor] = Lock!PassBudget
      /\ \A o \in Operators : step'[o] = step[o] /\ left'[o] = left[o]
      /\ \A p \in Lock!Processes : step[p] = "waiting" => step'[p] = "waiting"
  BY <1>1, <1>2, Sups
<1>4. Polling' /\ Entering'
  BY <1>1, <1>3 DEF Clocks, Polling, Entering, LockInv, Lock!TypeOK
<1>5. Calm => Pace'
  BY <1>1, <1>3, Budget DEF Clocks, Patient, Pace, Works
<1>6. ASSUME Calm, NEW o \in Operators, Waits(o)' PROVE InTime(o)'
  <2>1. InTime(o)
    BY <1>1, <1>3, <1>6 DEF Clocks, Patient, Waits
  <2>2. left[o] = Patience /\ o \notin polled
    BY <1>1, <2>1 DEF InTime, Works, Pausing
  <2> QED BY <1>1, <1>3, <2>2 DEF InTime
<1> QED BY <1>1, <1>4, <1>5, <1>6 DEF Clocks, Patient, Calm

(* A process goes on without ending what it does.                            *)
LEMMA GoingOnTimes ==
  ASSUME LockAssumptions, LockInv, Clocks, NEW p \in Lock!Processes, NEW s, s # "idle", step[p] # "idle",
         step' = [step EXCEPT ![p] = s], UNCHANGED <<kind, left, polled, ticker, due, met, overruns, deaths>>,
         p \notin polled, s # "opening", s = "checking" => step[p] = "opening",
         s = "waiting" => step[p] = "checking"
  PROVE  Clocks'
<1>1. DOMAIN step = Lock!Processes /\ polled \subseteq Lock!Processes
  BY DEF LockInv, Lock!TypeOK
<1>2. Works' <=> Works
  BY <1>1, Sups DEF Works
<1>3. Polling' /\ Entering'
  BY <1>1, Sups DEF Clocks, Polling, Entering
<1>4. Calm => Pace'
  BY <1>2, PaceKept DEF Clocks, Patient
<1>5. ASSUME Calm, NEW o \in Operators, Waits(o)' PROVE InTime(o)'
  <2>1. CASE Waits(o)
    BY <1>2, <1>5, <2>1, InTimeKept DEF Clocks, Patient
  <2>2. CASE ~Waits(o)
    <3>1. o = p /\ s = "waiting" /\ kind[o] = "lifecycle"
      BY <1>1, <1>5, <2>2, Sups DEF Waits
    <3>2. left[o] = Patience
      BY <3>1 DEF Clocks, Entering
    <3> QED BY <3>1, <3>2 DEF InTime
  <2> QED BY <2>1, <2>2
<1> QED BY <1>3, <1>4, <1>5 DEF Clocks, Patient, Calm

(* An operation, or the wait for it, ends.                                   *)
LEMMA EndsTimes ==
  ASSUME LockAssumptions, LockInv, Clocks, NEW p \in Lock!Processes, step[p] # "idle", Lock!Ends(p),
         UNCHANGED <<kind, left, due, met, Lock!count>>
  PROVE  Clocks'
<1>1. /\ step' = [step EXCEPT ![p] = "idle"] /\ polled' = polled \ {p}
      /\ ticker' = IF p = Lock!supervisor /\ ticker = 0 THEN Interval ELSE ticker
      /\ UNCHANGED <<overruns, deaths>>
  BY DEF Lock!Ends, Lock!count
<1>2. DOMAIN step = Lock!Processes /\ polled \subseteq Lock!Processes
  BY DEF LockInv, Lock!TypeOK
<1>3. step'[p] = "idle" /\ \A q \in Lock!Processes \ {p} : step'[q] = step[q]
  BY <1>1, <1>2
<1>4. Polling' /\ Entering'
  BY <1>1, <1>2, <1>3, Sups DEF Clocks, Polling, Entering
<1>5. \A o \in Operators : Waits(o)' => Waits(o) /\ o # p
  BY <1>3, Sups DEF Waits
<1>6. CASE p # Lock!supervisor
  <2>1. (Works' <=> Works) /\ UNCHANGED ticker
    BY <1>1, <1>3, <1>6, Sups DEF Works
  <2>2. Calm => Pace'
    BY <2>1, PaceKept DEF Clocks, Patient
  <2>3. ASSUME Calm, NEW o \in Operators, Waits(o)' PROVE InTime(o)'
    BY <1>1, <1>5, <2>1, <2>3, InTimeKept DEF Clocks, Patient
  <2> QED BY <1>1, <1>4, <2>2, <2>3 DEF Clocks, Patient, Calm
<1>7. CASE p = Lock!supervisor
  <2>1. Works /\ ~Works'
    BY <1>3, <1>7 DEF Works
  <2>2. left \in [Lock!Processes -> Nat] /\ ticker \in Nat
    BY DEF LockInv, Lock!TypeOK
  <2>3. ASSUME Calm PROVE ~due /\ ticker' \in Nat /\ ticker' > 1
    BY <1>1, <1>7, <2>1, <2>2, <2>3, Budget, Sups DEF Clocks, Patient, Pace
  <2>4. ASSUME Calm, NEW o \in Operators, Waits(o)' PROVE InTime(o)'
    <3>1. o # p /\ InTime(o)
      BY <1>5, <2>4 DEF Clocks, Patient
    <3>2. CASE left[o] = Patience /\ o \notin polled
      BY <1>1, <3>2 DEF InTime
    <3>3. CASE Lately(o)
      <4>1. left[o] \in Nat /\ left[Lock!supervisor] \in Nat
        BY <2>2, Sups
      <4>2. left[o] > 0
        BY <3>3, <4>1, Budget DEF Lately
      <4> QED BY <2>1, <2>3, <2>4, <4>2 DEF InTime, Pausing
    <3> QED BY <2>1, <3>1, <3>2, <3>3 DEF InTime, Pausing
  <2> QED BY <1>1, <1>4, <2>1, <2>3, <2>4 DEF Clocks, Patient, Calm, Pace
<1> QED BY <1>6, <1>7

(* An operator finds the lock taken: by another one, or by a pass.           *)
LEMMA TurnedAwayTimes ==
  ASSUME LockAssumptions, LockInv, Clocks, NEW p \in Lock!Processes, step[p] = "waiting",
         owner[opened[p]] # Lock!None, UNCHANGED <<Lock!lock, kind, left, Lock!clock, Lock!count>>,
         polled' = polled \cup {p},
         met' = IF owner[opened[p]] = Lock!supervisor THEN met ELSE met \cup {p}
  PROVE  Clocks'
<1>1. UNCHANGED <<step, kind, left, ticker, due, overruns, deaths>>
  BY DEF Lock!lock, Lock!clock, Lock!count
<1>2. Works' <=> Works
  BY <1>1 DEF Works
<1>3. Polling' /\ Entering'
  BY <1>1 DEF Clocks, Polling, Entering
<1>4. Calm => Pace'
  BY <1>1, <1>2, PaceKept DEF Clocks, Patient
<1>5. ASSUME Calm, NEW o \in Operators, Waits(o)' PROVE InTime(o)'
  <2>1. Waits(o) /\ InTime(o)
    BY <1>1, <1>5 DEF Waits, Clocks, Patient
  <2>2. CASE o # p
    BY <1>1, <1>2, <2>1, <2>2, InTimeKept
  <2>3. CASE o = p
    <3>1. owner[opened[p]] = Lock!supervisor
      BY <1>5, <2>3 DEF Waits
    <3>2. opened[p] \in Inodes
      BY DEF LockInv, Lock!TypeOK, OneFile
    <3>3. Works
      BY <3>1, <3>2 DEF LockInv, Owned, Lock!Holds, Works
    <3>4. left[o] \in Nat /\ left[Lock!supervisor] \in Nat /\ left[Lock!supervisor] <= Lock!PassBudget
      BY <1>5, <2>3, <3>3, Sups DEF LockInv, Lock!TypeOK, Clocks, Patient, Pace
    <3>5. Lately(o)
      BY <2>1, <3>3, <3>4, Budget DEF InTime, Lately, Pausing
    <3> QED BY <1>1, <1>2, <3>3, <3>5 DEF InTime, Lately
  <2> QED BY <2>2, <2>3
<1> QED BY <1>1, <1>3, <1>4, <1>5 DEF Clocks, Patient, Calm

LEMMA TickTimes ==
  ASSUME LockAssumptions, LockInv, Clocks, Lock!Tick
  PROVE  Clocks'
<1>1. /\ left' = [p \in Lock!Processes |-> IF left[p] > 0 THEN left[p] - 1 ELSE 0]
      /\ polled' = {} /\ due' = (due \/ ticker = 1)
      /\ ticker' = IF ticker = 1 THEN Interval ELSE IF ticker = 0 THEN 0 ELSE ticker - 1
      /\ UNCHANGED <<step, kind, met, overruns, deaths>>
  BY DEF Lock!Tick, Lock!lock, Lock!count
<1>2. /\ \A p \in Lock!Processes : /\ step[p] \notin {"opening", "checking"}
                                   /\ step[p] = "waiting" => p \in polled
                                   /\ Lock!Deadline(p) => left[p] > 0
      /\ Works \/ (ticker # 0 /\ ~due)
  BY DEF Lock!Tick, Works
<1>3. left \in [Lock!Processes -> Nat] /\ ticker \in Nat /\ due \in BOOLEAN
  BY DEF LockInv, Lock!TypeOK
<1>4. Works' <=> Works
  BY <1>1 DEF Works
<1>5. Polling' /\ Entering'
  BY <1>1, <1>2, Sups DEF Clocks, Polling, Entering
<1>6. left[Lock!supervisor] \in Nat /\ (Works => left'[Lock!supervisor] = left[Lock!supervisor] - 1)
  <2>1. Works => Lock!Deadline(Lock!supervisor)
    BY DEF Works, Lock!Deadline, Clocks, Entering
  <2> QED BY <1>1, <1>2, <1>3, <2>1, Sups
<1>7. ASSUME Calm PROVE Pace' /\ (Works => due' = FALSE) /\ (~Works => ticker # 0 /\ ~due)
  <2>1. Pace
    BY <1>7 DEF Clocks, Patient
  <2>2. CASE Works
    <3>1. ~due /\ left[Lock!supervisor] <= Lock!PassBudget
          /\ (ticker = 0 \/ ticker + Lock!PassBudget = Interval + left[Lock!supervisor])
      BY <2>1, <2>2 DEF Pace
    <3>2. ticker # 1
      BY <1>6, <3>1, Budget
    <3>3. due' = FALSE /\ (ticker' = 0 \/ ticker' = ticker - 1)
      BY <1>1, <3>1, <3>2
    <3>4. left'[Lock!supervisor] <= Lock!PassBudget
      BY <1>6, <2>2, <3>1, Budget
    <3>5. ticker' = 0 \/ ticker' + Lock!PassBudget = Interval + left'[Lock!supervisor]
      BY <1>1, <1>3, <1>6, <2>2, <3>1, <3>2, Budget
    <3> QED BY <1>4, <2>2, <3>3, <3>4, <3>5 DEF Pace
  <2>3. CASE ~Works
    BY <1>1, <1>2, <1>4, <2>3 DEF Pace
  <2> QED BY <2>2, <2>3
<1>8. ASSUME Calm, NEW o \in Operators, Waits(o)' PROVE InTime(o)'
  <2>1. Waits(o) /\ InTime(o) /\ o \in polled /\ o \notin polled'
    BY <1>1, <1>2, <1>8, Sups DEF Waits, Clocks, Patient
  <2>2. Lock!Deadline(o)
    BY <2>1 DEF Waits, Lock!Deadline, Lock!Holds
  <2>3. left[o] \in Nat /\ left'[o] = left[o] - 1
    BY <1>1, <1>2, <1>3, <2>2, Sups
  <2>4. CASE Works
    <3>1. Lately(o)
      BY <2>1, <2>4 DEF InTime, Pausing
    <3>2. Lately(o)'
      BY <1>6, <2>3, <2>4, <3>1, Budget DEF Lately
    <3> QED BY <1>4, <2>4, <3>2 DEF InTime
  <2>5. CASE ~Works
    <3>1. ~due /\ ticker > 1
      BY <2>1, <2>5 DEF InTime, Pausing
    <3>2. ~due' /\ ticker' > 0
      BY <1>1, <1>3, <3>1
    <3> QED BY <1>4, <2>1, <2>5, <3>2 DEF InTime, Pausing
  <2> QED BY <2>4, <2>5
<1> QED BY <1>1, <1>5, <1>7, <1>8 DEF Clocks, Patient, Calm

(* Once an operation overran or died, nothing is promised of the waits.      *)
LEMMA DisturbedTimes ==
  ASSUME LockAssumptions, LockInv, Clocks, Lock!Overrun \/ \E p \in Lock!Processes : Lock!Die(p)
  PROVE  Clocks'
<1>1. overruns \in Nat /\ deaths \in Nat /\ DOMAIN step = Lock!Processes /\ DOMAIN left = Lock!Processes
      /\ polled \subseteq Lock!Processes
  BY DEF LockInv, Lock!TypeOK
<1>2. CASE Lock!Overrun
  <2>1. /\ step' = [step EXCEPT ![Lock!supervisor] = "recovering"] /\ step[Lock!supervisor] = "holding"
        /\ left' = [left EXCEPT ![Lock!supervisor] = Patience]
        /\ overruns' = overruns + 1 /\ UNCHANGED <<kind, polled, deaths>>
    BY <1>2 DEF Lock!Overrun
  <2>2. ~Calm'
    BY <1>1, <2>1 DEF Calm
  <2>3. Polling' /\ Entering'
    BY <1>1, <2>1, Sups DEF Clocks, Polling, Entering
  <2> QED BY <2>2, <2>3 DEF Clocks, Patient
<1>3. ASSUME NEW p \in Lock!Processes, Lock!Die(p) PROVE Clocks'
  <2>1. /\ step' = [step EXCEPT ![p] = "idle"] /\ polled' = polled \ {p}
        /\ deaths' = deaths + 1 /\ UNCHANGED <<kind, left, overruns>>
    BY <1>3 DEF Lock!Die
  <2>2. ~Calm'
    BY <1>1, <2>1 DEF Calm
  <2>3. Polling' /\ Entering'
    BY <1>1, <2>1, Sups DEF Clocks, Polling, Entering
  <2> QED BY <2>2, <2>3 DEF Clocks, Patient
<1> QED BY <1>2, <1>3

LEMMA StepTimes ==
  ASSUME LockAssumptions, LockInv, Clocks, NEW p \in Lock!Processes, Lock!Step(p)
  PROVE  Clocks'
<1>1. step[p] # "waiting" => p \notin polled
  BY DEF Clocks, Polling
<1>2. CASE Lock!Open(p)
  BY <1>1, <1>2, GoingOnTimes DEF Lock!Open, Lock!clock, Lock!count
<1>3. CASE Lock!Check(p)
  <2>1. CASE opened[p] = path
    BY <1>1, <1>3, <2>1, GoingOnTimes DEF Lock!Check, Lock!count
  <2>2. CASE opened[p] # path
    BY <1>3, <2>2, EndsTimes DEF Lock!Check
  <2> QED BY <2>1, <2>2
<1>4. CASE Lock!Poll(p)
  <2>1. CASE owner[opened[p]] = Lock!None
    BY <1>4, <2>1, GoingOnTimes DEF Lock!Poll, Lock!clock, Lock!count
  <2>2. CASE owner[opened[p]] # Lock!None
    BY <1>4, <2>2, TurnedAwayTimes DEF Lock!Poll, Lock!lock
  <2> QED BY <2>1, <2>2
<1>5. CASE Lock!TimeOut(p)
  BY <1>5, EndsTimes DEF Lock!TimeOut
<1> QED BY <1>2, <1>3, <1>4, <1>5 DEF Lock!Step

LEMMA ClocksNext == LockAssumptions /\ LockInv /\ Clocks /\ [Lock!Next]_(Lock!vars) => Clocks'
<1> SUFFICES ASSUME LockAssumptions, LockInv, Clocks, [Lock!Next]_(Lock!vars) PROVE Clocks'
  OBVIOUS
<1>1. ASSUME NEW p \in Lock!Processes, Lock!Release(p) PROVE Clocks'
  BY <1>1, EndsTimes DEF Lock!Release, Lock!Holds
<1>2. CASE UNCHANGED Lock!vars
  BY <1>2 DEF Lock!vars, Lock!lock, Lock!clock, Lock!count, Clocks, Polling, Entering, Patient, Calm, Pace,
              Works, Waits, InTime, Lately, Pausing
<1> QED
  BY <1>1, <1>2, BeginCommandTimes, BeginPassTimes, StepTimes, TickTimes, DisturbedTimes DEF Lock!Next

(* Nobody who met no other operator is still waiting when patience ends.     *)
LEMMA NotRefused ==
  ASSUME LockAssumptions, LockInv, Clocks, NEW o \in Operators, Lock!TimeOut(o), kind[o] = "lifecycle"
  PROVE  o \in met \/ overruns + deaths > 0
<1> SUFFICES ASSUME o \notin met, Calm PROVE FALSE
  BY DEF LockInv, Lock!TypeOK, Calm
<1>1. Waits(o) /\ o \in polled /\ left[o] = 0
  BY DEF Lock!TimeOut, Waits
<1>2. InTime(o) /\ Pace
  BY <1>1 DEF Clocks, Patient
<1>3. left[Lock!supervisor] \in Nat
  BY Sups DEF LockInv, Lock!TypeOK
<1> QED BY <1>1, <1>2, <1>3, Budget DEF InTime, Lately

(* An operator's lifecycle command that gives up on the lock met another     *)
(* operator's: the passes of the supervisor, whose budget                    *)
(* haSupervisorReconcileTimeout cuts below haRuntimeOperationTimeout, never  *)
(* use up its patience, for any interval and any number of operators, unless *)
(* a pass overran its deadline or a process died.                            *)
THEOREM OperatorsAdmitted == LockAssumptions /\ Lock!Spec => Lock!OperatorAdmitted
<1>1. LockAssumptions /\ Lock!Init => LockInv /\ Clocks
  BY LockInitInv, ClocksInit
<1>2. LockAssumptions /\ LockInv /\ Clocks /\ [Lock!Next]_(Lock!vars) => LockInv' /\ Clocks'
  BY LockNextInv, ClocksNext
<1>3. LockAssumptions /\ LockInv /\ Clocks
        => [\A o \in Operators :
              Lock!TimeOut(o) /\ kind[o] = "lifecycle" => o \in met \/ overruns + deaths > 0]_(Lock!vars)
  BY NotRefused
<1>4. LockAssumptions => LockAssumptions'
  OBVIOUS
<1> QED BY <1>1, <1>2, <1>3, <1>4, PTL DEF Lock!Spec, Lock!OperatorAdmitted
=============================================================================
