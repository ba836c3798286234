------------------------ MODULE HAEtcdTopology_proofs ------------------------
(***************************************************************************)
(* Proofs about HAEtcdTopology, for any servers, clusters and number of    *)
(* changes.  The servers of one cluster only ever name servers of that     *)
(* cluster, so two that name each other belong together: the answers need  *)
(* not be of one moment for that.  While a request is calm the answers are *)
(* still true when the target goes down, and three servers of which two    *)
(* are known to vote leave no room for another majority.                   *)
(***************************************************************************)
EXTENDS HAEtcdTopology, FiniteSetTheorems, TLAPS

Apart == \A m, n \in Members : serves[m] = serves[n] => m = n

Lineage == \A k \in Clusters : \A s \in In(config[k]) : Cluster[s] = k

(* An answer is of the member's server and names its own kind.               *)
Truthful ==
  pc # "idle" => \A m \in Members : report[m] # None =>
    /\ report[m].id = serves[m]
    /\ \A x \in report[m].peers : Cluster[x] = Cluster[serves[m]]

AllSettled == \A k \in Clusters : Settled(k)

(* The answer of m is still what its server would say.                       *)
Current(m) ==
  LET c == config[Cluster[serves[m]]] IN
  /\ m \in up /\ serves[m] \in c.voters
  /\ report[m].peers = In(c) \ {serves[m]} /\ Cardinality(report[m].peers) = 2

Lasting ==
  pc # "idle" /\ calm =>
    /\ AllSettled
    /\ \A m \in Members : report[m] # None => Current(m)

Granted == pc = "act" => todo = {} /\ Agrees

IInv == TypeOK /\ Apart /\ Lineage /\ Truthful /\ Lasting /\ Granted

ServerTypes == serves \in [Members -> Servers] /\ Apart /\ Lineage

------------------------------------------------------------------------------
LEMMA ClusterType == \A s \in Servers : Cluster[s] \in Clusters
  BY DEF Clusters

LEMMA InitInv == Init => IInv
<1> SUFFICES ASSUME Init PROVE IInv
  OBVIOUS
<1>1. \A k \in Clusters : config[k] \in Configs /\ \A s \in In(config[k]) : Cluster[s] = k
  BY DEF Init, Founding
<1>2. \A s \in Servers : view[s] = config[Cluster[s]]
  BY DEF Init
<1>3. view \in [Servers -> Configs] /\ \A s \in Servers : \A x \in In(view[s]) : Cluster[x] = Cluster[s]
  BY <1>1, <1>2, ClusterType DEF Init
<1>4. config \in [Clusters -> Configs]
  BY DEF Init, Founding
<1>5. op \in [kind : Kinds, target : Members] /\ changes \in 0..MaxChanges
  BY BoundAssumption DEF Init, Kinds
<1>6. serves \in [Members -> Servers] /\ Apart
  BY DEF Init, Apart
<1>7. TypeOK
  BY <1>3, <1>4, <1>5, <1>6 DEF Init, TypeOK
<1> QED BY <1>1, <1>6, <1>7 DEF Init, IInv, Lineage, Truthful, Lasting, Granted

(* What holds of APC's state holds as long as only roles change.             *)
LEMMA RolesInv ==
  ASSUME IInv, UNCHANGED <<serves, up, config, view, apc, calm>>,
         leader' \in [Clusters -> Servers \cup {None}], leads' \subseteq Running,
         hears' \subseteq Running, changes' \in 0..MaxChanges,
         \A s \in hears' \ hears : s \in In(config[Cluster[s]])
  PROVE  IInv'
<1>1. TypeOK'
  BY DEF IInv, TypeOK, apc, Running, Probed
<1>2. Apart' /\ Lineage' /\ Truthful'
  BY DEF IInv, Apart, Lineage, Truthful, apc
<1>3. AllSettled => AllSettled'
  BY DEF AllSettled, Settled, Running
<1>4. Lasting'
  BY <1>3 DEF IInv, Lasting, Current, apc
<1>5. Granted'
  BY DEF IInv, Granted, Agrees, TopologyAgrees, QuorumAgrees, Distinct, Ids, Leaders, apc
<1> QED BY <1>1, <1>2, <1>4, <1>5 DEF IInv

LEMMA ElectInv == ASSUME IInv, NEW s \in Servers, Elect(s) PROVE IInv'
<1>1. s \in Running /\ s \in In(config[Cluster[s]]) /\ Cluster[s] \in Clusters
  BY ClusterType DEF Elect, In
<1>2. changes' \in 0..MaxChanges
  BY BoundAssumption DEF Elect, IInv, TypeOK
<1>3. leader' \in [Clusters -> Servers \cup {None}]
  BY <1>1 DEF Elect, IInv, TypeOK
<1>4. leads' \subseteq Running /\ hears' \subseteq Running
  BY <1>1 DEF Elect, IInv, TypeOK
<1>5. UNCHANGED <<serves, up, config, view, apc, calm>> /\ hears' \ hears \subseteq {s}
  BY DEF Elect
<1> QED BY <1>1, <1>2, <1>3, <1>4, <1>5, RolesInv

LEMMA StepDownInv == ASSUME IInv, NEW s \in Servers, StepDown(s) PROVE IInv'
  BY RolesInv DEF StepDown, IInv, TypeOK

LEMMA ForgetInv == ASSUME IInv, NEW s \in Servers, Forget(s) PROVE IInv'
  BY RolesInv DEF Forget, IInv, TypeOK

LEMMA FollowInv == ASSUME IInv, NEW s \in Servers, Follow(s) PROVE IInv'
<1> DEFINE k == Cluster[s]
<1>1. /\ k \in Clusters /\ s \in Running /\ s \in In(config[k])
      /\ hears' = hears \cup {s} /\ view' = [view EXCEPT ![s] = config[k]]
      /\ UNCHANGED <<serves, up, config, leader, leads, changes, apc, calm>>
  BY ClusterType DEF Follow
<1>2. view' \in [Servers -> Configs] /\ config[k] \in Configs
  BY <1>1 DEF IInv, TypeOK
<1>3. \A r \in Servers : view'[r] = IF r = s THEN config[k] ELSE view[r]
  BY <1>1 DEF IInv, TypeOK
<1>4. \A r \in Servers : \A x \in In(view'[r]) : Cluster[x] = Cluster[r]
  BY <1>1, <1>3 DEF IInv, TypeOK, Lineage
<1>5. TypeOK'
  BY <1>1, <1>2, <1>4 DEF IInv, TypeOK, apc, Running, Probed
<1>6. Apart' /\ Lineage' /\ Truthful'
  BY <1>1 DEF IInv, Apart, Lineage, Truthful, apc
<1>7. Running \subseteq Servers
  BY DEF Running, IInv, TypeOK
<1>8. AllSettled => AllSettled'
  BY <1>1, <1>3, <1>7 DEF AllSettled, Settled, Running
<1>9. Lasting'
  BY <1>1, <1>8 DEF IInv, Lasting, Current, apc
<1>10. Granted'
  BY <1>1 DEF IInv, Granted, Agrees, TopologyAgrees, QuorumAgrees, Distinct, Ids, Leaders, apc
<1> QED BY <1>5, <1>6, <1>9, <1>10 DEF IInv

LEMMA ReturnInv == ASSUME IInv, NEW m \in Members, Return(m) PROVE IInv'
<1>1. /\ up' = up \cup {m}
      /\ UNCHANGED <<serves, config, view, leader, leads, hears, changes, apc>>
  BY DEF Return
<1>2. calm' => calm /\ (serves[m] \in In(config[Cluster[serves[m]]]) =>
                        view[serves[m]] = config[Cluster[serves[m]]])
  BY DEF Return
<1>3. calm' \in BOOLEAN
  BY DEF Return
<1>4. Running' = Running \cup {serves[m]} /\ serves[m] \notin Running /\ serves[m] \notin hears
  BY <1>1 DEF Return, Running, IInv, Apart, TypeOK
<1>5. TypeOK'
  BY <1>1, <1>3, <1>4 DEF IInv, TypeOK, apc, Probed
<1>6. Apart' /\ Lineage' /\ Truthful'
  BY <1>1 DEF IInv, Apart, Lineage, Truthful, apc
<1>7. AllSettled /\ calm' => AllSettled'
  BY <1>1, <1>2, <1>4 DEF AllSettled, Settled
<1>8. Lasting'
  BY <1>1, <1>2, <1>7 DEF IInv, Lasting, Current, apc
<1>9. Granted'
  BY <1>1 DEF IInv, Granted, Agrees, TopologyAgrees, QuorumAgrees, Distinct, Ids, Leaders, apc
<1> QED BY <1>5, <1>6, <1>8, <1>9 DEF IInv

------------------------------------------------------------------------------
(* The typing of a step in which a server goes down.                         *)
LEMMA ExitedTypes ==
  ASSUME IInv, NEW m \in Members, Exited(m)
  PROVE  /\ up' \subseteq Members /\ leader' \in [Clusters -> Servers \cup {None}]
         /\ leads' \subseteq Running' /\ hears' \subseteq Running'
         /\ UNCHANGED <<serves, config, view>>
<1>1. Running' = Running \ {serves[m]}
  BY DEF Exited, Running, IInv, TypeOK, Apart
<1> QED BY <1>1 DEF Exited, IInv, TypeOK

LEMMA ExitInv == ASSUME IInv, NEW m \in Members, Exit(m) PROVE IInv'
<1>1. UNCHANGED <<serves, config, view, apc>> /\ calm' = FALSE
  BY DEF Exit, Exited
<1>2. changes' \in 0..MaxChanges
  BY BoundAssumption DEF Exit, IInv, TypeOK
<1>3. TypeOK'
  BY <1>1, <1>2, ExitedTypes DEF Exit, IInv, TypeOK, apc, Probed
<1>4. Apart' /\ Lineage' /\ Truthful' /\ Lasting'
  BY <1>1 DEF IInv, Apart, Lineage, Truthful, Lasting, apc
<1>5. Granted'
  BY <1>1 DEF IInv, Granted, Agrees, TopologyAgrees, QuorumAgrees, Distinct, Ids, Leaders, apc
<1> QED BY <1>3, <1>4, <1>5 DEF IInv

LEMMA ActInv == ASSUME IInv, Act PROVE IInv'
<1>1. /\ op.target \in Members /\ Exited(op.target) /\ pc' = "idle"
      /\ UNCHANGED <<changes, op, todo, report, calm>>
  BY DEF Act, IInv, TypeOK
<1>2. UNCHANGED <<serves, config, view>>
  BY <1>1 DEF Exited
<1>3. TypeOK'
  BY <1>1, <1>2, ExitedTypes DEF IInv, TypeOK
<1> QED BY <1>1, <1>2, <1>3 DEF IInv, Apart, Lineage, Truthful, Lasting, Granted

LEMMA ReconfigureInv == ASSUME IInv, NEW k \in Clusters, Reconfigure(k) PROVE IInv'
<1>1. PICK c \in Next1(config[k], leader[k], k), q \in SUBSET Running :
        /\ q \subseteq c.voters /\ config' = [config EXCEPT ![k] = c]
        /\ view' = [s \in Servers |-> IF s \in q THEN c ELSE view[s]]
  BY DEF Reconfigure
<1>2. /\ changes' \in 0..MaxChanges /\ calm' = FALSE
      /\ UNCHANGED <<serves, up, leader, leads, hears, apc>>
  BY BoundAssumption DEF Reconfigure, IInv, TypeOK
<1>3. config[k] \in Configs /\ \A s \in In(config[k]) : Cluster[s] = k
  BY DEF IInv, TypeOK, Lineage
<1>4. c \in Configs /\ \A s \in In(c) : Cluster[s] = k
  <2>1. In(config[k]) \subseteq Servers
    BY <1>3 DEF Configs, In
  <2>2. CASE \E s \in {r \in Servers : Cluster[r] = k} : c = [config[k] EXCEPT !.learners = @ \cup {s}]
    BY <1>3, <2>2 DEF Configs, In
  <2>3. CASE \E s \in config[k].learners :
               c = [voters |-> config[k].voters \cup {s}, learners |-> config[k].learners \ {s}]
    BY <1>3, <2>3 DEF Configs, In
  <2>4. CASE \E s \in In(config[k]) :
               c = [voters |-> config[k].voters \ {s}, learners |-> config[k].learners \ {s}]
    BY <1>3, <2>4 DEF Configs, In
  <2> QED BY <1>1, <2>2, <2>3, <2>4 DEF Next1
<1>5. config' \in [Clusters -> Configs] /\ Lineage'
  BY <1>1, <1>4 DEF IInv, TypeOK, Lineage
<1>6. \A s \in Servers : view'[s] \in Configs /\ \A x \in In(view'[s]) : Cluster[x] = Cluster[s]
  <2> SUFFICES ASSUME NEW s \in Servers
               PROVE  view'[s] \in Configs /\ \A x \in In(view'[s]) : Cluster[x] = Cluster[s]
    OBVIOUS
  <2>1. CASE s \in q
    <3>1. view'[s] = c /\ s \in In(c)
      BY <1>1, <2>1 DEF In
    <3> QED BY <3>1, <1>4
  <2>2. CASE s \notin q
    BY <1>1, <2>2 DEF IInv, TypeOK
  <2> QED BY <2>1, <2>2
<1>7. view' \in [Servers -> Configs]
  BY <1>1, <1>6
<1>8. TypeOK'
  <2>1. \A s \in Servers : \A x \in In(view'[s]) : Cluster[x] = Cluster[s]
    BY <1>6
  <2>2. Running' = Running /\ Probed(op.kind, op.target)' = Probed(op.kind, op.target)
    BY <1>2 DEF Running, Probed, apc
  <2>3. /\ (leads \subseteq Running)' /\ (hears \subseteq Running)'
        /\ (serves \in [Members -> Servers])' /\ (up \subseteq Members)'
        /\ (leader \in [Clusters -> Servers \cup {None}])' /\ (changes \in 0..MaxChanges)'
    BY <1>2, <2>2 DEF IInv, TypeOK
  <2> QED BY <1>2, <1>5, <1>7, <2>1, <2>2, <2>3 DEF IInv, TypeOK, apc
<1>9. Apart' /\ Truthful' /\ Lasting'
  BY <1>2 DEF IInv, Apart, Truthful, Lasting, apc
<1>10. Granted'
  BY <1>2 DEF IInv, Granted, Agrees, TopologyAgrees, QuorumAgrees, Distinct, Ids, Leaders, apc
<1> QED BY <1>5, <1>8, <1>9, <1>10 DEF IInv

------------------------------------------------------------------------------
LEMMA AskInv == ASSUME IInv, NEW kind \in Kinds, NEW t \in Members, Ask(kind, t) PROVE IInv'
<1>1. /\ pc' = "probe" /\ op' = [kind |-> kind, target |-> t] /\ todo' = Probed(kind, t)
      /\ report' = [m \in Members |-> None] /\ calm' = AllSettled
      /\ UNCHANGED <<serves, up, config, view, leader, leads, hears, changes>>
  BY DEF Ask, AllSettled, etcd
<1>2. todo' \subseteq Members /\ calm' \in BOOLEAN
  BY <1>1 DEF Probed, AllSettled
<1>3. TypeOK'
  BY <1>1, <1>2 DEF IInv, TypeOK, Running
<1>4. Apart' /\ Lineage' /\ Truthful' /\ Granted'
  BY <1>1 DEF IInv, Apart, Lineage, Truthful, Granted
<1>5. Lasting'
  <2>1. AllSettled' <=> AllSettled
    BY <1>1 DEF AllSettled, Settled, Running
  <2>2. calm' => AllSettled'
    BY <1>1, <2>1
  <2> QED BY <1>1, <2>2 DEF Lasting
<1> QED BY <1>3, <1>4, <1>5 DEF IInv

LEMMA RefuseInv == ASSUME IInv, Refuse PROVE IInv'
<1>1. pc' = "idle" /\ UNCHANGED <<serves, up, config, view, leader, leads, hears, changes, calm, op, todo, report>>
  BY DEF Refuse, etcd
<1> QED BY <1>1 DEF IInv, TypeOK, Running, Apart, Lineage, Truthful, Lasting, Granted

LEMMA AnswerInv ==
  ASSUME IInv, NEW m \in todo, pc = "probe", Healthy(m),
         todo' = todo \ {m}, UNCHANGED <<etcd, calm, pc, op>>,
         report' = [report EXCEPT ![m] =
           [id |-> serves[m], leads |-> serves[m] \in leads, peers |-> Peers(serves[m])]]
  PROVE  IInv'
<1> DEFINE s == serves[m]
           r == [id |-> s, leads |-> s \in leads, peers |-> Peers(s)]
<1>1. m \in Members /\ s \in Servers /\ Cluster[s] \in Clusters
  BY ClusterType DEF IInv, TypeOK
<1>2. UNCHANGED <<serves, up, config, view, leader, leads, hears, changes, calm, pc, op>>
  BY DEF etcd
<1>3. Peers(s) \subseteq Servers /\ \A x \in Peers(s) : Cluster[x] = Cluster[s]
  BY <1>1 DEF Peers, In, IInv, TypeOK, Configs
<1>4. r \in Reports
  BY <1>1, <1>3 DEF Reports
<1>5. r # None /\ r.id = s /\ r.peers = Peers(s)
  BY <1>4, NoneAssumption
<1>6. report'[m] = r /\ \A n \in Members \ {m} : report'[n] = report[n]
  BY <1>1 DEF IInv, TypeOK
<1>7. report' \in [Members -> Reports \cup {None}]
  BY <1>1, <1>4 DEF IInv, TypeOK
<1> HIDE DEF r
<1>8. \A n \in Members : report'[n] # None <=> n \in Probed(op.kind, op.target) \ todo'
  <2>1. todo \subseteq Probed(op.kind, op.target)
    BY DEF IInv, TypeOK
  <2> QED BY <1>5, <1>6, <2>1 DEF IInv, TypeOK
<1>9. TypeOK'
  BY <1>2, <1>7, <1>8 DEF IInv, TypeOK, Running, Probed
<1>10. Apart' /\ Lineage' /\ Granted'
  BY <1>2 DEF IInv, Apart, Lineage, Granted
<1>11. Truthful'
  BY <1>2, <1>3, <1>5, <1>6 DEF IInv, Truthful
<1>12. Lasting'
  <2> SUFFICES ASSUME calm PROVE AllSettled' /\ \A n \in Members : report'[n] # None => Current(n)'
    BY <1>2 DEF Lasting
  <2>1. AllSettled /\ AllSettled'
    BY <1>2 DEF IInv, Lasting, AllSettled, Settled, Running
  <2>2. Current(m)'
    <3>1. m \in up /\ s \in Running /\ s \in hears
      BY DEF Healthy, Running
    <3>2. s \in In(config[Cluster[s]]) /\ view[s] = config[Cluster[s]]
      BY <1>1, <2>1, <3>1 DEF AllSettled, Settled
    <3>3. s \in config[Cluster[s]].voters
      BY <3>2 DEF Healthy, In
    <3>4. Cardinality(Peers(s)) = 2
      BY ThreeAssumption DEF Healthy
    <3> QED BY <1>2, <1>5, <1>6, <3>1, <3>2, <3>3, <3>4 DEF Current, Peers
  <2>3. \A n \in Members \ {m} : report'[n] # None => Current(n)'
    BY <1>2, <1>6 DEF IInv, Lasting, Current
  <2> QED BY <2>1, <2>2, <2>3
<1> QED BY <1>9, <1>10, <1>11, <1>12 DEF IInv

LEMMA ProbeInv == ASSUME IInv, Probe PROVE IInv'
<1>1. PICK m \in todo :
        \/ /\ Healthy(m) /\ todo' = todo \ {m} /\ UNCHANGED <<etcd, calm, pc, op>>
           /\ report' = [report EXCEPT ![m] =
                [id |-> serves[m], leads |-> serves[m] \in leads, peers |-> Peers(serves[m])]]
        \/ Refuse
  BY DEF Probe
<1>2. pc = "probe"
  BY DEF Probe
<1> QED BY <1>1, <1>2, AnswerInv, RefuseInv

LEMMA JudgeInv == ASSUME IInv, Judge PROVE IInv'
<1>1. CASE Refuse
  BY <1>1, RefuseInv
<1>2. CASE Agrees /\ pc' = "act" /\ UNCHANGED <<etcd, calm, op, todo, report>>
  <2>1. /\ pc = "probe" /\ todo = {}
        /\ UNCHANGED <<serves, up, config, view, leader, leads, hears, changes, calm, op, todo, report>>
    BY <1>2 DEF Judge, etcd
  <2>2. TypeOK'
    BY <1>2, <2>1 DEF IInv, TypeOK, Running, Probed
  <2>3. Apart' /\ Lineage' /\ Truthful'
    BY <1>2, <2>1 DEF IInv, Apart, Lineage, Truthful
  <2>4. Lasting'
    BY <1>2, <2>1 DEF IInv, Lasting, AllSettled, Settled, Running, Current
  <2>5. Granted'
    BY <1>2, <2>1 DEF Granted, Agrees, TopologyAgrees, QuorumAgrees, Distinct, Ids, Leaders
  <2> QED BY <2>2, <2>3, <2>4, <2>5 DEF IInv
<1> QED BY <1>1, <1>2 DEF Judge

LEMMA StutterInv == ASSUME IInv, UNCHANGED vars PROVE IInv'
<1>1. UNCHANGED <<serves, up, config, view, leader, leads, hears, changes, pc, op, todo, report, calm>>
  BY DEF vars, etcd, apc
<1>2. TypeOK'
  BY <1>1 DEF IInv, TypeOK, Running, Probed
<1>3. Apart' /\ Lineage' /\ Truthful'
  BY <1>1 DEF IInv, Apart, Lineage, Truthful
<1>4. Lasting'
  BY <1>1 DEF IInv, Lasting, AllSettled, Settled, Running, Current
<1>5. Granted'
  BY <1>1 DEF IInv, Granted, Agrees, TopologyAgrees, QuorumAgrees, Distinct, Ids, Leaders
<1> QED BY <1>2, <1>3, <1>4, <1>5 DEF IInv

LEMMA Invariance == Spec => []IInv
<1>1. Init => IInv
  BY InitInv
<1>2. IInv /\ [Next]_vars => IInv'
  <2> SUFFICES ASSUME IInv, [Next]_vars PROVE IInv'
    OBVIOUS
  <2>1. CASE \E m \in Members : Exit(m) \/ Return(m)
    BY <2>1, ExitInv, ReturnInv
  <2>2. CASE \E s \in Servers : Elect(s) \/ StepDown(s) \/ Follow(s) \/ Forget(s)
    BY <2>2, ElectInv, StepDownInv, FollowInv, ForgetInv
  <2>3. CASE \E k \in Clusters : Reconfigure(k)
    BY <2>3, ReconfigureInv
  <2>4. CASE \E kind \in Kinds, t \in Members : Ask(kind, t)
    BY <2>4, AskInv
  <2>5. CASE Probe \/ Judge \/ Act
    BY <2>5, ProbeInv, JudgeInv, ActInv
  <2>6. CASE UNCHANGED vars
    BY <2>6, StutterInv
  <2> QED BY <2>1, <2>2, <2>3, <2>4, <2>5, <2>6 DEF Next, Environment
<1> QED BY <1>1, <1>2, PTL DEF Spec

------------------------------------------------------------------------------
(* What the answers say of the servers once a stop is granted.               *)
LEMMA GrantedAnswers ==
  ASSUME IInv, pc = "act"
  PROVE  /\ op.target \in Members /\ Members \ {op.target} \subseteq Probed(op.kind, op.target)
         /\ \A m \in Probed(op.kind, op.target) :
              m \in Members /\ report[m] # None /\ report[m].id = serves[m]
         /\ \A m, n \in Probed(op.kind, op.target) : m # n =>
              /\ report[m].id # report[n].id /\ report[m].id \in report[n].peers
              /\ Cluster[report[m].id] = Cluster[report[n].id]
<1> DEFINE p == Probed(op.kind, op.target)
<1>1. op.target \in Members /\ op.kind \in Kinds /\ todo = {} /\ Agrees
  BY DEF IInv, TypeOK, Granted
<1>2. p \subseteq Members /\ Members \ {op.target} \subseteq p
  BY DEF Probed
<1>3. \A m \in p : report[m] # None /\ report[m].id = serves[m]
  BY <1>1, <1>2 DEF IInv, TypeOK, Truthful
<1>4. \A m, n \in p : m # n => report[m].id # report[n].id
  BY <1>2, <1>3 DEF IInv, Apart
<1>5. \A m, n \in p : m # n => report[m].id \in report[n].peers
  <2>1. CASE op.kind = "stop"
    BY <1>1, <1>2, <1>4, <2>1 DEF Agrees, TopologyAgrees, Ids, Probed
  <2>2. CASE op.kind # "stop"
    BY <1>1, <2>2 DEF Agrees, QuorumAgrees, Probed
  <2> QED BY <2>1, <2>2
<1>6. \A m, n \in p : m # n => Cluster[report[m].id] = Cluster[report[n].id]
  BY <1>2, <1>3, <1>5 DEF IInv, Truthful
<1> QED BY <1>1, <1>2, <1>3, <1>4, <1>5, <1>6

(* The two members beside another one.                                       *)
LEMMA TwoOthers ==
  ASSUME NEW t \in Members
  PROVE  \E m, n \in Members \ {t} : m # n /\ Members \ {t} = {m, n}
<1>1. IsFiniteSet(Members \ {t}) /\ Cardinality(Members \ {t}) = 2
  BY MembersAssumption, ThreeAssumption, FS_RemoveElement
<1>2. PICK m \in Members \ {t} : TRUE
  BY <1>1, FS_EmptySet
<1>3. IsFiniteSet((Members \ {t}) \ {m}) /\ Cardinality((Members \ {t}) \ {m}) = 1
  BY <1>1, <1>2, FS_RemoveElement
<1>4. PICK n : (Members \ {t}) \ {m} = {n}
  BY <1>3, FS_Singleton
<1> QED BY <1>2, <1>4

(* Two voters of a configuration of three servers are a majority of it.      *)
LEMMA TwoOfThree ==
  ASSUME NEW c \in Configs, NEW s \in c.voters, NEW r \in c.voters, s # r,
         Cardinality(In(c) \ {s}) = 2
  PROVE  IsMajority({s, r}, c)
<1>1. In(c) \subseteq Servers /\ IsFiniteSet(In(c)) /\ c.voters \subseteq In(c)
  <2>1. In(c) \subseteq Servers /\ c.voters \subseteq In(c)
    BY DEF Configs, In
  <2> QED BY <2>1, ServersAssumption, FS_Subset
<1>2. Cardinality(In(c)) = 3
  <2>1. IsFiniteSet(In(c) \ {s}) /\ Cardinality(In(c) \ {s}) = Cardinality(In(c)) - 1
    BY <1>1, FS_RemoveElement
  <2>2. Cardinality(In(c)) \in Nat
    BY <1>1, FS_CardinalityType
  <2> QED BY <2>1, <2>2
<1>3. Cardinality(c.voters) \in Nat /\ Cardinality(c.voters) <= 3
  BY <1>1, <1>2, FS_Subset, FS_CardinalityType
<1>4. {s, r} \cap c.voters = {s, r} /\ Cardinality({s, r}) = 2
  <2>1. IsFiniteSet({s}) /\ Cardinality({s}) = 1
    BY FS_Singleton
  <2>2. Cardinality({s} \cup {r}) = 2
    <3>1. r \notin {s}
      OBVIOUS
    <3>2. Cardinality({s} \cup {r}) = Cardinality({s}) + 1
      BY <2>1, <3>1, FS_AddElement
    <3> QED BY <2>1, <3>2
  <2>3. {s} \cup {r} = {s, r}
    OBVIOUS
  <2> QED BY <2>2, <2>3
<1> QED BY <1>3, <1>4 DEF IsMajority

------------------------------------------------------------------------------
(* The type invariant: above all, a request has exactly the answers of the   *)
(* members it has probed.                                                    *)
THEOREM EtcdTypeCorrect == Spec => []TypeOK
<1>1. IInv => TypeOK
  BY DEF IInv
<1> QED BY <1>1, Invariance, PTL

(* No mixture of clusters passes for a quorum, however the etcd servers'     *)
(* roles and memberships change while they are asked.                        *)
THEOREM NoMixedQuorum == Spec => []OneCluster
<1>1. IInv => OneCluster
  BY GrantedAnswers DEF OneCluster
<1> QED BY <1>1, Invariance, PTL

(* A granted stop leaves a running majority of voters, if no server exited   *)
(* and the membership was settled since the request.                         *)
THEOREM StopKeepsMajority == Spec => []MajorityProven
<1>1. IInv => MajorityProven
  <2> SUFFICES ASSUME IInv, pc = "act", calm
               PROVE  LET stay == Members \ {op.target} IN
                      /\ stay \subseteq up
                      /\ \E k \in Clusters : /\ \A m \in stay : serves[m] \in config[k].voters
                                             /\ IsMajority({serves[m] : m \in stay}, config[k])
    BY DEF MajorityProven
  <2> DEFINE stay == Members \ {op.target}
  <2>1. op.target \in Members /\ \A m \in stay : m \in Members /\ report[m] # None /\ report[m].id = serves[m]
    BY GrantedAnswers
  <2>2. \A m \in stay : Current(m)
    BY <2>1 DEF IInv, Lasting
  <2>3. PICK m \in stay, n \in stay : m # n /\ stay = {m, n}
    BY <2>1, TwoOthers
  <2> DEFINE k == Cluster[serves[m]]
  <2>4. k = Cluster[serves[n]] /\ serves[m] # serves[n]
    BY <2>1, <2>3, GrantedAnswers
  <2>5. k \in Clusters /\ config[k] \in Configs
    BY <2>1, <2>3, ClusterType DEF IInv, TypeOK
  <2>6. /\ m \in up /\ n \in up
        /\ serves[m] \in config[k].voters /\ serves[n] \in config[k].voters
        /\ Cardinality(In(config[k]) \ {serves[m]}) = 2
    BY <2>2, <2>3, <2>4 DEF Current
  <2>7. IsMajority({serves[m], serves[n]}, config[k])
    BY <2>4, <2>5, <2>6, TwoOfThree
  <2>8. {serves[i] : i \in stay} = {serves[m], serves[n]}
    BY <2>3
  <2> QED BY <2>3, <2>5, <2>6, <2>7, <2>8
<1> QED BY <1>1, Invariance, PTL
==============================================================================
