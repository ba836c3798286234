--------------------------- MODULE HAEtcdTopology ---------------------------
(***************************************************************************)
(* The proof of quorum that precedes every stop of a server VM that may    *)
(* still vote.  APC asks the etcd server of one VM after the other for its *)
(* health, its role and its peers, compares the answers, and takes a VM    *)
(* down only if they describe one healthy majority.                        *)
(*                                                                         *)
(* The servers belong to etcd clusters whose membership is a configuration *)
(* that a leader changes, one server at a time; a server sees the last     *)
(* configuration it applied.  Elections, changes and exits go on between   *)
(* two answers.  A VM may run a server of another cluster: a restore that  *)
(* was cut leaves such volumes behind (HARecovery).                        *)
(***************************************************************************)
EXTENDS Integers, FiniteSets

CONSTANTS Members,       (* the numbers of the HA members                   *)
          Servers, None, (* etcd server IDs                                 *)
          Cluster,       (* the cluster that each server was made for       *)
          Homes,         (* the servers that each member's volume may hold  *)
          MaxChanges                                               (* bound *)

Clusters == {Cluster[s] : s \in Servers}

Kinds == {"stop", "repair"}

Reports == [id : Servers, leads : BOOLEAN, peers : SUBSET Servers]

ASSUME MembersAssumption == Members \subseteq Nat /\ IsFiniteSet(Members)
ASSUME ThreeAssumption   == Cardinality(Members) = 3
ASSUME ServersAssumption == IsFiniteSet(Servers)
ASSUME HomesAssumption   == \A m \in Members : Homes[m] \subseteq Servers
ASSUME NoneAssumption    == None \notin Servers \cup Reports
ASSUME BoundAssumption   == MaxChanges \in Nat

VARIABLES
  serves,      (* the etcd server in each member's volume                    *)
  up,          (* the members whose server runs and answers                  *)
  config,      (* the newest configuration of each cluster                   *)
  view,        (* the configuration that each server applied last            *)
  leader,      (* the leader of each cluster                                 *)
  leads,       (* the servers that hold themselves for the leader            *)
  hears,       (* the servers that know of a leader                          *)
  changes,     (* configuration changes, exits and contested elections       *)
  pc, op,      (* what APC does: a request, the member it takes down         *)
  todo,        (* the members still to be probed                             *)
  report,      (* the answers                                                *)
  calm         (* whether, since the request, no server exited and every     *)
               (* cluster was and stayed settled                             *)

etcd == <<serves, up, config, view, leader, leads, hears, changes>>
apc  == <<pc, op, todo, report>>
vars == <<etcd, apc, calm>>

Configs == [voters : SUBSET Servers, learners : SUBSET Servers]

In(c) == c.voters \cup c.learners

Running == {serves[m] : m \in up}

IsMajority(q, c) == 2 * Cardinality(q \cap c.voters) > Cardinality(c.voters)

(* The running servers of a cluster see its newest configuration, and those  *)
(* that were removed know of no leader.                                      *)
Settled(k) ==
  \A s \in Running : Cluster[s] = k =>
    IF s \in In(config[k]) THEN view[s] = config[k] ELSE s \notin hears

(* The members that a request probes: a repair leaves its target alone.      *)
Probed(kind, t) == IF kind = "stop" THEN Members ELSE Members \ {t}

TypeOK ==
  /\ serves \in [Members -> Servers] /\ up \subseteq Members
  /\ config \in [Clusters -> Configs] /\ view \in [Servers -> Configs]
  /\ \A s \in Servers : \A x \in In(view[s]) : Cluster[x] = Cluster[s]
  /\ leader \in [Clusters -> Servers \cup {None}]
  /\ leads \subseteq Running /\ hears \subseteq Running /\ changes \in 0..MaxChanges
  /\ pc \in {"idle", "probe", "act"} /\ calm \in BOOLEAN
  /\ op \in [kind : Kinds, target : Members] /\ todo \subseteq Members
  /\ report \in [Members -> Reports \cup {None}]
  /\ pc # "idle" =>
       /\ todo \subseteq Probed(op.kind, op.target)
       /\ \A m \in Members : report[m] # None <=> m \in Probed(op.kind, op.target) \ todo

------------------------------------------------------------------------------
(* etcd                                                                      *)

Exited(m) ==
  LET s == serves[m] IN
  /\ up' = up \ {m}
  /\ leader' = [k \in Clusters |-> IF leader[k] = s THEN None ELSE leader[k]]
  /\ leads' = leads \ {s} /\ hears' = hears \ {s}
  /\ UNCHANGED <<serves, config, view>>

(* A server's VM or K3s ends.                                                *)
Exit(m) ==
  /\ m \in up /\ changes < MaxChanges
  /\ Exited(m)
  /\ changes' = changes + 1 /\ calm' = FALSE
  /\ UNCHANGED apc

(* It runs again.                                                            *)
Return(m) ==
  /\ m \notin up
  /\ up' = up \cup {m}
  /\ calm' = (calm /\ (serves[m] \in In(config[Cluster[serves[m]]]) =>
                        view[serves[m]] = config[Cluster[serves[m]]]))
  /\ UNCHANGED <<serves, config, view, leader, leads, hears, changes, apc>>

(* A majority of the voters elects s.  The leader before it, if it still     *)
(* runs, learns of that later.                                               *)
Elect(s) ==
  LET k == Cluster[s] IN
  /\ s \in Running \cap config[k].voters /\ view[s] = config[k] /\ leader[k] # s
  /\ IsMajority(Running, config[k])
  /\ IF leader[k] = None THEN UNCHANGED changes
     ELSE changes < MaxChanges /\ changes' = changes + 1
  /\ leader' = [leader EXCEPT ![k] = s]
  /\ leads' = leads \cup {s} /\ hears' = hears \cup {s}
  /\ UNCHANGED <<serves, up, config, view, apc, calm>>

StepDown(s) ==
  /\ s \in leads /\ leader[Cluster[s]] # s
  /\ leads' = leads \ {s}
  /\ UNCHANGED <<serves, up, config, view, leader, hears, changes, apc, calm>>

(* s hears from the leader and applies what it is sent.                      *)
Follow(s) ==
  LET k == Cluster[s] IN
  /\ s \in Running \cap In(config[k]) /\ leader[k] # None
  /\ hears' = hears \cup {s} /\ view' = [view EXCEPT ![s] = config[k]]
  /\ UNCHANGED <<serves, up, config, leader, leads, changes, apc, calm>>

(* s has not heard from a leader for an election timeout.                    *)
Forget(s) ==
  LET k == Cluster[s] IN
  /\ s \in hears /\ (leader[k] = None \/ s \notin In(config[k]))
  /\ hears' = hears \ {s}
  /\ UNCHANGED <<serves, up, config, view, leader, leads, changes, apc, calm>>

(* The configurations one change away from c that the leader l may propose.  *)
Next1(c, l, k) ==
  LET more == {s \in Servers : Cluster[s] = k} \ In(c)
  IN {[c EXCEPT !.learners = @ \cup {s}] : s \in more}
     \cup {[voters |-> c.voters \cup {s}, learners |-> c.learners \ {s}] : s \in c.learners}
     \cup {[voters |-> c.voters \ {s}, learners |-> c.learners \ {s}] : s \in In(c) \ {l}}

(* The leader of k changes the configuration; a majority of the new one      *)
(* applies it, the others follow.                                            *)
Reconfigure(k) ==
  LET l == leader[k] IN
  /\ l # None /\ view[l] = config[k] /\ changes < MaxChanges
  /\ \E c \in Next1(config[k], l, k), q \in SUBSET Running :
       /\ l \in q /\ q \subseteq c.voters /\ IsMajority(q, c)
       /\ config' = [config EXCEPT ![k] = c]
       /\ view' = [s \in Servers |-> IF s \in q THEN c ELSE view[s]]
  /\ changes' = changes + 1 /\ calm' = FALSE
  /\ UNCHANGED <<serves, up, leader, leads, hears, apc>>

------------------------------------------------------------------------------
(* APC                                                                       *)

Peers(s) == In(view[s]) \ {s}

(* Mutant: a learner passes for a voter. *)
Healthy_Learner(m) ==
  /\ m \in up /\ serves[m] \in hears
  /\ Cardinality(Peers(serves[m])) = Cardinality(Members) - 1

(* What parseHAEtcdLocalState insists on: health, a leader, a vote and       *)
(* exactly two peers.                                                        *)
Healthy(m) ==
  /\ m \in up /\ serves[m] \in hears
  /\ serves[m] \notin view[serves[m]].learners
  /\ Cardinality(Peers(serves[m])) = Cardinality(Members) - 1

(* An operator stops or restarts a member or takes a snapshot ("stop"), or   *)
(* the supervisor restarts one, or enforces its stored stop ("repair").      *)
Ask(kind, t) ==
  /\ pc = "idle"
  /\ pc' = "probe" /\ op' = [kind |-> kind, target |-> t] /\ todo' = Probed(kind, t)
  /\ report' = [m \in Members |-> None]
  /\ calm' = (\A k \in Clusters : Settled(k))
  /\ UNCHANGED etcd

Refuse == pc' = "idle" /\ UNCHANGED <<etcd, calm, op, todo, report>>

(* The next member answers for itself.                                       *)
Probe ==
  /\ pc = "probe" /\ todo # {}
  /\ \E m \in todo :
       /\ \A n \in todo : m <= n
       /\ \/ Healthy(m) /\ todo' = todo \ {m}
             /\ report' = [report EXCEPT ![m] =
                  [id |-> serves[m], leads |-> serves[m] \in leads, peers |-> Peers(serves[m])]]
             /\ UNCHANGED <<etcd, calm, pc, op>>
          \/ ~Healthy(m) /\ Refuse

Ids(p) == {report[m].id : m \in p}

Leaders(p) == {m \in p : report[m].leads}

Distinct(p) == Cardinality(Ids(p)) = Cardinality(p)

(* Every server's peers are exactly the other servers, and one leads.        *)
TopologyAgrees ==
  /\ Distinct(Members)
  /\ \A m \in Members : report[m].peers = Ids(Members) \ {report[m].id}
  /\ Cardinality(Leaders(Members)) = 1

(* Mutant: one of the two has to be the leader. *)
QuorumAgrees_Leader(p) ==
  /\ Distinct(p) /\ Cardinality(Leaders(p)) = 1
  /\ \A m, n \in p : m # n =>
       /\ report[n].id \in report[m].peers
       /\ report[m].peers \ {report[n].id} = report[n].peers \ {report[m].id}

(* Mutant: the third server has to be the same, the other voter need not be  *)
(* a peer. *)
QuorumAgrees_Apart(p) == Distinct(p) /\ Cardinality(Leaders(p)) <= 1

(* The two servers beside the target name each other and the same third one. *)
QuorumAgrees(p) ==
  /\ Distinct(p) /\ Cardinality(Leaders(p)) <= 1
  /\ \A m, n \in p : m # n =>
       /\ report[n].id \in report[m].peers
       /\ report[m].peers \ {report[n].id} = report[n].peers \ {report[m].id}

Agrees == IF op.kind = "stop" THEN TopologyAgrees ELSE QuorumAgrees(Members \ {op.target})

Judge ==
  /\ pc = "probe" /\ todo = {}
  /\ \/ Agrees /\ pc' = "act" /\ UNCHANGED <<etcd, calm, op, todo, report>>
     \/ ~Agrees /\ Refuse

(* The target's VM is stopped.                                               *)
Act ==
  /\ pc = "act" /\ pc' = "idle"
  /\ Exited(op.target)
  /\ UNCHANGED <<changes, op, todo, report, calm>>

------------------------------------------------------------------------------
(* The configurations of one cluster that has a voter.                       *)
Founding ==
  {c \in Configs : /\ c.voters # {} /\ c.voters \cap c.learners = {}
                   /\ \A r, s \in In(c) : Cluster[r] = Cluster[s]}

(* The servers' volumes hold what they may, with any configuration; all run  *)
(* and nobody leads yet.  A cluster without a majority of its voters here    *)
(* never gets a leader, so that one such configuration is enough.            *)
Init ==
  /\ serves \in {f \in [Members -> Servers] : \A m, n \in Members :
                   f[m] \in Homes[m] /\ (f[m] = f[n] => m = n)}
  /\ up = Members
  /\ config \in {f \in [Clusters -> Founding] : \A k \in Clusters :
                   \A s \in In(f[k]) : Cluster[s] = k}
  /\ \A k \in Clusters : \/ IsMajority({serves[m] : m \in Members}, config[k])
                         \/ config[k] = [voters |-> {s \in Servers : Cluster[s] = k}, learners |-> {}]
  /\ view = [s \in Servers |-> config[Cluster[s]]]
  /\ leader = [k \in Clusters |-> None]
  /\ leads = {} /\ hears = {} /\ changes = 0
  /\ pc = "idle" /\ op \in [kind : {"stop"}, target : {m \in Members : \A n \in Members : m <= n}]
  /\ todo = {} /\ report = [m \in Members |-> None] /\ calm = FALSE

Environment ==
  \/ \E m \in Members : Exit(m) \/ Return(m)
  \/ \E s \in Servers : Elect(s) \/ StepDown(s) \/ Follow(s) \/ Forget(s)
  \/ \E k \in Clusters : Reconfigure(k)

Next ==
  \/ Environment
  \/ \E kind \in Kinds, t \in Members : Ask(kind, t)
  \/ Probe \/ Judge \/ Act

Fairness == WF_vars(Probe) /\ WF_vars(Judge)

Spec == Init /\ [][Next]_vars /\ Fairness

------------------------------------------------------------------------------
(* The answers that allow a stop come from different servers of one cluster  *)
(* that know each other, whatever elections, exits and changes happened      *)
(* between them: two unrelated or divergent members never pass for a quorum  *)
(* (validateHAEtcdRepairQuorum).                                             *)
OneCluster ==
  pc = "act" =>
    \A m, n \in Probed(op.kind, op.target) : m # n =>
      /\ report[m].id # report[n].id /\ report[m].id \in report[n].peers
      /\ Cluster[report[m].id] = Cluster[report[n].id]

(* Unless a server exited or the membership was changing since the request,  *)
(* the VMs that stay are running voters of one cluster and a majority of its *)
(* newest configuration: a stop does not cost the quorum                     *)
(* (stopHAMemberLocked, restartUnhealthyHAMemberLocked).                     *)
MajorityProven ==
  pc = "act" /\ calm =>
    LET stay == Members \ {op.target} IN
    /\ stay \subseteq up
    /\ \E k \in Clusters : /\ \A m \in stay : serves[m] \in config[k].voters
                           /\ IsMajority({serves[m] : m \in stay}, config[k])

(* The servers that a request probes are voters of a settled cluster of      *)
(* three that know its only leader, which may be the target of a repair.     *)
Fit(kind, t) ==
  LET ids == {serves[m] : m \in Probed(kind, t)} IN
  \E k \in Clusters :
    /\ Probed(kind, t) \subseteq up /\ ids \subseteq config[k].voters \cap hears
    /\ Cardinality(In(config[k])) = Cardinality(Members) /\ Settled(k)
    /\ leader[k] \in leads /\ leads \cap ids \subseteq {leader[k]}

(* A request whose servers are fit is granted: above all, a member whose API *)
(* hangs can be restarted while its etcd server is the leader                *)
(* (validateHAEtcdRepairQuorum, "Zero is valid").                            *)
FitIsGranted ==
  \A kind \in Kinds, t \in Members :
    [](/\ pc = "probe" /\ op = [kind |-> kind, target |-> t] /\ todo = Probed(kind, t)
       /\ []Fit(kind, t)
       => <>(pc = "act"))
=============================================================================
