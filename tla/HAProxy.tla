------------------------------ MODULE HAProxy -------------------------------
(***************************************************************************)
(* The API proxy of an HA cluster and the loop that keeps it up.  The      *)
(* proxy forwards connections to members that a monitor found Ready and    *)
(* whose envelope it recognised.  The accept loop, one handler per client, *)
(* the monitor and the clean-up that cancellation sets off run at once and *)
(* share the pool of backends and the register of open connections, each   *)
(* behind its own mutex: a step here is what happens between two unlocks.  *)
(*                                                                         *)
(* Bytes are not modelled, nor time: a ticker may fire whenever the        *)
(* monitor is idle, and a retry whenever the loop waits.  A backend that   *)
(* is not Ready may still accept a connection.                             *)
(***************************************************************************)
EXTENDS Integers, FiniteSets

CONSTANTS MemberCount,     (* members of the cluster                         *)
          Clients,         (* connections that clients make                  *)
          MaxClients,      (* the places the proxy has for them              *)
          MaxRetry,        (* haProxySupervisorMaximumRetry in initial ones  *)
          FirstDown,       (* members that may be down at first              *)
          MaxArrivals,     (* a bound on the clients that come               *)
          MaxChanges       (* a bound on what fails around the proxy         *)

Members == 1..MemberCount

ASSUME MembersAssumption == MemberCount \in Nat \ {0}
ASSUME ClientsAssumption == IsFiniteSet(Clients)
ASSUME BoundsAssumption  == /\ {MaxRetry, MaxArrivals, MaxChanges} \subseteq Nat
                            /\ MaxClients \in Nat \ {0} /\ MaxRetry > 0

VARIABLES
  envelope,   (* each member's envelope: missing, stopped, unready or ready  *)
  port,       (* whether the proxy's port is free                            *)
  cancelled,  (* the supervisor is stopping                                  *)
  loop,       (* what the accept loop, or the loop around it, does           *)
  retry,      (* the delay before the proxy is started again                 *)
  listening,
  accepted,   (* clients accepted and not yet admitted or refused            *)
  places,     (* occupied places                                             *)
  pool,       (* who is healthy, who is trusted, where the rotation is       *)
  monitor,    (* what the monitor asks, whom it still has to, who said yes   *)
  handler,    (* per client: what its handler does                           *)
  open,       (* open connections: <<client, "client" or "upstream">>        *)
  register, closed,   (* haProxyConnections                                  *)
  cleanup,    (* the function that runs after cancellation                   *)
  arrivals, changes

world == <<envelope, port, changes>>
serve == <<loop, retry, listening, accepted, cancelled, cleanup>>
conns == <<open, register, closed>>
vars  == <<world, serve, conns, pool, places, monitor, handler, arrivals>>

-----------------------------------------------------------------------------
Ready      == {b \in Members : envelope[b] = "ready"}
Recognised == {b \in Members : envelope[b] \notin {"missing", "stopped"}}

Candidates == pool.healthy \cap pool.trusted

NoHandler == [pc |-> "none", todo |-> {}, from |-> 1, steady |-> {}]
Resting   == [pc |-> "none", todo |-> {}, found |-> {}]

(* The handlers that occupy a place. *)
Handled == {c \in Clients : handler[c].pc # "none"}

(* serveCtx is cancelled with its parent, or when the accept loop breaks. *)
Stopping == cancelled \/ loop \notin {"serving", "accepted"}

Lowest(S) == CHOOSE b \in S : \A a \in S : b <= a

(* haProxyBackends in the order of the rotation that starts at from.         *)
NextOf(from, todo) ==
  LET after == {b \in todo : b >= from}
  IN  Lowest(IF after # {} THEN after ELSE todo)

TypeOK ==
  /\ envelope \in [Members -> {"missing", "stopped", "unready", "ready"}]
  /\ {port, cancelled, listening, closed} \subseteq BOOLEAN
  /\ loop \in {"validate", "probe", "listen", "serving", "accepted", "stopping",
               "draining", "failed", "ended"}
  /\ retry \in 1..MaxRetry
  /\ accepted \subseteq Clients
  /\ places \in Nat
  /\ pool \in [healthy : SUBSET Members, trusted : SUBSET Members, next : Nat]
  /\ monitor \in [pc : {"none", "idle", "health", "identity"},
                  todo : SUBSET Members, found : SUBSET Members]
  /\ handler \in [Clients -> [pc : {"none", "pick", "dial", "mark", "add", "relay", "drop",
                                    "place"},
                              todo : SUBSET Members, from : Nat, steady : SUBSET Members]]
  /\ open \subseteq Clients \X {"client", "upstream"}
  /\ register \subseteq Clients \X {"client", "upstream"}
  /\ cleanup \in {"off", "armed", "running", "done"}
  /\ arrivals \in 0..MaxArrivals /\ changes \in 0..MaxChanges

Init ==
  /\ \E down \in SUBSET (FirstDown \cap Members) :
       envelope = [b \in Members |-> IF b \in down THEN "stopped" ELSE "ready"]
  /\ port = TRUE /\ cancelled = FALSE
  /\ loop = "validate" /\ retry = 1 /\ listening = FALSE
  /\ accepted = {} /\ places = 0
  /\ pool = [healthy |-> {}, trusted |-> {}, next |-> 0]
  /\ monitor = Resting
  /\ handler = [c \in Clients |-> NoHandler]
  /\ open = {} /\ register = {} /\ closed = FALSE
  /\ cleanup = "off"
  /\ arrivals = 0 /\ changes = 0

SetPool(healthy, trusted, next) ==
  pool' = [healthy |-> healthy, trusted |-> trusted, next |-> next]

-----------------------------------------------------------------------------
(* Starting the proxy. *)

Goes(step) ==
  /\ loop' = step
  /\ UNCHANGED <<retry, cancelled, accepted>>

(* Every member's envelope must be there and be the cluster's own. *)
EnvelopesThere == \A b \in Members : envelope[b] # "missing"

Validate ==
  /\ loop = "validate"
  /\ IF EnvelopesThere
     THEN Goes("probe")
     ELSE Goes("failed")
  /\ SetPool({}, Members, 0)
  /\ UNCHANGED <<world, listening, cleanup, conns, places, monitor, handler, arrivals>>

(* The first round of probes; one Ready member is enough. *)
FirstProbe ==
  /\ loop = "probe"
  /\ LET found == IF cancelled THEN {} ELSE Ready
     IN  /\ Goes(IF found = {} THEN "failed" ELSE "listen")
         /\ SetPool(found, pool.trusted, pool.next)
  /\ UNCHANGED <<world, listening, cleanup, conns, places, monitor, handler, arrivals>>

(* Listen, register the clean-up, start the monitor. *)
Listen ==
  /\ loop = "listen"
  /\ IF port /\ ~cancelled
     THEN /\ Goes("serving") /\ listening' = TRUE /\ cleanup' = "armed"
          /\ monitor' = [Resting EXCEPT !.pc = "idle"]
          /\ register' = {} /\ closed' = FALSE
     ELSE /\ Goes("failed")
          /\ UNCHANGED <<listening, cleanup, monitor, register, closed>>
  /\ UNCHANGED <<world, open, pool, places, handler, arrivals>>

(* Mutant: the loop stops at the longest delay. *)
Retry_GivesUp ==
  /\ loop = "failed" /\ ~cancelled /\ retry < MaxRetry
  /\ loop' = "validate"
  /\ retry' = IF retry > MaxRetry \div 2 THEN MaxRetry ELSE retry * 2
  /\ UNCHANGED <<world, cancelled, listening, accepted, cleanup, conns, pool, places, monitor,
                 handler, arrivals>>

(* superviseHAProxy waits and starts the proxy again, later every time.      *)
Retry ==
  /\ loop = "failed" /\ ~cancelled
  /\ loop' = "validate"
  /\ retry' = IF retry > MaxRetry \div 2 THEN MaxRetry ELSE retry * 2
  /\ UNCHANGED <<world, cancelled, listening, accepted, cleanup, conns, pool, places, monitor,
                 handler, arrivals>>

(* A cancelled proxy ends for good. *)
End ==
  /\ loop = "failed" /\ cancelled
  /\ Goes("ended")
  /\ UNCHANGED <<world, listening, cleanup, conns, pool, places, monitor, handler, arrivals>>

-----------------------------------------------------------------------------
(* The accept loop. *)

Accept(c) ==
  /\ loop = "serving" /\ listening /\ handler[c].pc = "none" /\ arrivals < MaxArrivals
  /\ arrivals' = arrivals + 1
  /\ loop' = "accepted" /\ accepted' = {c}
  /\ open' = open \cup {<<c, "client">>}
  /\ UNCHANGED <<world, retry, listening, cancelled, cleanup, register, closed, pool, places,
                 monitor, handler>>

(* connections.add: what comes after closeAll is closed at once.             *)
Adds(connection, opened) ==
  /\ open' = IF closed THEN opened \ {connection} ELSE opened
  /\ register' = IF closed THEN register ELSE register \cup {connection}
  /\ closed' = closed

(* A place for the client, or none. *)
Admit ==
  /\ loop = "accepted"
  /\ \E c \in accepted :
       IF places < MaxClients
       THEN /\ places' = places + 1
            /\ Adds(<<c, "client">>, open)
            /\ handler' = [handler EXCEPT ![c] = [NoHandler EXCEPT !.pc = "pick"]]
       ELSE /\ handler' = [handler EXCEPT ![c].pc = "none"]
            /\ open' = open \ {<<c, "client">>}
            /\ UNCHANGED <<places, register, closed>>
  /\ loop' = "serving" /\ accepted' = {}
  /\ UNCHANGED <<world, retry, listening, cancelled, cleanup, pool, monitor, arrivals>>

(* Accept returns an error: the listener was closed, or it broke.            *)
AcceptFails ==
  /\ loop = "serving"
  /\ IF listening THEN changes < MaxChanges /\ changes' = changes + 1 ELSE changes' = changes
  /\ Goes("stopping")
  /\ UNCHANGED <<envelope, port, listening, cleanup, conns, pool, places, monitor, handler,
                 arrivals>>

(* closeAll *)
ClosesAll ==
  /\ open' = open \ register
  /\ closed' = TRUE
  /\ UNCHANGED register

(* The clean-up starts as soon as serveCtx is cancelled, at most once.       *)
CleanupStarts ==
  /\ cleanup = "armed" /\ Stopping
  /\ cleanup' = "running"
  /\ UNCHANGED <<world, loop, retry, listening, accepted, cancelled, conns, pool, places,
                 monitor, handler, arrivals>>

(* Mutant: the clean-up leaves the listener to the accept loop. *)
Cleanup_Connections ==
  /\ cleanup = "running"
  /\ cleanup' = "done"
  /\ ClosesAll
  /\ UNCHANGED <<world, listening, loop, retry, accepted, cancelled, pool, places, monitor,
                 handler, arrivals>>

Cleanup ==
  /\ cleanup = "running"
  /\ cleanup' = "done" /\ listening' = FALSE
  /\ ClosesAll
  /\ UNCHANGED <<world, loop, retry, accepted, cancelled, pool, places, monitor, handler,
                 arrivals>>

(* The loop closes everything itself too, and prevents the clean-up if it    *)
(* has not started.                                                          *)
Stop ==
  /\ loop = "stopping"
  /\ listening' = FALSE
  /\ ClosesAll
  /\ cleanup' = IF cleanup = "armed" THEN "off" ELSE cleanup
  /\ Goes("draining")
  /\ UNCHANGED <<world, pool, places, monitor, handler, arrivals>>

(* Mutant: serveHAProxy returns without waiting for its clients. *)
Drained_Early ==
  /\ loop = "draining"
  /\ cleanup \in {"off", "done"}
  /\ monitor.pc = "none"
  /\ Goes("failed") /\ cleanup' = "off"
  /\ UNCHANGED <<world, listening, conns, pool, places, monitor, handler, arrivals>>

(* It returns when the clean-up, the clients and the monitor are done.       *)
Drained ==
  /\ loop = "draining"
  /\ cleanup \in {"off", "done"}
  /\ Handled = {}
  /\ monitor.pc = "none"
  /\ Goes("failed") /\ cleanup' = "off"
  /\ UNCHANGED <<world, listening, conns, pool, places, monitor, handler, arrivals>>

-----------------------------------------------------------------------------
(* The monitor. *)

(* A ticker fires: probe the APIs, or inspect the envelopes, of all members. *)
Ask(question) ==
  /\ monitor.pc = "idle"
  /\ monitor' = [pc |-> question, todo |-> Members, found |-> {}]
  /\ UNCHANGED <<world, serve, conns, pool, places, handler, arrivals>>

(* One member answers; nobody answers a cancelled question. *)
Answer(b) ==
  /\ monitor.pc \in {"health", "identity"} /\ b \in monitor.todo
  /\ LET yes == IF monitor.pc = "health" THEN Ready ELSE Recognised
     IN  monitor' = [monitor EXCEPT !.todo = @ \ {b},
                                    !.found = IF Stopping THEN @ ELSE @ \cup ({b} \cap yes)]
  /\ UNCHANGED <<world, serve, conns, pool, places, handler, arrivals>>

(* Mutant: a mark outlives the probes. *)
Replace_Sticky ==
  /\ monitor.pc \in {"health", "identity"} /\ monitor.todo = {}
  /\ IF monitor.pc = "health"
     THEN SetPool(monitor.found \cap pool.healthy, pool.trusted, pool.next)
     ELSE SetPool(pool.healthy, monitor.found, pool.next)
  /\ monitor' = [Resting EXCEPT !.pc = "idle"]
  /\ UNCHANGED <<world, serve, conns, places, handler, arrivals>>

(* The answers replace what the pool knew, marks made meanwhile included.    *)
Replace ==
  /\ monitor.pc \in {"health", "identity"} /\ monitor.todo = {}
  /\ IF monitor.pc = "health"
     THEN SetPool(monitor.found, pool.trusted, pool.next)
     ELSE SetPool(pool.healthy, monitor.found, pool.next)
  /\ monitor' = [Resting EXCEPT !.pc = "idle"]
  /\ UNCHANGED <<world, serve, conns, places, handler, arrivals>>

MonitorStops ==
  /\ monitor.pc = "idle" /\ Stopping
  /\ monitor' = Resting
  /\ UNCHANGED <<world, serve, conns, pool, places, handler, arrivals>>

-----------------------------------------------------------------------------
(* One client. *)

Handles(c, step) == handler' = [handler EXCEPT ![c].pc = step]

(* It is through with the candidates it was given. *)
LeavesCandidates(c, step) == handler' = [handler EXCEPT ![c] = [NoHandler EXCEPT !.pc = step]]

Rotation(n) == (pool.next + 1) % n

(* The candidates, starting where the last rotation ended. *)
Pick(c) ==
  /\ handler[c].pc = "pick"
  /\ IF Candidates = {}
     THEN /\ Handles(c, "drop")
          /\ UNCHANGED pool
     ELSE \E first \in Candidates :
            /\ Cardinality({b \in Candidates : b < first}) = pool.next % Cardinality(Candidates)
            /\ handler' = [handler EXCEPT ![c] = [pc |-> "dial", todo |-> Candidates,
                                                 from |-> first, steady |-> Candidates \cap Ready]]
            /\ pool' = [pool EXCEPT !.next = Rotation(Cardinality(Candidates))]
  /\ UNCHANGED <<world, serve, conns, places, monitor, arrivals>>

(* Dial the next candidate.  A Ready member answers unless the proxy stops.  *)
Dial(c) ==
  /\ handler[c].pc = "dial" /\ handler[c].todo # {}
  /\ LET b == NextOf(handler[c].from, handler[c].todo)
     IN  \/ /\ ~Stopping /\ envelope[b] \in {"unready", "ready"}
            /\ LeavesCandidates(c, "add")
            /\ open' = open \cup {<<c, "upstream">>}
         \/ /\ Stopping \/ envelope[b] # "ready"
            /\ Handles(c, "mark")
            /\ open' = open
  /\ UNCHANGED <<world, serve, register, closed, pool, places, monitor, arrivals>>

(* Mutant: the first dial that fails decides. *)
Mark_Last(c) ==
  /\ handler[c].pc = "mark"
  /\ LET b == NextOf(handler[c].from, handler[c].todo)
     IN  /\ SetPool(pool.healthy \ {b}, pool.trusted, pool.next)
         /\ handler' = [handler EXCEPT ![c].pc = "dial", ![c].todo = {}]
  /\ UNCHANGED <<world, serve, conns, places, monitor, arrivals>>

(* A dial that failed marks its backend, however long it took to fail.       *)
Mark(c) ==
  /\ handler[c].pc = "mark"
  /\ LET b == NextOf(handler[c].from, handler[c].todo)
     IN  /\ SetPool(pool.healthy \ {b}, pool.trusted, pool.next)
         /\ handler' = [handler EXCEPT ![c].pc = "dial", ![c].todo = @ \ {b}]
  /\ UNCHANGED <<world, serve, conns, places, monitor, arrivals>>

(* No candidate is left. *)
Unserved(c) ==
  /\ handler[c].pc = "dial" /\ handler[c].todo = {}
  /\ LeavesCandidates(c, "drop")
  /\ UNCHANGED <<world, serve, conns, pool, places, monitor, arrivals>>

Add(c) ==
  /\ handler[c].pc = "add"
  /\ Adds(<<c, "upstream">>, open)
  /\ Handles(c, "relay")
  /\ UNCHANGED <<world, serve, pool, places, monitor, arrivals>>

(* The streams end: a side closes, the proxy closes one, or it stops.  Both  *)
(* connections are closed and taken off the register.                        *)
RelayEnds(c) ==
  /\ handler[c].pc = "relay"
  /\ open' = open \ {<<c, "upstream">>}
  /\ register' = register \ {<<c, "upstream">>}
  /\ Handles(c, "drop")
  /\ UNCHANGED <<world, serve, closed, pool, places, monitor, arrivals>>

RelayMustEnd(c) ==
  handler[c].pc = "relay" /\ (Stopping \/ ~({c} \X {"client", "upstream"} \subseteq open))

(* The deferred calls: close the client, forget it, give the place back.     *)
Drop(c) ==
  /\ handler[c].pc = "drop"
  /\ open' = open \ {<<c, "client">>}
  /\ register' = register \ {<<c, "client">>}
  /\ Handles(c, "place")
  /\ UNCHANGED <<world, serve, closed, pool, places, monitor, arrivals>>

(* Mutant: a handler that finds the proxy stopping returns first. *)
Leave_Stopping(c) ==
  /\ handler[c].pc = "place"
  /\ places' = IF Stopping THEN places ELSE places - 1
  /\ handler' = [handler EXCEPT ![c] = NoHandler]
  /\ UNCHANGED <<world, serve, conns, pool, monitor, arrivals>>

Leave(c) ==
  /\ handler[c].pc = "place"
  /\ places' = places - 1
  /\ handler' = [handler EXCEPT ![c] = NoHandler]
  /\ UNCHANGED <<world, serve, conns, pool, monitor, arrivals>>

-----------------------------------------------------------------------------
(* The environment. *)

(* A member's envelope or API goes. *)
Change(b) ==
  /\ changes < MaxChanges
  /\ \E state \in {"missing", "stopped", "unready"} \ {envelope[b]} :
       envelope' = [envelope EXCEPT ![b] = state]
  /\ handler' = [c \in Clients |-> [handler[c] EXCEPT !.steady = @ \ {b}]]
  /\ changes' = changes + 1
  /\ UNCHANGED <<port, serve, conns, pool, places, monitor, arrivals>>

(* It comes back.  No bound is needed: it returns as often as it has gone.   *)
Returns(b) ==
  /\ envelope[b] # "ready"
  /\ envelope' = [envelope EXCEPT ![b] = "ready"]
  /\ UNCHANGED <<port, changes, serve, conns, pool, places, monitor, handler, arrivals>>

(* Another program takes the port, or gives it back. *)
PortChange ==
  /\ ~listening
  /\ port' = ~port
  /\ IF port THEN changes < MaxChanges /\ changes' = changes + 1 ELSE changes' = changes
  /\ UNCHANGED <<envelope, serve, conns, pool, places, monitor, handler, arrivals>>

Cancel ==
  /\ ~cancelled
  /\ cancelled' = TRUE
  /\ UNCHANGED <<world, loop, retry, listening, accepted, cleanup, conns, pool, places,
                 monitor, handler, arrivals>>

-----------------------------------------------------------------------------
Loop ==
  \/ Validate \/ FirstProbe \/ Listen \/ Retry \/ End
  \/ Admit \/ (~listening /\ AcceptFails) \/ Stop \/ Drained

Handler(c) ==
  Pick(c) \/ Dial(c) \/ Mark(c) \/ Unserved(c) \/ Add(c) \/ Drop(c) \/ Leave(c)

Next ==
  \/ Loop \/ AcceptFails \/ CleanupStarts \/ Cleanup \/ MonitorStops \/ Replace
  \/ \E c \in Clients : Accept(c) \/ Handler(c) \/ RelayEnds(c)
  \/ \E question \in {"health", "identity"} : Ask(question)
  \/ \E b \in Members : Answer(b) \/ Change(b) \/ Returns(b)
  \/ PortChange \/ Cancel

Spec == Init /\ [][Next]_vars

(* Goroutines run, questions are answered or time out, a select takes every   *)
(* case that is ready again and again, and both tickers keep                 *)
(* firing.  Nobody has to connect, and a relay need not end by itself.       *)
Fairness ==
  /\ WF_vars(Loop) /\ WF_vars(CleanupStarts) /\ WF_vars(Cleanup)
  /\ WF_vars(Replace) /\ WF_vars(\E b \in Members : Answer(b)) /\ SF_vars(MonitorStops)
  /\ SF_vars(Ask("health")) /\ SF_vars(Ask("identity"))
  /\ \A c \in Clients : WF_vars(Handler(c)) /\ WF_vars(RelayMustEnd(c) /\ RelayEnds(c))

FairSpec == Spec /\ Fairness

-----------------------------------------------------------------------------
(* Properties. *)

(* A place is occupied exactly as long as a handler runs, and no more than   *)
(* there are: every path of handleHAProxyClient gives its place back.        *)
PlacesAccounted == places = Cardinality(Handled) /\ places <= MaxClients

(* When the proxy has returned, nothing of it is left: no connection, no     *)
(* handler, no monitor, no clean-up that would close the connections of the  *)
(* proxy that is started next (serveHAProxy's waits).                        *)
ReturnsClean ==
  loop \in {"validate", "probe", "listen", "failed", "ended"} =>
    /\ ~listening /\ open = {} /\ accepted = {} /\ Handled = {}
    /\ monitor.pc = "none" /\ cleanup = "off"

(* A client is turned away only if no candidate it was given stayed Ready    *)
(* (handleHAProxyClient tries them all), or the proxy stops.                 *)
FindsTheReady ==
  [][\A c \in Clients : Unserved(c) => handler[c].steady = {} \/ Stopping]_vars

(* When the members settle, the candidates become exactly the Ready ones:    *)
(* neither a stale probe stays nor the mark of a slow dial on a member that  *)
(* came back meanwhile (replaceHealth, replaceIdentity, markUnhealthy).      *)
PoolFollows ==
  /\ <>[](loop \in {"serving", "accepted"})
  /\ <>[][UNCHANGED Ready]_vars
  => <>[](Candidates = Ready)

(* Once a proxy can be started, one serves or will again (superviseHAProxy). *)
Startable == Ready # {} /\ port /\ EnvelopesThere
ComesBack ==
  <>[](Startable /\ ~cancelled) => []<>(loop \in {"serving", "accepted"})

(* A supervisor that stops does not wait for ever for its proxy, whatever    *)
(* its clients do (the deferred receive of supervise).                       *)
CancelEnds == []<>(cancelled => loop = "ended")

(* A proxy leaks nothing, neither while it runs nor into the next one.       *)
NothingLeaks == PlacesAccounted /\ ReturnsClean

(* The loop around the proxy neither gives up nor outstays its supervisor.   *)
LoopLives == ComesBack /\ CancelEnds
=============================================================================
