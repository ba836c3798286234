--------------------------- MODULE HAProxy_proofs ---------------------------
(***************************************************************************)
(* The proxy gives every place back, returns with nothing left behind, and *)
(* never turns a client away whose candidates include one that answers,    *)
(* for every number of members, clients and places.  The invariant says    *)
(* who owns what: an open connection belongs to a client that was just     *)
(* accepted or to a handler at a certain step, a place to a handler, and   *)
(* everything to a loop that is past listening.                            *)
(***************************************************************************)
EXTENDS HAProxy, TLAPS, FiniteSetTheorems

Down == {"validate", "probe", "listen", "failed", "ended"}

HandlerSteps == {"none", "pick", "dial", "mark", "add", "relay", "drop", "place"}
Handlers == [pc : HandlerSteps, todo : SUBSET Members, from : Nat, steady : SUBSET Members]

(* At most one client waits to be admitted, and it has no handler yet. *)
OneAccepted ==
  /\ accepted # {} => loop = "accepted"
  /\ \A c, d \in accepted : c = d
  /\ \A c \in accepted : handler[c].pc = "none"

OwnedConnections ==
  \A c \in Clients :
    /\ <<c, "client">> \in open => c \in accepted \/ handler[c].pc \notin {"none", "place"}
    /\ <<c, "upstream">> \in open => handler[c].pc \in {"add", "relay"}

(* A loop that is not serving has nothing. *)
DownIsClean ==
  /\ listening => loop \in {"serving", "accepted", "stopping"}
  /\ loop \in Down => Handled = {} /\ monitor.pc = "none" /\ cleanup = "off"

(* The candidates that have been Ready all along are still to be dialled.    *)
SteadyLeft ==
  \A c \in Clients :
    /\ handler[c].steady \subseteq Ready
    /\ handler[c].pc = "dial" => handler[c].steady \subseteq handler[c].todo \/ Stopping
    /\ handler[c].pc = "mark" =>
         handler[c].steady \subseteq handler[c].todo \ {NextOf(handler[c].from, handler[c].todo)}
           \/ Stopping

IInv ==
  TypeOK /\ OneAccepted /\ PlacesAccounted /\ OwnedConnections /\ DownIsClean /\ SteadyLeft

-----------------------------------------------------------------------------
(* Facts about the state. *)

LEMMA FiniteHandled == ASSUME TypeOK PROVE IsFiniteSet(Handled) /\ Cardinality(Handled) \in Nat
  <1>1. Handled \subseteq Clients
    BY DEF Handled
  <1> QED
    BY <1>1, ClientsAssumption, FS_Subset, FS_CardinalityType

LEMMA HandlersType == TypeOK => handler \in [Clients -> Handlers]
  BY DEF TypeOK, Handlers, HandlerSteps

(* A handler that runs keeps the loop from being down. *)
LEMMA RunningIsUp ==
  ASSUME IInv, NEW c \in Clients, handler[c].pc # "none"
  PROVE  c \in Handled /\ loop \notin Down
  BY DEF IInv, DownIsClean, Handled

(* A client that leaves or enters the set of those handled. *)
LEMMA PlacesKept ==
  ASSUME IInv, NEW c \in Clients, NEW r \in Handlers, handler[c].pc # "none", r.pc # "none",
         handler' = [handler EXCEPT ![c] = r], places' = places
  PROVE  PlacesAccounted' /\ Handled' = Handled
  <1>1. Handled' = Handled
    BY HandlersType DEF IInv, Handled
  <1> QED
    BY <1>1 DEF IInv, PlacesAccounted

LEMMA NoHandlerType == NoHandler \in Handlers /\ NoHandler.pc = "none" /\ NoHandler.steady = {}
  BY DEF NoHandler, Handlers, HandlerSteps

-----------------------------------------------------------------------------
(* Steps of the loop, of the monitor and of the environment, which leave the *)
(* handlers as they are.                                                     *)

LEMMA QuietSteps ==
  ASSUME IInv, UNCHANGED <<handler, places, accepted, envelope>>,
         accepted # {} => loop' = "accepted",
         open' \subseteq open,
         Handled # {} => (Stopping => Stopping')
  PROVE  OneAccepted' /\ PlacesAccounted' /\ OwnedConnections' /\ SteadyLeft'
         /\ Handled' = Handled
  <1> USE DEF IInv
  <1>1. Handled' = Handled
    BY DEF Handled
  <1>2. OneAccepted'
    BY DEF OneAccepted
  <1>3. PlacesAccounted'
    BY <1>1 DEF PlacesAccounted
  <1>4. OwnedConnections'
    BY DEF OwnedConnections
  <1>5. SteadyLeft'
    <2> SUFFICES ASSUME NEW c \in Clients
                 PROVE  /\ handler[c].steady \subseteq Ready'
                        /\ handler[c].pc = "dial" =>
                             handler[c].steady \subseteq handler[c].todo \/ Stopping'
                        /\ handler[c].pc = "mark" =>
                             handler[c].steady \subseteq
                               handler[c].todo \ {NextOf(handler[c].from, handler[c].todo)}
                             \/ Stopping'
      BY DEF SteadyLeft
    <2>1. Ready' = Ready
      BY DEF Ready
    <2>2. CASE handler[c].pc = "none"
      BY <2>1, <2>2 DEF SteadyLeft
    <2>3. CASE handler[c].pc # "none"
      <3>1. Stopping => Stopping'
        BY <2>3 DEF Handled
      <3> QED
        BY <2>1, <3>1 DEF SteadyLeft
    <2> QED
      BY <2>2, <2>3
  <1> QED
    BY <1>1, <1>2, <1>3, <1>4, <1>5

LEMMA PoolType ==
  ASSUME TypeOK, NEW healthy \in SUBSET Members, NEW trusted \in SUBSET Members,
         NEW next \in Nat, SetPool(healthy, trusted, next)
  PROVE  /\ pool' \in [healthy : SUBSET Members, trusted : SUBSET Members, next : Nat]
  BY DEF TypeOK, SetPool

(* The steps of a loop that is not serving, and those that bring it there    *)
(* and back.                                                                 *)
LEMMA StartKeeps ==
  ASSUME IInv, Validate \/ FirstProbe \/ Listen \/ Retry \/ End
  PROVE  IInv'
  <1>0. loop \in Down /\ Handled = {} /\ accepted = {} /\ monitor.pc = "none" /\ cleanup = "off"
        /\ ~listening
    BY DEF IInv, DownIsClean, OneAccepted, Validate, FirstProbe, Listen, Retry, End, Down
  <1>1. UNCHANGED <<handler, places, accepted, envelope, open>>
    BY DEF Validate, FirstProbe, Listen, Retry, End, Goes, world, conns
  <1>2. OneAccepted' /\ PlacesAccounted' /\ OwnedConnections' /\ SteadyLeft' /\ Handled' = Handled
    BY <1>0, <1>1, QuietSteps
  <1>3. CASE Validate
    <2>1. pool' \in [healthy : SUBSET Members, trusted : SUBSET Members, next : Nat]
      BY <1>3, PoolType DEF Validate, IInv
    <2>2. TypeOK'
      BY <1>3, <2>1 DEF Validate, Goes, IInv, TypeOK, world, conns
    <2>3. DownIsClean'
      BY <1>0, <1>2, <1>3 DEF Validate, Goes, DownIsClean, Down
    <2> QED
      BY <1>2, <2>2, <2>3 DEF IInv
  <1>4. CASE FirstProbe
    <2>1. pool' \in [healthy : SUBSET Members, trusted : SUBSET Members, next : Nat]
      <3>1. (IF cancelled THEN {} ELSE Ready) \in SUBSET Members
            /\ pool.trusted \in SUBSET Members /\ pool.next \in Nat
        BY DEF Ready, IInv, TypeOK
      <3> QED
        BY <1>4, <3>1, PoolType DEF FirstProbe, IInv
    <2>2. TypeOK'
      BY <1>4, <2>1 DEF FirstProbe, Goes, IInv, TypeOK, world, conns
    <2>3. DownIsClean'
      BY <1>0, <1>2, <1>4 DEF FirstProbe, Goes, DownIsClean, Down
    <2> QED
      BY <1>2, <2>2, <2>3 DEF IInv
  <1>5. CASE Listen
    <2>1. TypeOK'
      <3>1. CASE port /\ ~cancelled
        <4>1. /\ monitor' \in [pc : {"none", "idle", "health", "identity"},
                               todo : SUBSET Members, found : SUBSET Members]
              /\ listening' \in BOOLEAN /\ closed' \in BOOLEAN
              /\ cleanup' = "armed" /\ loop' = "serving" /\ register' = {}
          BY <1>5, <3>1 DEF Listen, Goes, Resting
        <4> QED
          BY <1>5, <4>1 DEF Listen, Goes, IInv, TypeOK, world
      <3>2. CASE ~(port /\ ~cancelled)
        BY <1>5, <3>2 DEF Listen, Goes, IInv, TypeOK, world
      <3> QED
        BY <3>1, <3>2
    <2>2. DownIsClean'
      BY <1>0, <1>2, <1>5 DEF Listen, Goes, DownIsClean, Down
    <2> QED
      BY <1>2, <2>1, <2>2 DEF IInv
  <1>6. CASE Retry
    <2>1. retry' \in 1..MaxRetry
      BY <1>6, BoundsAssumption DEF Retry, IInv, TypeOK
    <2>2. TypeOK'
      BY <1>6, <2>1 DEF Retry, IInv, TypeOK, world, conns
    <2>3. DownIsClean'
      BY <1>0, <1>2, <1>6 DEF Retry, DownIsClean, Down
    <2> QED
      BY <1>2, <2>2, <2>3 DEF IInv
  <1>7. CASE End
    <2>1. TypeOK'
      BY <1>7 DEF End, Goes, IInv, TypeOK, world, conns
    <2>2. DownIsClean'
      BY <1>0, <1>2, <1>7 DEF End, Goes, DownIsClean, Down
    <2> QED
      BY <1>2, <2>1, <2>2 DEF IInv
  <1> QED
    BY <1>3, <1>4, <1>5, <1>6, <1>7

(* The end of a proxy: the loop breaks, closes, waits. *)
LEMMA StopKeeps ==
  ASSUME IInv, AcceptFails \/ CleanupStarts \/ Cleanup \/ Stop \/ Drained
  PROVE  IInv'
  <1>1. UNCHANGED <<handler, places, accepted, envelope>> /\ open' \subseteq open
    BY DEF AcceptFails, CleanupStarts, Cleanup, Stop, Drained, Goes, ClosesAll, world, conns
  <1>2. accepted # {} => loop' = "accepted"
    BY DEF AcceptFails, CleanupStarts, Cleanup, Stop, Drained, Goes, IInv, OneAccepted
  <1>3. Stopping => Stopping'
    BY DEF AcceptFails, CleanupStarts, Cleanup, Stop, Drained, Goes, Stopping
  <1>4. OneAccepted' /\ PlacesAccounted' /\ OwnedConnections' /\ SteadyLeft' /\ Handled' = Handled
    BY <1>1, <1>2, <1>3, QuietSteps
  <1>5. CASE AcceptFails
    <2>1. changes' \in 0..MaxChanges
      BY <1>5, BoundsAssumption DEF AcceptFails, IInv, TypeOK
    <2>2. TypeOK'
      BY <1>5, <2>1 DEF AcceptFails, Goes, IInv, TypeOK, conns
    <2>3. DownIsClean'
      BY <1>5 DEF AcceptFails, Goes, IInv, DownIsClean, Down
    <2> QED
      BY <1>4, <2>2, <2>3 DEF IInv
  <1>6. CASE CleanupStarts
    <2>1. TypeOK'
      BY <1>6 DEF CleanupStarts, IInv, TypeOK, world, conns
    <2>2. DownIsClean'
      BY <1>4, <1>6 DEF CleanupStarts, IInv, DownIsClean, Down
    <2> QED
      BY <1>4, <2>1, <2>2 DEF IInv
  <1>7. CASE Cleanup
    <2>1. TypeOK'
      BY <1>7 DEF Cleanup, ClosesAll, IInv, TypeOK, world
    <2>2. DownIsClean'
      BY <1>4, <1>7 DEF Cleanup, IInv, DownIsClean, Down
    <2> QED
      BY <1>4, <2>1, <2>2 DEF IInv
  <1>8. CASE Stop
    <2>1. TypeOK'
      BY <1>8 DEF Stop, Goes, ClosesAll, IInv, TypeOK, world
    <2>2. DownIsClean'
      BY <1>8 DEF Stop, Goes, IInv, DownIsClean, Down
    <2> QED
      BY <1>4, <2>1, <2>2 DEF IInv
  <1>9. CASE Drained
    <2>1. TypeOK'
      BY <1>9 DEF Drained, Goes, IInv, TypeOK, world, conns
    <2>2. DownIsClean'
      BY <1>4, <1>9 DEF Drained, Goes, IInv, DownIsClean, Down
    <2> QED
      BY <1>4, <2>1, <2>2 DEF IInv
  <1> QED
    BY <1>5, <1>6, <1>7, <1>8, <1>9

(* The monitor, the port and the cancellation. *)
LEMMA AsideKeeps ==
  ASSUME IInv,
         \/ \E question \in {"health", "identity"} : Ask(question)
         \/ \E b \in Members : Answer(b)
         \/ Replace \/ MonitorStops \/ PortChange \/ Cancel
  PROVE  IInv'
  <1>1. UNCHANGED <<handler, places, accepted, envelope, open, loop, listening, cleanup>>
    BY DEF Ask, Answer, Replace, MonitorStops, PortChange, Cancel, world, serve, conns
  <1>2. Stopping => Stopping'
    BY <1>1 DEF Ask, Answer, Replace, MonitorStops, PortChange, Cancel, Stopping, serve
  <1>3. OneAccepted' /\ PlacesAccounted' /\ OwnedConnections' /\ SteadyLeft' /\ Handled' = Handled
    <2>1. accepted # {} => loop' = "accepted"
      BY <1>1 DEF IInv, OneAccepted
    <2> QED
      BY <1>1, <1>2, <2>1, QuietSteps
  <1>4. monitor.pc = "none" => monitor'.pc = "none"
    BY DEF Ask, Answer, Replace, MonitorStops, PortChange, Cancel, Resting
  <1>5. DownIsClean'
    BY <1>1, <1>3, <1>4 DEF IInv, DownIsClean
  <1>6. TypeOK'
    <2>1. ASSUME NEW question \in {"health", "identity"}, Ask(question) PROVE TypeOK'
      BY <2>1 DEF Ask, IInv, TypeOK, world, serve, conns
    <2>2. ASSUME NEW b \in Members, Answer(b) PROVE TypeOK'
      <3>1. monitor' \in [pc : {"none", "idle", "health", "identity"},
                          todo : SUBSET Members, found : SUBSET Members]
        BY <2>2 DEF Answer, IInv, TypeOK
      <3> QED
        BY <2>2, <3>1 DEF Answer, IInv, TypeOK, world, serve, conns
    <2>3. CASE Replace
      <3>1. /\ pool' \in [healthy : SUBSET Members, trusted : SUBSET Members, next : Nat]
        <4>1. monitor.found \in SUBSET Members /\ pool.healthy \in SUBSET Members
              /\ pool.trusted \in SUBSET Members /\ pool.next \in Nat
          BY DEF IInv, TypeOK
        <4>2. CASE monitor.pc = "health"
          BY <2>3, <4>1, <4>2, PoolType DEF Replace, IInv
        <4>3. CASE monitor.pc # "health"
          BY <2>3, <4>1, <4>3, PoolType DEF Replace, IInv
        <4> QED
          BY <4>2, <4>3
      <3> QED
        BY <2>3, <3>1 DEF Replace, Resting, IInv, TypeOK, world, serve, conns
    <2>4. CASE MonitorStops
      BY <2>4 DEF MonitorStops, Resting, IInv, TypeOK, world, serve, conns
    <2>5. CASE PortChange
      <3>1. port' \in BOOLEAN
        BY <2>5 DEF PortChange
      <3>2. changes' \in 0..MaxChanges
        BY <2>5, BoundsAssumption DEF PortChange, IInv, TypeOK
      <3> QED
        BY <2>5, <3>1, <3>2 DEF PortChange, IInv, TypeOK, serve, conns
    <2>6. CASE Cancel
      BY <2>6 DEF Cancel, IInv, TypeOK, world, conns
    <2> QED
      BY <2>1, <2>2, <2>3, <2>4, <2>5, <2>6
  <1> QED
    BY <1>3, <1>5, <1>6 DEF IInv

-----------------------------------------------------------------------------
(* Steps that take a handler on.                                             *)

(* What every such step keeps, whatever else it does. *)
LEMMA HandlerKeeps ==
  ASSUME IInv, NEW c \in Clients, NEW r \in Handlers, handler[c].pc # "none", r.pc # "none",
         handler' = [handler EXCEPT ![c] = r],
         UNCHANGED <<world, serve, places, monitor>>,
         open' \subseteq open \cup {<<c, "upstream">>},
         <<c, "client">> \in open' => r.pc # "place",
         <<c, "upstream">> \in open' => r.pc \in {"add", "relay"},
         r.steady \subseteq Ready,
         r.pc = "dial" => r.steady \subseteq r.todo \/ Stopping,
         r.pc = "mark" => r.steady \subseteq r.todo \ {NextOf(r.from, r.todo)} \/ Stopping
  PROVE  /\ handler' \in [Clients -> Handlers]
         /\ OneAccepted' /\ PlacesAccounted' /\ OwnedConnections' /\ DownIsClean' /\ SteadyLeft'
  <1>1. handler \in [Clients -> Handlers]
    BY HandlersType DEF IInv
  <1>2. /\ handler' \in [Clients -> Handlers] /\ handler'[c] = r
        /\ \A d \in Clients \ {c} : handler'[d] = handler[d]
    BY <1>1
  <1>3. PlacesAccounted' /\ Handled' = Handled
    BY PlacesKept
  <1>4. OneAccepted'
    BY <1>2 DEF IInv, OneAccepted, serve, TypeOK
  <1>5. OwnedConnections'
    <2> SUFFICES ASSUME NEW d \in Clients
                 PROVE  /\ <<d, "client">> \in open' =>
                             d \in accepted \/ handler'[d].pc \notin {"none", "place"}
                        /\ <<d, "upstream">> \in open' => handler'[d].pc \in {"add", "relay"}
      BY DEF OwnedConnections, serve
    <2>1. CASE d = c
      BY <1>2, <2>1
    <2>2. CASE d # c
      <3>1. <<d, "upstream">> # <<c, "upstream">> /\ <<d, "client">> # <<c, "upstream">>
        BY <2>2
      <3>2. /\ <<d, "client">> \in open' => <<d, "client">> \in open
            /\ <<d, "upstream">> \in open' => <<d, "upstream">> \in open
        BY <3>1
      <3> QED
        BY <1>2, <2>2, <3>2 DEF IInv, OwnedConnections
    <2> QED
      BY <2>1, <2>2
  <1>6. DownIsClean'
    BY <1>3 DEF IInv, DownIsClean, serve
  <1>7. SteadyLeft'
    <2>1. Ready' = Ready /\ (Stopping' <=> Stopping)
      BY DEF Ready, Stopping, world, serve
    <2> SUFFICES ASSUME NEW d \in Clients
                 PROVE  /\ handler'[d].steady \subseteq Ready
                        /\ handler'[d].pc = "dial" =>
                             handler'[d].steady \subseteq handler'[d].todo \/ Stopping
                        /\ handler'[d].pc = "mark" =>
                             handler'[d].steady \subseteq
                               handler'[d].todo \ {NextOf(handler'[d].from, handler'[d].todo)}
                             \/ Stopping
      BY <2>1 DEF SteadyLeft
    <2>2. CASE d = c
      BY <1>2, <2>2
    <2>3. CASE d # c
      <3>1. handler'[d] = handler[d]
        BY <1>2, <2>3
      <3> QED
        BY <3>1 DEF IInv, SteadyLeft
    <2> QED
      BY <2>2, <2>3
  <1> QED
    BY <1>2, <1>3, <1>4, <1>5, <1>6, <1>7

(* A step that only moves the handler. *)
LEMMA Moved ==
  ASSUME IInv, NEW c \in Clients, NEW step \in HandlerSteps, Handles(c, step)
  PROVE  LET r == [handler[c] EXCEPT !.pc = step]
         IN  /\ r \in Handlers /\ r.pc = step /\ r.steady = handler[c].steady
             /\ r.todo = handler[c].todo /\ r.from = handler[c].from
             /\ handler' = [handler EXCEPT ![c] = r]
  BY HandlersType DEF IInv, Handles, Handlers

LEMMA PickKeeps ==
  ASSUME IInv, NEW c \in Clients, Pick(c)
  PROVE  IInv'
  <1>1. handler[c].pc = "pick" /\ handler[c] \in Handlers /\ handler[c].steady \subseteq Ready
        /\ <<c, "upstream">> \notin open
    BY HandlersType DEF Pick, IInv, SteadyLeft, OwnedConnections
  <1>2. UNCHANGED <<world, serve, open, register, closed, places, monitor, arrivals>>
    BY DEF Pick, conns
  <1>3. CASE Candidates = {}
    <2> DEFINE r == [handler[c] EXCEPT !.pc = "drop"]
    <2>1. r \in Handlers /\ r.pc = "drop" /\ r.steady = handler[c].steady
          /\ handler' = [handler EXCEPT ![c] = r]
      BY <1>3, Moved DEF Pick, HandlerSteps
    <2> HIDE DEF r
    <2>2. /\ handler' \in [Clients -> Handlers]
          /\ OneAccepted' /\ PlacesAccounted' /\ OwnedConnections' /\ DownIsClean' /\ SteadyLeft'
      BY <1>1, <1>2, <2>1, HandlerKeeps
    <2>3. TypeOK'
      BY <1>2, <1>3, <2>2 DEF Pick, IInv, TypeOK, Handlers, HandlerSteps, world, serve
    <2> QED
      BY <2>2, <2>3 DEF IInv
  <1>4. CASE Candidates # {}
    <2>1. PICK first \in Candidates :
            /\ handler' = [handler EXCEPT ![c] = [pc |-> "dial", todo |-> Candidates,
                                                 from |-> first, steady |-> Candidates \cap Ready]]
            /\ pool' = [pool EXCEPT !.next = Rotation(Cardinality(Candidates))]
      BY <1>4 DEF Pick
    <2> DEFINE r == [pc |-> "dial", todo |-> Candidates, from |-> first,
                     steady |-> Candidates \cap Ready]
    <2>2. Candidates \subseteq Members /\ first \in Nat
      BY MembersAssumption DEF Candidates, IInv, TypeOK, Members
    <2>3. r \in Handlers /\ r.pc = "dial" /\ r.steady \subseteq r.todo /\ r.steady \subseteq Ready
      BY <2>2 DEF Handlers, HandlerSteps
    <2>4. handler' = [handler EXCEPT ![c] = r]
      BY <2>1
    <2> HIDE DEF r
    <2>5. /\ handler' \in [Clients -> Handlers]
          /\ OneAccepted' /\ PlacesAccounted' /\ OwnedConnections' /\ DownIsClean' /\ SteadyLeft'
      BY <1>1, <1>2, <2>3, <2>4, HandlerKeeps
    <2>6. Cardinality(Candidates) \in Nat \ {0}
      <3>1. IsFiniteSet(Members)
        BY MembersAssumption, FS_Interval DEF Members
      <3>2. IsFiniteSet(Candidates)
        BY <2>2, <3>1, FS_Subset
      <3> QED
        BY <1>4, <3>2, FS_CardinalityType, FS_EmptySet
    <2>7. /\ pool' \in [healthy : SUBSET Members, trusted : SUBSET Members, next : Nat]
      <3>1. Rotation(Cardinality(Candidates)) \in Nat
        BY <2>6 DEF Rotation, IInv, TypeOK
      <3> QED
        BY <2>1, <2>2, <3>1 DEF IInv, TypeOK
    <2>8. TypeOK'
      BY <1>2, <2>5, <2>7 DEF IInv, TypeOK, Handlers, HandlerSteps, world, serve
    <2> QED
      BY <2>5, <2>8 DEF IInv
  <1> QED
    BY <1>3, <1>4

LEMMA DialKeeps ==
  ASSUME IInv, NEW c \in Clients, Dial(c)
  PROVE  IInv'
  <1> DEFINE b == NextOf(handler[c].from, handler[c].todo)
  <1>1. handler[c].pc = "dial" /\ handler[c] \in Handlers /\ handler[c].steady \subseteq Ready
        /\ <<c, "upstream">> \notin open
        /\ (handler[c].steady \subseteq handler[c].todo \/ Stopping)
    BY HandlersType DEF Dial, IInv, SteadyLeft, OwnedConnections
  <1>2. UNCHANGED <<world, serve, register, closed, pool, places, monitor, arrivals>>
    BY DEF Dial
  <1>3. CASE LeavesCandidates(c, "add") /\ open' = open \cup {<<c, "upstream">>}
    <2> DEFINE r == [NoHandler EXCEPT !.pc = "add"]
    <2>1. r \in Handlers /\ r.pc = "add" /\ r.steady = {}
          /\ handler' = [handler EXCEPT ![c] = r]
      BY <1>3 DEF LeavesCandidates, NoHandler, Handlers, HandlerSteps
    <2> HIDE DEF r
    <2>2. /\ handler' \in [Clients -> Handlers]
          /\ OneAccepted' /\ PlacesAccounted' /\ OwnedConnections' /\ DownIsClean' /\ SteadyLeft'
      BY <1>1, <1>2, <1>3, <2>1, HandlerKeeps
    <2>3. TypeOK'
      BY <1>2, <1>3, <2>2 DEF IInv, TypeOK, Handlers, HandlerSteps, world, serve
    <2> QED
      BY <2>2, <2>3 DEF IInv
  <1>4. CASE Handles(c, "mark") /\ open' = open /\ (Stopping \/ envelope[b] # "ready")
    <2> DEFINE r == [handler[c] EXCEPT !.pc = "mark"]
    <2>1. r \in Handlers /\ r.pc = "mark" /\ r.steady = handler[c].steady
          /\ r.todo = handler[c].todo /\ r.from = handler[c].from
          /\ handler' = [handler EXCEPT ![c] = r]
      BY <1>4, Moved DEF HandlerSteps
    <2> HIDE DEF r
    <2>2. handler[c].steady \subseteq handler[c].todo \ {b} \/ Stopping
      BY <1>1, <1>4 DEF Ready
    <2>3. /\ handler' \in [Clients -> Handlers]
          /\ OneAccepted' /\ PlacesAccounted' /\ OwnedConnections' /\ DownIsClean' /\ SteadyLeft'
      BY <1>1, <1>2, <1>4, <2>1, <2>2, HandlerKeeps
    <2>4. TypeOK'
      BY <1>2, <1>4, <2>3 DEF IInv, TypeOK, Handlers, HandlerSteps, world, serve
    <2> QED
      BY <2>3, <2>4 DEF IInv
  <1> QED
    BY <1>3, <1>4 DEF Dial

LEMMA MarkKeeps ==
  ASSUME IInv, NEW c \in Clients, Mark(c)
  PROVE  IInv'
  <1> DEFINE b == NextOf(handler[c].from, handler[c].todo)
             r == [handler[c] EXCEPT !.pc = "dial", !.todo = @ \ {b}]
  <1>1. handler[c].pc = "mark" /\ handler[c] \in Handlers /\ handler[c].steady \subseteq Ready
        /\ <<c, "upstream">> \notin open
        /\ (handler[c].steady \subseteq handler[c].todo \ {b} \/ Stopping)
    BY HandlersType DEF Mark, IInv, SteadyLeft, OwnedConnections
  <1>2. UNCHANGED <<world, serve, open, register, closed, places, monitor, arrivals>>
    BY DEF Mark, conns
  <1>3. handler' = [handler EXCEPT ![c] = r]
    BY HandlersType DEF Mark, IInv, Handlers
  <1>4. r \in Handlers /\ r.pc = "dial" /\ r.steady = handler[c].steady
        /\ r.todo = handler[c].todo \ {b}
    BY <1>1 DEF Handlers, HandlerSteps
  <1>5. /\ pool' \in [healthy : SUBSET Members, trusted : SUBSET Members, next : Nat]
    <2>1. pool.healthy \ {b} \in SUBSET Members /\ pool.trusted \in SUBSET Members /\ pool.next \in Nat
      BY DEF IInv, TypeOK
    <2>2. SetPool(pool.healthy \ {b}, pool.trusted, pool.next)
      BY DEF Mark
    <2> HIDE DEF b
    <2> QED
      BY <2>1, <2>2, PoolType DEF IInv
  <1> HIDE DEF r, b
  <1>6. /\ handler' \in [Clients -> Handlers]
        /\ OneAccepted' /\ PlacesAccounted' /\ OwnedConnections' /\ DownIsClean' /\ SteadyLeft'
    BY <1>1, <1>2, <1>3, <1>4, HandlerKeeps
  <1>7. TypeOK'
    BY <1>2, <1>5, <1>6 DEF IInv, TypeOK, Handlers, HandlerSteps, world, serve
  <1> QED
    BY <1>6, <1>7 DEF IInv

(* Add, the end of a relay, and the drop that follows it. *)
LEMMA FinishKeeps ==
  ASSUME IInv, NEW c \in Clients, Unserved(c) \/ Add(c) \/ RelayEnds(c) \/ Drop(c)
  PROVE  IInv'
  <1>1. handler[c].pc \in {"dial", "add", "relay", "drop"} /\ handler[c] \in Handlers
        /\ handler[c].steady \subseteq Ready
        /\ (handler[c].pc \in {"dial", "drop"} => <<c, "upstream">> \notin open)
    BY HandlersType DEF Unserved, Add, RelayEnds, Drop, IInv, SteadyLeft, OwnedConnections
  <1>2. UNCHANGED <<world, serve, pool, places, monitor, arrivals>>
    BY DEF Unserved, Add, RelayEnds, Drop
  <1>3. /\ open' \subseteq open /\ register' \subseteq Clients \X {"client", "upstream"}
        /\ closed' = closed
    BY DEF Unserved, Add, Adds, RelayEnds, Drop, conns, IInv, TypeOK
  <1>4. PICK r \in Handlers :
          /\ handler' = [handler EXCEPT ![c] = r]
          /\ r.pc \in {"relay", "drop", "place"} /\ r.steady \subseteq Ready
          /\ r.pc = "place" => <<c, "client">> \notin open'
          /\ <<c, "upstream">> \in open' => r.pc = "relay"
    <2>1. CASE Unserved(c)
      <3> DEFINE n == [NoHandler EXCEPT !.pc = "drop"]
      <3>1. n \in Handlers /\ n.pc = "drop" /\ n.steady = {}
        BY DEF NoHandler, Handlers, HandlerSteps
      <3>2. handler' = [handler EXCEPT ![c] = n] /\ open' = open /\ handler[c].pc = "dial"
        BY <2>1 DEF Unserved, LeavesCandidates, conns
      <3> QED
        BY <1>1, <3>1, <3>2
    <2>2. CASE Add(c)
      BY <1>1, <2>2, Moved DEF Add, HandlerSteps
    <2>3. CASE RelayEnds(c)
      BY <1>1, <2>3, Moved DEF RelayEnds, HandlerSteps
    <2>4. CASE Drop(c)
      <3>1. handler[c].pc = "drop" /\ <<c, "client">> \notin open' /\ <<c, "upstream">> \notin open'
        BY <1>1, <1>3, <2>4 DEF Drop
      <3> QED
        BY <1>1, <2>4, <3>1, Moved DEF Drop, HandlerSteps
    <2> QED
      BY <2>1, <2>2, <2>3, <2>4
  <1>5. /\ handler' \in [Clients -> Handlers]
        /\ OneAccepted' /\ PlacesAccounted' /\ OwnedConnections' /\ DownIsClean' /\ SteadyLeft'
    BY <1>1, <1>2, <1>3, <1>4, HandlerKeeps
  <1>6. TypeOK'
    BY <1>2, <1>3, <1>5 DEF IInv, TypeOK, Handlers, HandlerSteps, world, serve
  <1> QED
    BY <1>5, <1>6 DEF IInv

-----------------------------------------------------------------------------
(* Clients come and go. *)

LEMMA AcceptKeeps ==
  ASSUME IInv, NEW c \in Clients, Accept(c)
  PROVE  IInv'
  <1>1. /\ loop = "serving" /\ accepted = {} /\ handler[c].pc = "none"
        /\ loop' = "accepted" /\ accepted' = {c} /\ open' = open \cup {<<c, "client">>}
        /\ UNCHANGED <<world, retry, listening, cancelled, cleanup, register, closed, pool,
                       places, monitor, handler>>
    BY DEF Accept, IInv, OneAccepted
  <1>2. arrivals' \in 0..MaxArrivals
    BY BoundsAssumption DEF Accept, IInv, TypeOK
  <1>3. TypeOK'
    BY <1>1, <1>2 DEF IInv, TypeOK, world
  <1>4. OneAccepted'
    BY <1>1 DEF OneAccepted
  <1>5. Handled' = Handled
    BY <1>1 DEF Handled
  <1>6. PlacesAccounted' /\ DownIsClean'
    BY <1>1, <1>5 DEF IInv, PlacesAccounted, DownIsClean, Down
  <1>7. OwnedConnections'
    BY <1>1 DEF IInv, OwnedConnections
  <1>8. SteadyLeft'
    <2>1. Ready' = Ready /\ Stopping' = Stopping
      BY <1>1 DEF Ready, Stopping, world
    <2> QED
      BY <1>1, <2>1 DEF IInv, SteadyLeft
  <1> QED
    BY <1>3, <1>4, <1>6, <1>7, <1>8 DEF IInv

(* The handler of one client appears or disappears. *)
LEMMA AdmitKeeps ==
  ASSUME IInv, Admit
  PROVE  IInv'
  <1>1. PICK c \in accepted :
          IF places < MaxClients
          THEN /\ places' = places + 1
               /\ Adds(<<c, "client">>, open)
               /\ handler' = [handler EXCEPT ![c] = [NoHandler EXCEPT !.pc = "pick"]]
          ELSE /\ handler' = handler
               /\ open' = open \ {<<c, "client">>}
               /\ UNCHANGED <<places, register, closed>>
    <2>1. \A c \in accepted : c \in Clients /\ handler[c].pc = "none" /\ handler[c] \in Handlers
      BY HandlersType DEF IInv, TypeOK, OneAccepted
    <2>2. \A c \in accepted : [handler EXCEPT ![c].pc = "none"] = handler
      BY <2>1, HandlersType DEF IInv, Handlers
    <2> QED
      BY <2>2 DEF Admit
  <1>2. c \in Clients /\ handler[c].pc = "none" /\ accepted = {c} /\ loop = "accepted"
    BY DEF IInv, TypeOK, OneAccepted
  <1>3. /\ loop' = "serving" /\ accepted' = {}
        /\ UNCHANGED <<world, retry, listening, cancelled, cleanup, pool, monitor,
                       arrivals>>
    BY DEF Admit
  <1>4. Ready' = Ready /\ (Stopping' <=> Stopping)
    BY <1>2, <1>3 DEF Ready, Stopping, world
  <1>5. CASE places < MaxClients
    <2> DEFINE n == [NoHandler EXCEPT !.pc = "pick"]
    <2>1. n \in Handlers /\ n.pc = "pick" /\ n.steady = {}
      BY DEF NoHandler, Handlers, HandlerSteps
    <2>2. handler' = [handler EXCEPT ![c] = n] /\ handler \in [Clients -> Handlers]
          /\ places' = places + 1
      BY <1>1, <1>5, HandlersType DEF IInv
    <2>3. open' \subseteq open /\ register' \subseteq Clients \X {"client", "upstream"}
          /\ closed' = closed
      BY <1>1, <1>2, <1>5 DEF Adds, IInv, TypeOK
    <2> HIDE DEF n
    <2>4. /\ handler' \in [Clients -> Handlers] /\ handler'[c] = n
          /\ \A d \in Clients \ {c} : handler'[d] = handler[d]
      BY <1>2, <2>1, <2>2
    <2>5. TypeOK'
      BY <1>3, <2>2, <2>3, <2>4 DEF IInv, TypeOK, Handlers, HandlerSteps, world
    <2>6. c \notin Handled /\ Handled' = Handled \cup {c}
      BY <1>2, <2>1, <2>4 DEF Handled
    <2>7. PlacesAccounted'
      <3>1. IsFiniteSet(Handled) /\ Cardinality(Handled) \in Nat
        BY FiniteHandled DEF IInv
      <3>2. Cardinality(Handled') = Cardinality(Handled) + 1
        BY <2>6, <3>1, FS_AddElement
      <3> QED
        BY <1>5, <2>2, <3>1, <3>2, BoundsAssumption DEF IInv, PlacesAccounted
    <2>8. OneAccepted' /\ DownIsClean'
      BY <1>2, <1>3 DEF IInv, OneAccepted, DownIsClean, Down
    <2>9. OwnedConnections'
      <3> SUFFICES ASSUME NEW d \in Clients
                   PROVE  /\ <<d, "client">> \in open' => handler'[d].pc \notin {"none", "place"}
                          /\ <<d, "upstream">> \in open' => handler'[d].pc \in {"add", "relay"}
        BY DEF OwnedConnections
      <3>1. CASE d = c
        BY <1>2, <2>1, <2>3, <2>4, <3>1 DEF IInv, OwnedConnections
      <3>2. CASE d # c
        BY <1>2, <2>3, <2>4, <3>2 DEF IInv, OwnedConnections
      <3> QED
        BY <3>1, <3>2
    <2>10. SteadyLeft'
      BY <1>4, <2>1, <2>4 DEF IInv, SteadyLeft
    <2> QED
      BY <2>5, <2>7, <2>8, <2>9, <2>10 DEF IInv
  <1>6. CASE ~(places < MaxClients)
    <2>1. UNCHANGED <<handler, places, register, closed>> /\ open' = open \ {<<c, "client">>}
      BY <1>1, <1>6
    <2>2. TypeOK'
      BY <1>3, <2>1 DEF IInv, TypeOK, world
    <2>3. Handled' = Handled
      BY <2>1 DEF Handled
    <2>4. PlacesAccounted' /\ OneAccepted' /\ DownIsClean'
      BY <1>2, <1>3, <2>1, <2>3 DEF IInv, PlacesAccounted, OneAccepted, DownIsClean, Down
    <2>5. OwnedConnections'
      BY <1>2, <1>3, <2>1 DEF IInv, OwnedConnections
    <2>6. SteadyLeft'
      BY <1>4, <2>1 DEF IInv, SteadyLeft
    <2> QED
      BY <2>2, <2>4, <2>5, <2>6 DEF IInv
  <1> QED
    BY <1>5, <1>6

LEMMA LeaveKeeps ==
  ASSUME IInv, NEW c \in Clients, Leave(c)
  PROVE  IInv'
  <1>1. /\ handler[c].pc = "place" /\ places' = places - 1
        /\ handler' = [handler EXCEPT ![c] = NoHandler] /\ handler \in [Clients -> Handlers]
        /\ UNCHANGED <<world, serve, open, register, closed, pool, monitor, arrivals>>
    BY HandlersType DEF Leave, IInv, conns
  <1>2. /\ handler' \in [Clients -> Handlers] /\ handler'[c] = NoHandler
        /\ \A d \in Clients \ {c} : handler'[d] = handler[d]
    BY <1>1, NoHandlerType
  <1>3. c \in Handled /\ Handled' = Handled \ {c} /\ loop \notin Down
    BY <1>1, <1>2, NoHandlerType, RunningIsUp DEF Handled
  <1>4. PlacesAccounted' /\ places' \in Nat
    <2>1. IsFiniteSet(Handled) /\ Cardinality(Handled) \in Nat
      BY FiniteHandled DEF IInv
    <2>2. Cardinality(Handled') = Cardinality(Handled) - 1
      BY <1>3, <2>1, FS_RemoveElement
    <2>3. Cardinality(Handled') \in Nat
      BY <1>3, <2>1, FS_Subset, FS_CardinalityType
    <2> QED
      BY <1>1, <2>1, <2>2, <2>3, BoundsAssumption DEF IInv, PlacesAccounted
  <1>5. TypeOK'
    BY <1>1, <1>2, <1>4 DEF IInv, TypeOK, Handlers, HandlerSteps, world, serve
  <1>6. OneAccepted' /\ DownIsClean'
    BY <1>1, <1>2, <1>3, NoHandlerType DEF IInv, TypeOK, OneAccepted, DownIsClean, serve
  <1>7. OwnedConnections'
    <2>1. \A d \in Clients : d # c => handler'[d] = handler[d]
      BY <1>2
    <2>2. <<c, "upstream">> \notin open /\ (<<c, "client">> \in open => c \in accepted)
      BY <1>1 DEF IInv, OwnedConnections
    <2> QED
      BY <1>1, <2>1, <2>2 DEF IInv, OwnedConnections, serve
  <1>8. SteadyLeft'
    <2>1. Ready' = Ready /\ (Stopping' <=> Stopping)
      BY <1>1 DEF Ready, Stopping, world, serve
    <2> QED
      BY <1>2, <2>1, NoHandlerType DEF IInv, SteadyLeft
  <1> QED
    BY <1>4, <1>5, <1>6, <1>7, <1>8 DEF IInv

(* A member that changes is nobody's steady candidate any more. *)
LEMMA ChangeKeeps ==
  ASSUME IInv, NEW b \in Members, Change(b)
  PROVE  IInv'
  <1>1. /\ handler' = [c \in Clients |-> [handler[c] EXCEPT !.steady = @ \ {b}]]
        /\ UNCHANGED <<port, serve, open, register, closed, pool, places, monitor,
                       arrivals>>
    BY DEF Change, conns
  <1>2. /\ envelope' \in [Members -> {"missing", "stopped", "unready", "ready"}]
        /\ \A a \in Members \ {b} : envelope'[a] = envelope[a]
    BY DEF Change, IInv, TypeOK
  <1>3. changes' \in 0..MaxChanges
    BY BoundsAssumption DEF Change, IInv, TypeOK
  <1>4. handler \in [Clients -> Handlers]
    BY HandlersType DEF IInv
  <1>5. \A c \in Clients : /\ handler'[c] \in Handlers /\ handler'[c].pc = handler[c].pc
                           /\ handler'[c].todo = handler[c].todo
                           /\ handler'[c].from = handler[c].from
                           /\ handler'[c].steady = handler[c].steady \ {b}
    BY <1>1, <1>4 DEF Handlers
  <1>6. handler' \in [Clients -> Handlers]
    BY <1>1, <1>5
  <1>7. TypeOK'
    BY <1>1, <1>2, <1>3, <1>6 DEF IInv, TypeOK, Handlers, HandlerSteps, serve
  <1>8. Handled' = Handled
    BY <1>5 DEF Handled
  <1>9. OneAccepted' /\ PlacesAccounted' /\ OwnedConnections' /\ DownIsClean'
    BY <1>1, <1>5, <1>8
       DEF IInv, TypeOK, OneAccepted, PlacesAccounted, OwnedConnections, DownIsClean, serve
  <1>10. SteadyLeft'
    <2>1. Ready \ {b} \subseteq Ready' /\ (Stopping' <=> Stopping)
      BY <1>1, <1>2 DEF Ready, Stopping, serve
    <2> QED
      BY <1>5, <2>1 DEF IInv, SteadyLeft
  <1> QED
    BY <1>7, <1>9, <1>10 DEF IInv

(* One that comes back is Ready too. *)
LEMMA ReturnKeeps ==
  ASSUME IInv, NEW b \in Members, Returns(b)
  PROVE  IInv'
  <1>1. UNCHANGED <<port, changes, serve, open, register, closed, pool, places, monitor, handler,
                    arrivals>>
    BY DEF Returns, conns
  <1>2. /\ envelope' \in [Members -> {"missing", "stopped", "unready", "ready"}]
        /\ Ready \subseteq Ready' /\ (Stopping' <=> Stopping)
    BY <1>1 DEF Returns, IInv, TypeOK, Ready, Stopping, serve
  <1>3. TypeOK'
    BY <1>1, <1>2 DEF IInv, TypeOK, serve
  <1>4. Handled' = Handled
    BY <1>1 DEF Handled
  <1>5. OneAccepted' /\ PlacesAccounted' /\ OwnedConnections' /\ DownIsClean'
    BY <1>1, <1>4
       DEF IInv, OneAccepted, PlacesAccounted, OwnedConnections, DownIsClean, serve
  <1>6. SteadyLeft'
    BY <1>1, <1>2 DEF IInv, SteadyLeft
  <1> QED
    BY <1>3, <1>5, <1>6 DEF IInv

-----------------------------------------------------------------------------
(* The proxy begins with nothing. *)
LEMMA InitIInv == Init => IInv
  <1> SUFFICES ASSUME Init PROVE IInv
    OBVIOUS
  <1>1. handler \in [Clients -> Handlers] /\ \A c \in Clients : handler[c] = NoHandler
    BY NoHandlerType DEF Init
  <1>2. TypeOK
    <2>1. /\ envelope \in [Members -> {"missing", "stopped", "unready", "ready"}]
          /\ {port, cancelled, listening, closed} \subseteq BOOLEAN
          /\ loop = "validate" /\ cleanup = "off" /\ accepted = {} /\ open = {} /\ register = {}
      BY DEF Init
    <2>2. retry \in 1..MaxRetry /\ places \in Nat
      BY BoundsAssumption DEF Init
    <2>3. /\ pool \in [healthy : SUBSET Members, trusted : SUBSET Members, next : Nat]
          /\ monitor \in [pc : {"none", "idle", "health", "identity"},
                          todo : SUBSET Members, found : SUBSET Members]
      BY DEF Init, Resting
    <2>4. arrivals \in 0..MaxArrivals /\ changes \in 0..MaxChanges
      BY BoundsAssumption DEF Init
    <2> QED
      BY <1>1, <2>1, <2>2, <2>3, <2>4 DEF TypeOK, Handlers, HandlerSteps
  <1>3. Handled = {}
    BY <1>1, NoHandlerType DEF Handled
  <1>4. PlacesAccounted
    BY <1>3, FS_EmptySet, BoundsAssumption DEF Init, PlacesAccounted
  <1>5. OneAccepted /\ OwnedConnections /\ DownIsClean
    BY <1>3 DEF Init, OneAccepted, OwnedConnections, DownIsClean, Resting
  <1>6. SteadyLeft
    BY <1>1, NoHandlerType DEF SteadyLeft
  <1> QED
    BY <1>2, <1>4, <1>5, <1>6 DEF IInv

LEMMA NextKeeps == IInv /\ [Next]_vars => IInv'
  <1> SUFFICES ASSUME IInv, [Next]_vars PROVE IInv'
    OBVIOUS
  <1>1. CASE Validate \/ FirstProbe \/ Listen \/ Retry \/ End
    BY <1>1, StartKeeps
  <1>2. CASE AcceptFails \/ CleanupStarts \/ Cleanup \/ Stop \/ Drained
    BY <1>2, StopKeeps
  <1>3. CASE Admit
    BY <1>3, AdmitKeeps
  <1>4. CASE \/ \E question \in {"health", "identity"} : Ask(question)
             \/ \E b \in Members : Answer(b)
             \/ Replace \/ MonitorStops \/ PortChange \/ Cancel
    BY <1>4, AsideKeeps
  <1>5. ASSUME NEW c \in Clients, Accept(c) \/ Handler(c) \/ RelayEnds(c) PROVE IInv'
    BY <1>5, AcceptKeeps, PickKeeps, DialKeeps, MarkKeeps, FinishKeeps, LeaveKeeps DEF Handler
  <1>6. ASSUME NEW b \in Members, Change(b) \/ Returns(b) PROVE IInv'
    BY <1>6, ChangeKeeps, ReturnKeeps
  <1>7. CASE UNCHANGED vars
    <2>1. UNCHANGED <<envelope, port, changes, loop, retry, listening, accepted, cancelled, cleanup,
                      open, register, closed, pool, places, monitor, handler, arrivals>>
      BY <1>7 DEF vars, world, serve, conns
    <2>2. TypeOK'
      BY <2>1 DEF IInv, TypeOK
    <2>3. Handled' = Handled /\ Ready' = Ready /\ (Stopping' <=> Stopping)
      BY <2>1 DEF Handled, Ready, Stopping
    <2> QED
      BY <2>1, <2>2, <2>3
         DEF IInv, OneAccepted, PlacesAccounted, OwnedConnections, DownIsClean, SteadyLeft
  <1> QED
    BY <1>1, <1>2, <1>3, <1>4, <1>5, <1>6, <1>7 DEF Next, Loop

(* The proxy's state keeps its types (serveHAProxy, monitorHAProxyHealth,    *)
(* handleHAProxyClient).                                                     *)
THEOREM ProxyTypeCorrect == Spec => []TypeOK
  <1>1. IInv => TypeOK
    BY DEF IInv
  <1> QED
    BY <1>1, InitIInv, NextKeeps, PTL DEF Spec

(* Every handler holds one place and gives it back: the places never run out *)
(* by themselves (the clients channel of serveHAProxy).                      *)
THEOREM ProxyAccountsPlaces == Spec => []PlacesAccounted
  <1>1. IInv => PlacesAccounted
    BY DEF IInv
  <1> QED
    BY <1>1, InitIInv, NextKeeps, PTL DEF Spec

(* A proxy that is down has no connection, no handler and no goroutine left  *)
(* (the waits at the end of serveHAProxy, haProxyConnections.add).           *)
THEOREM ProxyReturnsClean == Spec => []ReturnsClean
  <1>1. IInv => ReturnsClean
    <2> SUFFICES ASSUME IInv, loop \in Down
                 PROVE  /\ ~listening /\ open = {} /\ accepted = {} /\ Handled = {}
                        /\ monitor.pc = "none" /\ cleanup = "off"
      BY DEF ReturnsClean, Down
    <2>1. ~listening /\ Handled = {} /\ monitor.pc = "none" /\ cleanup = "off" /\ accepted = {}
      BY DEF IInv, DownIsClean, OneAccepted, Down
    <2>2. open = {}
      <3>1. \A c \in Clients : <<c, "client">> \notin open /\ <<c, "upstream">> \notin open
        BY <2>1 DEF IInv, OwnedConnections, Handled
      <3>2. open \subseteq Clients \X {"client", "upstream"}
        BY DEF IInv, TypeOK
      <3>3. ASSUME NEW x \in open PROVE FALSE
        <4>1. PICK c \in Clients, side \in {"client", "upstream"} : x = <<c, side>>
          BY <3>2
        <4>2. side = "client" \/ side = "upstream"
          OBVIOUS
        <4> QED
          BY <3>1, <3>3, <4>1, <4>2
      <3> QED
        BY <3>3
    <2> QED
      BY <2>1, <2>2
  <1> QED
    BY <1>1, InitIInv, NextKeeps, PTL DEF Spec

(* A client is turned away only when every candidate it was given stopped    *)
(* being Ready meanwhile, or the proxy stops (handleHAProxyClient).          *)
THEOREM ProxyFindsTheReady == Spec => FindsTheReady
  <1>1. IInv /\ [Next]_vars =>
          [\A c \in Clients : Unserved(c) => handler[c].steady = {} \/ Stopping]_vars
    <2> SUFFICES ASSUME IInv, NEW c \in Clients, Unserved(c)
                 PROVE  handler[c].steady = {} \/ Stopping
      OBVIOUS
    <2>1. handler[c].pc = "dial" /\ handler[c].todo = {}
      BY DEF Unserved
    <2> QED
      BY <2>1 DEF IInv, SteadyLeft
  <1> QED
    BY <1>1, InitIInv, NextKeeps, PTL DEF Spec, FindsTheReady

(* Every handler gives its place back, and a proxy that is down has left no  *)
(* connection, handler or goroutine to the one that is started next.         *)
THEOREM ProxyLeaksNothing == Spec => []NothingLeaks
  <1>1. PlacesAccounted /\ ReturnsClean => NothingLeaks
    BY DEF NothingLeaks
  <1> QED
    BY <1>1, ProxyAccountsPlaces, ProxyReturnsClean, PTL
=============================================================================
