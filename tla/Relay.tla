------------------------------- MODULE Relay -------------------------------
(***************************************************************************)
(* The relay server (relay/p2p.rs, lib.rs, metric_server.rs): a libp2p     *)
(* relay whose events a worker records in a metric service, and an HTTP    *)
(* server that shows the service and takes the clients' exports.           *)
(*                                                                         *)
(* libp2p is external.  It opens and closes circuits and reservations and  *)
(* queues an event for each change; the worker takes the events one by     *)
(* one.  The relay's copy of the client metrics is module ClientMetrics.   *)
(***************************************************************************)
EXTENDS ClientMetrics

CONSTANTS
  Pairs,     \* pairs <<source, destination>> of peers with circuits
  Peers,     \* peers that ask for reservations
  MaxSteps,  \* bound: events of libp2p and exports together
  QueueCap   \* bound: events libp2p has queued

ASSUME RelayAssumption ==
  /\ IsFiniteSet(Pairs) /\ IsFiniteSet(Peers)
  /\ {MaxSteps, QueueCap} \subseteq Nat

VARIABLES
  worker,       \* the swarm's task: where it is, the service it records with
  server,       \* the HTTP server: "up" or "down"
  circuits,     \* external: pair -> number of open circuits
  reservations, \* external: peers with a reservation
  queue,        \* external: events the worker has not taken
  happened,     \* number of events of libp2p so far
  metrics       \* RelayMetrics of the worker's first service and of the shared one

libp2p == <<circuits, reservations, queue, happened>>
relayVars == <<worker, server, libp2p, metrics>>
allVars == <<relayVars, metricsVars>>

-----------------------------------------------------------------------------
(* The metric service *)

\* RelayMetrics::new.  The counters of denials and time-outs are registered and
\* never changed: nothing that runs records one (see DenyCircuit).
NewRelayMetrics ==
  [ circuits_accepted_total |-> 0, circuits_closed_total |-> 0,
    circuits_denied_total |-> 0,
    reservations_accepted_total |-> 0, reservations_closed_total |-> 0,
    reservations_denied_total |-> 0, reservations_timed_out_total |-> 0,
    connections_total |-> 0,
    circuit_accepted_pairs |-> <<>>, circuit_closed_pairs |-> <<>>,
    circuit_denied |-> <<>>,
    reservation_accepted_peers |-> {}, reservation_closed_peers |-> {} ]

\* record_circuit_event, with the event types it knows.
RecordCircuitEvent(m, type) ==
  CASE type = "accepted" -> [m EXCEPT !.circuits_accepted_total = @ + 1]
    [] type = "closed" -> [m EXCEPT !.circuits_closed_total = @ + 1]
    [] OTHER -> m

RecordReservationEvent(m, type) ==
  CASE type = "accepted" -> [m EXCEPT !.reservations_accepted_total = @ + 1]
    [] type = "closed" -> [m EXCEPT !.reservations_closed_total = @ + 1]
    [] OTHER -> m

RecordConnectionEvent(m) == [m EXCEPT !.connections_total = @ + 1]

\* The peer of a closed reservation leaves the accepted ones.
BugReservationMoves(m, type, p) ==
  CASE type = "accepted" ->
         [m EXCEPT !.reservations_accepted_total = @ + 1,
                   !.reservation_accepted_peers = @ \cup {p}]
    [] type = "closed" ->
         [m EXCEPT !.reservations_closed_total = @ + 1,
                   !.reservation_accepted_peers = @ \ {p},
                   !.reservation_closed_peers = @ \cup {p}]
    [] OTHER -> m
RecordReservationEventPeer(m, type, p) ==
  CASE type = "accepted" ->
         [m EXCEPT !.reservations_accepted_total = @ + 1,
                   !.reservation_accepted_peers = @ \cup {p}]
    [] type = "closed" ->
         [m EXCEPT !.reservations_closed_total = @ + 1,
                   !.reservation_closed_peers = @ \cup {p}]
    [] OTHER -> m

\* The pair of a circuit is listed once, as in the sets of reservations.
BugPairsAreASet(m, type, p) ==
  CASE type = "accepted" ->
         [m EXCEPT !.circuits_accepted_total = @ + 1,
                   !.circuit_accepted_pairs =
                      IF p \in Range(@) THEN @ ELSE Append(@, p)]
    [] type = "closed" ->
         [m EXCEPT !.circuits_closed_total = @ + 1,
                   !.circuit_closed_pairs =
                      IF p \in Range(@) THEN @ ELSE Append(@, p)]
    [] OTHER -> m
RecordCircuitEventPair(m, type, p) ==
  CASE type = "accepted" ->
         [m EXCEPT !.circuits_accepted_total = @ + 1,
                   !.circuit_accepted_pairs = Append(@, p)]
    [] type = "closed" ->
         [m EXCEPT !.circuits_closed_total = @ + 1,
                   !.circuit_closed_pairs = Append(@, p)]
    [] type = "denied" ->
         [m EXCEPT !.circuits_denied_total = @ + 1,
                   !.circuit_denied = Append(@, p)]
    [] OTHER -> m

-----------------------------------------------------------------------------
(* The worker *)

\* handle_relay_event: accepted and closed go to the recorders that know the
\* peers; denials and time-outs go to the others, which ignore them.  Of the
\* other events of the swarm only connections count (start_swarm).
Recorded(m, e) ==
  CASE e.kind = "circuit" /\ e.type # "denied" ->
         RecordCircuitEventPair(m, e.type, e.who)
    [] e.kind = "circuit" /\ e.type = "denied" ->
         RecordCircuitEvent(m, e.type)
    [] e.kind = "reservation" /\ e.type \in {"accepted", "closed"} ->
         RecordReservationEventPeer(m, e.type, e.who)
    [] e.kind = "reservation" /\ e.type \in {"denied", "timed_out"} ->
         RecordReservationEvent(m, e.type)
    [] e.kind = "connection" -> RecordConnectionEvent(m)
    [] OTHER -> m

Alive == worker.pc # "ended"
WithinBound == happened + updates < MaxSteps

\* MainRelayServerService::run: the worker was made with a service of its own;
\* its task replaces that one by the service the HTTP server has, and then
\* listens on both addresses.
SharedWorker(pc) == [pc |-> pc, service |-> "shared"]

StartSwarm ==
  /\ worker.pc = "starting"
  /\ worker' = SharedWorker("running")
  /\ UNCHANGED <<server, libp2p, metrics, metricsVars>>

\* An address is taken: the task only logs it, run returns, and with it the
\* process ends.
StartSwarmFails ==
  /\ worker.pc = "starting"
  /\ worker' = SharedWorker("ended")
  /\ UNCHANGED <<server, libp2p, metrics, metricsVars>>

\* The port of the HTTP server is taken: logged, and the relay goes on.
MetricsServerFails ==
  /\ Alive
  /\ server = "starting"
  /\ server' = "down"
  /\ UNCHANGED <<worker, libp2p, metrics, metricsVars>>
MetricsServerStarts ==
  /\ Alive
  /\ server = "starting"
  /\ server' = "up"
  /\ UNCHANGED <<worker, libp2p, metrics, metricsVars>>

\* One turn of the loop of start_swarm.
HandleSwarmEvent ==
  /\ worker.pc = "running"
  /\ queue # <<>>
  /\ metrics' = [metrics EXCEPT ![worker.service] = Recorded(@, Head(queue))]
  /\ queue' = Tail(queue)
  /\ UNCHANGED <<worker, server, circuits, reservations, happened, metricsVars>>

\* handle_client_metrics of the relay: its store is the backend's, and the four
\* process_ functions it calls first are empty.
RelayHandleClientMetrics(x) ==
  /\ Alive
  /\ server = "up"
  /\ WithinBound
  /\ HandleClientMetrics(x)
  /\ UNCHANGED relayVars

-----------------------------------------------------------------------------
(* libp2p: external *)

Happens(kind, type, who) ==
  /\ worker.pc = "running"
  /\ WithinBound
  /\ Len(queue) < QueueCap
  /\ happened' = happened + 1
  /\ queue' = Append(queue, [kind |-> kind, type |-> type, who |-> who])
  /\ UNCHANGED <<worker, server, metrics, metricsVars>>

AcceptCircuit(p) ==
  /\ Happens("circuit", "accepted", p)
  /\ circuits' = [circuits EXCEPT ![p] = @ + 1]
  /\ UNCHANGED reservations
CloseCircuit(p) ==
  /\ circuits[p] > 0
  /\ Happens("circuit", "closed", p)
  /\ circuits' = [circuits EXCEPT ![p] = @ - 1]
  /\ UNCHANGED reservations
DenyCircuit(p) ==
  /\ Happens("circuit", "denied", p)
  /\ UNCHANGED <<circuits, reservations>>

\* A reservation is one of a connection of the peer.
AcceptReservation(p) ==
  /\ Happens("reservation", "accepted", p)
  /\ reservations' = [reservations EXCEPT ![p] = @ + 1]
  /\ UNCHANGED circuits
RenewReservation(p) ==
  /\ reservations[p] > 0
  /\ Happens("reservation", "accepted", p)
  /\ UNCHANGED <<circuits, reservations>>
EndReservation(p, type) ==
  /\ reservations[p] > 0
  /\ Happens("reservation", type, p)
  /\ reservations' = [reservations EXCEPT ![p] = @ - 1]
  /\ UNCHANGED circuits
DenyReservation(p) ==
  /\ Happens("reservation", "denied", p)
  /\ UNCHANGED <<circuits, reservations>>

\* A connection is made, closed or dialled; or something that is only logged.
Connection(p) ==
  /\ \E kind \in {"connection", "other"} : Happens(kind, "event", p)
  /\ UNCHANGED <<circuits, reservations>>

Libp2pStep ==
  \/ \E p \in Pairs : AcceptCircuit(p) \/ CloseCircuit(p) \/ DenyCircuit(p)
  \/ \E p \in Peers :
       \/ AcceptReservation(p) \/ RenewReservation(p) \/ DenyReservation(p)
       \/ EndReservation(p, "closed") \/ EndReservation(p, "timed_out")
       \/ Connection(p)

-----------------------------------------------------------------------------

RelayInit ==
  /\ worker = [pc |-> "starting", service |-> "own"]
  /\ server = "starting"
  /\ circuits = [p \in Pairs |-> 0]
  /\ reservations = [p \in Peers |-> 0]
  /\ queue = <<>>
  /\ happened = 0
  /\ metrics = [s \in {"own", "shared"} |-> NewRelayMetrics]
  /\ MetricsInit

RelayNext ==
  \/ StartSwarm \/ StartSwarmFails
  \/ MetricsServerStarts \/ MetricsServerFails
  \/ HandleSwarmEvent
  \/ Libp2pStep
  \/ \E x \in Export : RelayHandleClientMetrics(x)

RelaySpec == RelayInit /\ [][RelayNext]_allVars

-----------------------------------------------------------------------------
(* Properties *)

\* What GET /relay-events-summary and GET /metrics show.
Served == metrics["shared"]

Times(seq, x) == Cardinality({i \in DOMAIN seq : seq[i] = x})
Queued(kind, type, p) == Times(queue, [kind |-> kind, type |-> type, who |-> p])

\* "Count only via pair-level recorder to avoid double counting": of every
\* pair, the circuits listed as accepted and not as closed are the open ones,
\* but for events the worker has still to take, and the counters are the
\* lengths of the lists (handle_relay_event).
CircuitsAddUp ==
  /\ \A p \in Pairs :
       Times(Served.circuit_accepted_pairs, p)
         + Queued("circuit", "accepted", p)
       = Times(Served.circuit_closed_pairs, p)
         + Queued("circuit", "closed", p) + circuits[p]
  /\ Served.circuits_accepted_total = Len(Served.circuit_accepted_pairs)
  /\ Served.circuits_closed_total = Len(Served.circuit_closed_pairs)

\* Every peer that has a reservation is listed, once the worker has taken the
\* event, and the counters are never behind the reservations: accepted ones
\* cover those that were closed and those that are there, renewals come on top
\* (handle_relay_event).
ReservationsAddUp ==
  /\ \A p \in Peers :
       reservations[p] > 0 =>
         \/ p \in Served.reservation_accepted_peers
         \/ Queued("reservation", "accepted", p) > 0
  /\ Served.reservation_closed_peers \subseteq Served.reservation_accepted_peers
  /\ Served.reservations_accepted_total
       + SumFunction([p \in Peers |-> Queued("reservation", "accepted", p)])
     >= Served.reservations_closed_total
        + SumFunction([p \in Peers |-> Queued("reservation", "closed", p)])
        + SumFunction(reservations)
=============================================================================
