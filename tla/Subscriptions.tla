--------------------------- MODULE Subscriptions ---------------------------
(***************************************************************************)
(* The backend server as its clients see it: the RPC handlers of module    *)
(* Backend, the broadcast channel they send their events on, and the       *)
(* subscribe_to_events task that filters the channel for one client        *)
(* (node/vane-backend/src/server.rs).                                      *)
(*                                                                         *)
(* A handler holds the server's mutex until its last event is sent, but a  *)
(* task may subscribe or receive between two sends of one handler: the     *)
(* events a handler has yet to send are its  outbox , and a non-empty      *)
(* outbox is a held mutex.                                                 *)
(***************************************************************************)
EXTENDS Backend

CONSTANTS
  Clients,    \* the subscriptions of a run
  AddressOf,  \* the address each one filters for
  Capacity,   \* events the broadcast channel keeps: 100, rounded up to 128
  MaxEvents   \* bound: no call that broadcasts starts beyond so many events

ASSUME SubscriptionsAssumption ==
  /\ AddressOf \in [Clients -> Addr]
  /\ Capacity \in Nat \ {0}
  /\ MaxEvents \in Nat

VARIABLES
  outbox, \* events of the running handler that are not sent yet
  log,    \* every event sent on the channel; its last Capacity ones are kept
  subs    \* the subscriptions

serviceVars == <<backendVars, outbox, log, subs>>

\* start is the channel position at which the task subscribed, next the one it
\* receives next, hand the event it is about to write to the client's sink.
Subscription ==
  [ state : {"none", "accepted", "joined", "active", "ended"},
    start : Nat, next : Nat,
    hand : Seq(BackendEvent), delivered : Seq(BackendEvent) ]

-----------------------------------------------------------------------------
(* The filter *)

\* Faulty variant: the addresses are not compared.
BugConcernsEveryone(d, x) == d # Undecodable /\ ~IsReverted(d)

\* matches_tx: the data decodes to a transaction of the address that is not
\* reverted.
Concerns(d, x) ==
  /\ d # Undecodable
  /\ ~IsReverted(d)
  /\ x \in {d.sender, d.receiver}

ShouldSend(e, x) ==
  \/ e.type \in DataEventType /\ (e.address = x \/ Concerns(e.data, x))
  \/ e.type \in {"PeerDisconnected", "PendingTransactionsFetched"}
       /\ e.address = x
  \/ e.type = "DataExpired" /\ Concerns(e.data, x)

-----------------------------------------------------------------------------
(* The handlers and the channel *)

\* An RPC takes the mutex, runs its handler and has its events to send.
Call ==
  /\ outbox = <<>>
  /\ RpcCall
  /\ emitted' # <<>> => Len(log) < MaxEvents
  /\ outbox' = emitted'
  /\ UNCHANGED <<log, subs>>

TimePasses == Tick /\ UNCHANGED <<outbox, log, subs>>

\* event_sender.send(event).  Without a receiver the channel drops the event,
\* which nobody could receive anyway: a task receives what is sent after it
\* subscribed.
Broadcast ==
  /\ outbox # <<>>
  /\ log' = Append(log, Head(outbox))
  /\ outbox' = Tail(outbox)
  /\ UNCHANGED <<backendVars, subs>>

-----------------------------------------------------------------------------
(* subscribe_to_events *)

Quiet == UNCHANGED <<backendVars, outbox, log>>

\* pending.accept(): from here on the client believes it is subscribed.
Accept(c) ==
  /\ subs[c].state = "none"
  /\ subs' = [subs EXCEPT ![c].state = "accepted"]
  /\ Quiet

\* Faulty variant: the task does not wait for the mutex.
BugJoinGivesUp(c) ==
  /\ subs[c].state = "accepted"
  /\ subs' = [subs EXCEPT ![c].state = IF outbox = <<>> THEN "joined"
                                                       ELSE "ended"]
  /\ Quiet

\* The task takes the mutex to count the client.
Join(c) ==
  /\ subs[c].state = "accepted"
  /\ outbox = <<>>
  /\ subs' = [subs EXCEPT ![c].state = "joined"]
  /\ Quiet

\* Faulty variant: the task skips one event.
BugSubscribeLate(c) ==
  /\ subs[c].state = "joined"
  /\ subs' = [subs EXCEPT ![c].state = "active",
                          ![c].start = Len(log) + 2,
                          ![c].next = Len(log) + 2]
  /\ Quiet

\* event_sender.subscribe(): the first event received is the next one sent.
Subscribe(c) ==
  /\ subs[c].state = "joined"
  /\ subs' = [subs EXCEPT ![c].state = "active",
                          ![c].start = Len(log) + 1,
                          ![c].next = Len(log) + 1]
  /\ Quiet

\* Events in the channel that the task has not received.
Backlog(c) == Len(log) + 1 - subs[c].next

\* receiver.recv() returns an event, and the filter looks at it.
Receive(c) ==
  LET e == log[subs[c].next]
  IN  /\ subs[c].state = "active" /\ subs[c].hand = <<>>
      /\ Backlog(c) \in 1..Capacity
      /\ subs' = [subs EXCEPT
                    ![c].next = @ + 1,
                    ![c].hand = IF ShouldSend(e, AddressOf[c]) THEN <<e>>
                                                               ELSE <<>>]
      /\ Quiet

\* Faulty variants: the task goes on with the oldest event that is left; it
\* goes on waiting for the event it cannot have any more.
BugLagSkips(c) ==
  /\ subs[c].state = "active" /\ subs[c].hand = <<>>
  /\ Backlog(c) > Capacity
  /\ subs' = [subs EXCEPT ![c].next = Len(log) + 1 - Capacity]
  /\ Quiet

BugLagWaits(c) ==
  /\ subs[c].state = "active" /\ subs[c].hand = <<>>
  /\ Backlog(c) > Capacity
  /\ UNCHANGED subs
  /\ Quiet

\* receiver.recv() returns Lagged: the channel has dropped events the task had
\* not received, and the task ends.
Lag(c) ==
  /\ subs[c].state = "active" /\ subs[c].hand = <<>>
  /\ Backlog(c) > Capacity
  /\ subs' = [subs EXCEPT ![c].state = "ended"]
  /\ Quiet

\* sink.send(event) succeeds.
Deliver(c) ==
  /\ subs[c].state = "active" /\ subs[c].hand # <<>>
  /\ subs' = [subs EXCEPT ![c].hand = <<>>,
                          ![c].delivered = @ \o subs[c].hand]
  /\ Quiet

\* Faulty variant: the task goes on with the next event.
BugSinkFailureIgnored(c) ==
  /\ subs[c].state = "active" /\ subs[c].hand # <<>>
  /\ subs' = [subs EXCEPT ![c].hand = <<>>]
  /\ Quiet

\* Or it fails: the client is gone, and the task ends.
SinkFails(c) ==
  /\ subs[c].state = "active" /\ subs[c].hand # <<>>
  /\ subs' = [subs EXCEPT ![c].state = "ended"]
  /\ Quiet

-----------------------------------------------------------------------------

ServiceInit ==
  /\ BackendInit
  /\ outbox = <<>>
  /\ log = <<>>
  /\ subs = [c \in Clients |-> [ state |-> "none", start |-> 0, next |-> 0,
                                 hand |-> <<>>, delivered |-> <<>> ]]

TaskStep(c) ==
  Join(c) \/ Subscribe(c) \/ Receive(c) \/ Lag(c) \/ Deliver(c) \/ SinkFails(c)

ServiceNext ==
  \/ Call
  \/ TimePasses
  \/ Broadcast
  \/ \E c \in Clients : Accept(c) \/ TaskStep(c)

\* The runtime polls every task that can go on; a client reads what its
\* subscription is sent, or its connection breaks.
Fairness ==
  /\ WF_serviceVars(Broadcast)
  /\ \A c \in Clients : WF_serviceVars(TaskStep(c))

ServiceSpec == ServiceInit /\ [][ServiceNext]_serviceVars
FairService == ServiceSpec /\ Fairness

-----------------------------------------------------------------------------
(* Properties *)

\* Type invariant: the outbox and the log hold events, and every task is at a
\* position within the log.
ServiceTypeOK ==
  /\ outbox \in Seq(BackendEvent)
  /\ log \in Seq(BackendEvent)
  /\ subs \in [Clients -> Subscription]
  /\ \A c \in Clients :
       /\ subs[c].start <= subs[c].next
       /\ subs[c].next <= Len(log) + 1
       /\ Len(subs[c].hand) <= 1

\* The events a task has received, and those that are its client's.
Received(c) == SubSeq(log, subs[c].start, subs[c].next - 1)
Mine(c) == {e \in BackendEvent : ShouldSend(e, AddressOf[c])}

\* What a client has been sent, with the event in the task's hand, is exactly
\* what the filter selects of the events broadcast from the moment the task
\* subscribed up to the one it received last: no gap, no duplicate, in the
\* order of the broadcasts.  In particular a task that fell behind ends, it
\* does not go on after a gap.
StreamHasNoGap ==
  \A c \in Clients :
    subs[c].delivered \o subs[c].hand =
      IF subs[c].state \in {"active", "ended"} THEN Keep(Received(c), Mine(c))
                                               ELSE <<>>

Delivered(c) == {subs[c].delivered[i] : i \in DOMAIN subs[c].delivered}

\* The transactions an event carries.
Carried(e) ==
  CASE e.type \in DataEventType \cup {"DataExpired"} -> {e.data} \ {Undecodable}
    [] e.type = "PendingTransactionsFetched" -> Range(e.transactions)
    [] e.type = "PeerDisconnected" -> {}

\* A client is sent only transactions that its address is a party of, with two
\* exceptions, which the callers of the handlers bring about: those that a
\* handler was called with under the client's address, in an event of this very
\* call, and those a fetch finds because a sender request for the route was
\* made under the client's address (matches_direct, matches_tx).
OnlyPartiesAreTold ==
  \A c \in Clients : \A e \in Delivered(c) : \A t \in Carried(e) :
    \/ MayFetch(AddressOf[c], MultiId(t))
    \/ e.type \in DataEventType /\ e.address = AddressOf[c]

\* Whether an event announces what the store holds for a route, and the last
\* one of a sequence of events that does.
Announces(e, m) == e.type \in Announcing /\ MultiId(e.data) = m
LastAnnouncement(s, m) ==
  { i \in DOMAIN s :
      /\ Announces(s[i], m)
      /\ \A j \in DOMAIN s : Announces(s[j], m) => j <= i }

\* A task that has received everything has told its client the truth: the last
\* announcement the sender of a stored request was sent carries the data the
\* store has for it now.  Every change of the store is broadcast, reaches the
\* sender's stream, and does so in the order of the changes.  Only a reverted
\* transaction may be missing: its announcement reaches the sender if it was
\* made under the sender's address, as the sender's own revert is.
SenderIsUpToDate ==
  \A c \in Clients : \A m \in DOMAIN requests :
    LET told == subs[c].delivered
    IN  /\ m[1] = AddressOf[c]
        /\ subs[c].state = "active"
        /\ outbox = <<>> /\ Backlog(c) = 0 /\ subs[c].hand = <<>>
        /\ \E i \in DOMAIN told : Announces(told[i], m)
        /\ IsReverted(requests[m].data) =>
             \A k \in LastAnnouncement(log, m) : log[k].address = m[1]
        => \A i \in LastAnnouncement(told, m) : told[i].data = requests[m].data

\* The task of a client as a reader of the stream of broadcasts.  The event in
\* its hand is not given yet.
ReaderOf(c) ==
  LET waiting == subs[c].state \in {"none", "accepted", "joined"}
  IN  [ state |-> IF waiting THEN "waiting"
                  ELSE IF subs[c].state = "active" THEN "open" ELSE "over",
        pos |-> IF waiting THEN 0 ELSE subs[c].next - 1 - Len(subs[c].hand),
        got |-> subs[c].delivered ]
Wants(c, e) == ShouldSend(e, AddressOf[c])

Stream == INSTANCE EventStream WITH
            Readers <- Clients, Wanted <- Wants, published <- log,
            reader <- [c \in Clients |-> ReaderOf(c)]

\* The handlers, the channel with its capacity and the tasks together keep the
\* promise of EventStream to every client (subscribe_to_events).
ImplementsStream == Stream!StreamSpec

\* Every event broadcast while a task is subscribed is received and, if it is
\* the client's, sent; unless the subscription ends.
EventsAreDelivered ==
  \A c \in Clients : \A k \in 1..(MaxEvents + 2) :
    (subs[c].state = "active" /\ subs[c].start <= k /\ k <= Len(log))
      ~> (subs[c].state = "ended"
          \/ (subs[c].next > k /\ subs[c].hand = <<>>))

\* An accepted subscription comes to receive events.
AcceptedBecomesActive ==
  \A c \in Clients :
    (subs[c].state = "accepted") ~> (subs[c].state = "active")
=============================================================================
