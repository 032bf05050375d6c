------------------------------ MODULE Backend ------------------------------
(***************************************************************************)
(* The transaction store of the backend server                             *)
(* (node/vane-backend/src/server.rs, struct VaneSwarmServer): the peer     *)
(* table, the requests with their time to live, and the per-address lists  *)
(* of request ids.  The RPC layer takes one mutex around every handler, so *)
(* a handler is one step; but it reads the clock several times, and waits  *)
(* for the metrics in between, so that time passes within the step.  What  *)
(* a step broadcasts to the subscriptions is left in  emitted ; module     *)
(* Subscriptions models what becomes of it.                                *)
(*                                                                         *)
(* The address an RPC is called with is compared with nothing: it need not *)
(* be that of a party of the transaction.  Nor is the status looked at.    *)
(*                                                                         *)
(* A HashMap or DashMap is a function whose DOMAIN is its set of keys.     *)
(***************************************************************************)
EXTENDS TxStateMachine, FiniteSets, Lists

CONSTANTS
  Callers,     \* addresses that RPCs are called with: any, in the code
  Ttl,         \* REQUEST_TTL_SECONDS: thirty minutes
  HandlerTime, \* seconds a handler may take
  MaxClock,    \* bound: the clock stops here
  MaxListed,   \* bound: ids on all lists of senders, or of receivers
  U16,         \* number of values of times_requested: 2^16 in the code
  Undecodable  \* bytes that are not a TxStateMachine (the empty ones too)

ASSUME BackendAssumption ==
  /\ Callers \subseteq Addr
  /\ Ttl \in Nat
  /\ HandlerTime \in 0..Ttl
  /\ MaxClock \in Nat
  /\ MaxListed \in Nat
  /\ U16 \in Nat /\ U16 > 1
  /\ IsFiniteSet(Addr)
  /\ Undecodable \notin Tx

VARIABLES
  clock,             \* seconds, as read by SystemTime::now()
  peers,             \* sender -> (target account -> times_requested)
  requests,          \* multi id -> [data, created_at]
  sender_requests,   \* sender -> [multi_ids, created_at]
  receiver_requests, \* receiver -> [multi_ids, created_at]
  gauges,            \* the two Prometheus gauges a handler sets
  emitted,           \* the events the last step broadcast, in order
  pushed,            \* history: the lists each stored request was put on
  named              \* history: <<a, m>> if a sender request for route m was
                     \* made under an address a that is no party of it

store == <<requests, sender_requests, receiver_requests>>
history == <<pushed, named>>
backendVars ==
  <<clock, peers, requests, sender_requests, receiver_requests, gauges,
    emitted, pushed, named>>

-----------------------------------------------------------------------------
(* Data *)

RequestEntry == [data : Tx, created_at : Nat]
RequestListEntry == [multi_ids : Seq(Routes), created_at : Nat]

\* TargetPeers of one sender.
TargetPeers == UNION { [R -> 0..(U16 - 1)] : R \in SUBSET Addr }

\* A list is told from an earlier or later one of the same address by the time
\* it was created at.
ListRef == [of : Addr, created_at : Nat]
Push == [sender : SUBSET ListRef, receiver : SUBSET ListRef]

DataEventType ==
  { "SenderRequestReceived", "SenderRequestHandled", "SenderConfirmed",
    "SenderReverted", "ReceiverResponseReceived", "ReceiverResponseHandled",
    "TxSubmitted" }

BackendEvent ==
  [ type : DataEventType, address : Addr, data : Tx \cup {Undecodable} ]
  \cup [ type : {"PeerDisconnected"}, address : Addr ]
  \cup [ type : {"DataExpired"}, multi_id : Routes,
         data : Tx \cup {Undecodable} ]
  \cup [ type : {"PendingTransactionsFetched"}, address : Addr,
         transactions : Seq(Tx) ]

DataEvent(type, a, d) == [type |-> type, address |-> a, data |-> d]
DataExpired(m, d) == [type |-> "DataExpired", multi_id |-> m, data |-> d]

\* HashMap::insert.
Insert(f, k, v) ==
  [x \in DOMAIN f \cup {k} |-> IF x = k THEN v ELSE f[x]]

\* HashMap::remove.
RemoveKey(f, k) == [x \in DOMAIN f \ {k} |-> f[x]]

-----------------------------------------------------------------------------
(* Expiry *)

\* RequestEntry::is_expired and RequestListEntry::is_expired.  The
\* subtraction saturates, and created_at is never in the future here.
IsExpired(e, now) == now - e.created_at > Ttl

CleanupExpiredRequests(reqs, now) ==
  [m \in {k \in DOMAIN reqs : ~IsExpired(reqs[k], now)} |-> reqs[m]]

\* Faulty variant: a list expires one second before the requests of its age.
BugListsExpireEarly(lists, reqs, now) ==
  [a \in {k \in DOMAIN lists : now - lists[k].created_at < Ttl} |-> lists[a]]

\* cleanup_expired_sender_receiver_requests, for one of the two tables.  A list
\* goes when it is itself too old.  Ids of requests that have expired and are
\* still stored, because the cleanup of the requests read an earlier time, are
\* taken off the lists that stay; a list that has lost all its ids goes too.
CleanupExpiredLists(lists, reqs, now) ==
  LET gone == {m \in DOMAIN reqs : IsExpired(reqs[m], now)}
      kept(k) == Keep(lists[k].multi_ids, Routes \ gone)
  IN  [a \in {k \in DOMAIN lists :
                /\ ~IsExpired(lists[k], now)
                /\ gone # {} => kept(k) # <<>>} |->
         [lists[a] EXCEPT !.multi_ids = kept(a)]]

\* The times that a handler which starts now may read.
Moments == {n \in clock..(clock + HandlerTime) : n <= MaxClock}

\* What the first cleanup of a handler leaves.
LiveRequests == CleanupExpiredRequests(requests, clock)
LiveLists(lists, at) == CleanupExpiredLists(lists, LiveRequests, at)

\* Faulty variant: the gauges are set before the handler changes the tables.
BugGaugesBeforeChange(ps, rs) ==
  [ active_peers |-> Cardinality(DOMAIN peers),
    pending_requests |-> Cardinality(DOMAIN requests) ]

\* The gauges are set from the tables.  (What record_peer_added and
\* record_peer_removed add to or take from the first one is overwritten by
\* this before the handler ends.)
GaugesOf(ps, rs) ==
  [ active_peers |-> Cardinality(DOMAIN ps),
    pending_requests |-> Cardinality(DOMAIN rs) ]

\* The wait for the metrics and update_metrics, with which a handler that has
\* brought the tables to  rs, sl, rl  by the time  from  ends.
UpdateMetrics(from, rs, sl, rl) ==
  /\ clock' \in Moments
  /\ \E at \in from..clock' : requests' = CleanupExpiredRequests(rs, at)
  /\ sender_requests' = CleanupExpiredLists(sl, requests', clock')
  /\ receiver_requests' = CleanupExpiredLists(rl, requests', clock')
  /\ gauges' = GaugesOf(peers', requests')

-----------------------------------------------------------------------------
(* Sender requests *)

\* Faulty variant: the counter is wider than u16.
BugCountUnwrapped(s, r) ==
  LET targets == IF s \in DOMAIN peers THEN peers[s] ELSE <<>>
      times == IF r \in DOMAIN targets THEN targets[r] + 1 ELSE 1
  IN  Insert(peers, s, Insert(targets, r, times))

\* The peer table after a sender asked for a target once more.
RequestedOnceMore(s, r) ==
  LET targets == IF s \in DOMAIN peers THEN peers[s] ELSE <<>>
      times == IF r \in DOMAIN targets THEN (targets[r] + 1) % U16 ELSE 1
  IN  Insert(peers, s, Insert(targets, r, times))

IdsOf(lists, a) == IF a \in DOMAIN lists THEN lists[a].multi_ids ELSE <<>>

\* The places of the ids on all lists of a table.
Listed(lists) ==
  UNION {{a} \X DOMAIN lists[a].multi_ids : a \in DOMAIN lists}

\* entry(a).or_insert_with(RequestListEntry::new).push(m)
PushId(lists, a, m) ==
  Insert(lists, a,
    [ multi_ids |-> Append(IdsOf(lists, a), m),
      created_at |-> IF a \in DOMAIN lists THEN lists[a].created_at
                                           ELSE clock ])

\* The list that address  a  has.
RefOf(lists, a) == [of |-> a, created_at |-> lists[a].created_at]

\* A request that is live stays on the lists it is on; a new one is on those
\* it was pushed on.
PushedAnew(m, senders, a, receivers, r) ==
  LET before == IF m \in DOMAIN LiveRequests THEN pushed[m]
                ELSE [sender |-> {}, receiver |-> {}]
  IN  [ sender |-> before.sender \cup {RefOf(senders, a)},
        receiver |-> before.receiver \cup {RefOf(receivers, r)} ]

\* The second cleanup of the lists, right after the pushes, finds nothing.
HandleSenderRequest(a, t) ==
  LET r == t.receiver
      m == MultiId(t)
      reqs == Insert(LiveRequests, m, [data |-> t, created_at |-> clock])
      senders == PushId(LiveLists(sender_requests, clock), a, m)
      receivers == PushId(LiveLists(receiver_requests, clock), r, m)
  IN  /\ Cardinality(Listed(sender_requests)) < MaxListed
      /\ Cardinality(Listed(receiver_requests)) < MaxListed
      /\ peers' = RequestedOnceMore(a, r)
      /\ UpdateMetrics(clock, reqs, senders, receivers)
      /\ emitted' = << DataEvent("SenderRequestReceived", a, t),
                       DataEvent("SenderRequestHandled", r, t) >>
      /\ pushed' = [pushed EXCEPT ![m] = PushedAnew(m, senders, a, receivers, r)]
      /\ named' = IF a \in {t.sender, r} THEN named ELSE named \cup {<<a, m>>}

\* The event goes out before the data is decoded.
HandleSenderRequestUndecodable(a) ==
  /\ emitted' = << DataEvent("SenderRequestReceived", a, Undecodable) >>
  /\ UNCHANGED <<clock, peers, store, gauges, history>>

-----------------------------------------------------------------------------
(* Updates of a stored request *)

\* update_request finds the request after its cleanups, and still unexpired.
IsFound(m, now) == m \in DOMAIN LiveRequests /\ ~IsExpired(requests[m], now)

\* The event of a failed update: it carries the data if the request has expired
\* between the cleanup and the lookup, and none if there was no live request.
ExpiredEvent(m) ==
  DataExpired(m, IF m \in DOMAIN LiveRequests THEN requests[m].data
                                              ELSE Undecodable)

\* Faulty variants: the stored data is not replaced; the time to live starts
\* again.
BugUpdateKeepsData(m, t, now) ==
  IF IsFound(m, now) THEN LiveRequests ELSE RemoveKey(LiveRequests, m)
BugUpdateRefreshesTtl(m, t, now) ==
  IF IsFound(m, now)
  THEN [LiveRequests EXCEPT ![m] = [data |-> t, created_at |-> now]]
  ELSE RemoveKey(LiveRequests, m)

\* What update_request leaves: the data is replaced and created_at stays, or
\* the expired request is removed.
UpdatedRequests(m, t, now) ==
  IF IsFound(m, now) THEN [LiveRequests EXCEPT ![m].data = t]
                     ELSE RemoveKey(LiveRequests, m)

HasTarget(s, r) == s \in DOMAIN peers /\ r \in DOMAIN peers[s]

\* The common body of handle_sender_confirmation, handle_sender_revertation
\* and handle_tx_submission_updates, which differ in the event they broadcast.
\* The peer entry is that of the address, not of the transaction's sender.
SenderUpdate(type, a, t) ==
  LET m == MultiId(t)
      known == HasTarget(a, t.receiver) /\ m \in DOMAIN requests
  IN  \/ /\ ~known
         /\ emitted' = <<>>
         /\ UNCHANGED <<clock, peers, store, gauges, history>>
      \/ /\ known
         /\ clock' \in Moments
         /\ requests' = UpdatedRequests(m, t, clock')
         /\ \E at \in clock..clock' :
              /\ sender_requests' = LiveLists(sender_requests, at)
              /\ receiver_requests' = LiveLists(receiver_requests, at)
         /\ emitted' = << IF IsFound(m, clock') THEN DataEvent(type, a, t)
                                               ELSE ExpiredEvent(m) >>
         /\ UNCHANGED <<peers, gauges, history>>

HandleSenderConfirmation(a, t) == SenderUpdate("SenderConfirmed", a, t)

HandleSenderRevertation(a, t) == SenderUpdate("SenderReverted", a, t)

HandleTxSubmissionUpdates(a, t) == SenderUpdate("TxSubmitted", a, t)

\* A response needs no peer entry, and a failed update is followed by an
\* insert: the response then re-creates the request, on no list.  Then comes
\* the wait for the metrics, and a cleanup that may remove what was updated,
\* before the response is announced as handled.
HandleReceiverResponse(a, t) ==
  LET m == MultiId(t)
      inserted(now) ==
        Insert(CleanupExpiredRequests(UpdatedRequests(m, t, now), now), m,
               [data |-> t, created_at |-> now])
      received == DataEvent("ReceiverResponseReceived", a, t)
      handled == DataEvent("ReceiverResponseHandled", a, t)
  IN  /\ UNCHANGED <<peers, named>>
      /\ \E at, now \in Moments :
           LET senders == LiveLists(sender_requests, at)
               receivers == LiveLists(receiver_requests, at)
           IN  /\ at <= now
               /\ \/ /\ IsFound(m, now)
                     /\ UpdateMetrics(now, UpdatedRequests(m, t, now),
                                      senders, receivers)
                     /\ emitted' = <<received, handled>>
                     /\ UNCHANGED pushed
                  \/ /\ ~IsFound(m, now)
                     /\ UpdateMetrics(now, inserted(now), senders, receivers)
                     /\ emitted' = <<received, ExpiredEvent(m), handled>>
                     /\ pushed' = [pushed EXCEPT ![m] = [ sender |-> {},
                                                         receiver |-> {} ]]

\* An RPC other than handleSenderRequest whose data does not decode.
RejectUndecodable ==
  /\ emitted' = <<>>
  /\ UNCHANGED <<clock, peers, store, gauges, history>>

-----------------------------------------------------------------------------
(* Fetching and disconnecting *)

\* Faulty variant: the stored requests are not narrowed to the address's ids.
BugPendingOfEveryone(a) ==
  LET m == CHOOSE k \in DOMAIN requests : TRUE
  IN  IF DOMAIN requests = {} THEN <<>> ELSE <<requests[m].data>>

\* The stored transactions that a list of ids leads to.  Expired requests that
\* no cleanup has met yet are found too, and an id that is on the list twice
\* gives its transaction twice.
StoredOf(ids) ==
  LET found == Keep(ids, {m \in DOMAIN requests : ~IsReverted(requests[m].data)})
  IN  [i \in DOMAIN found |-> requests[found[i]].data]

PendingTransactions(a) ==
  StoredOf(IdsOf(sender_requests, a)) \o StoredOf(IdsOf(receiver_requests, a))

FetchPendingTransactions(a) ==
  /\ emitted' = << [ type |-> "PendingTransactionsFetched", address |-> a,
                     transactions |-> PendingTransactions(a) ] >>
  /\ UNCHANGED <<clock, peers, store, gauges, history>>

\* Faulty variant: the receiver's whole list goes.
BugCloseDropsList(a, m) ==
  IF a \notin DOMAIN receiver_requests THEN receiver_requests
  ELSE RemoveKey(receiver_requests, a)

\* The receiver's list without the id, and without the receiver if no id is
\* left.
ClosedReceiverLists(a, m) ==
  IF a \notin DOMAIN receiver_requests THEN receiver_requests
  ELSE LET left == Keep(receiver_requests[a].multi_ids, Routes \ {m})
       IN  IF left = <<>> THEN RemoveKey(receiver_requests, a)
           ELSE [receiver_requests EXCEPT ![a].multi_ids = left]

\* Faulty variants: a sender without targets stays; every sender loses the
\* target, as if the loop did not stop.
BugKeepsEmptySender(s, a) == [peers EXCEPT ![s] = RemoveKey(peers[s], a)]
BugNoBreak(s, a) ==
  [x \in {y \in DOMAIN peers : DOMAIN peers[y] # {a}} |-> RemoveKey(peers[x], a)]

\* The peer table without target  a  of sender  s .
WithoutTarget(s, a) ==
  LET targets == RemoveKey(peers[s], a)
  IN  IF DOMAIN targets = {} THEN RemoveKey(peers, s)
      ELSE [peers EXCEPT ![s] = targets]

\* The loop stops at the first sender of the HashMap that has the account as a
\* target: any of them.
DisconnectPeer(a, t) ==
  LET m == MultiId(t)
      lists == ClosedReceiverLists(a, m)
      holders == {s \in DOMAIN peers : a \in DOMAIN peers[s]}
  IN  /\ pushed' = [pushed EXCEPT ![m].receiver = {p \in @ : p.of # a}]
      /\ \/ \E s \in holders :
              /\ peers[s][a] = 1
              /\ peers' = WithoutTarget(s, a)
              /\ UpdateMetrics(clock, requests, sender_requests, lists)
              /\ emitted' = << [type |-> "PeerDisconnected", address |-> a] >>
         \/ /\ holders = {} \/ \E s \in holders : peers[s][a] # 1
            /\ receiver_requests' = lists
            /\ emitted' = <<>>
            /\ UNCHANGED <<clock, peers, requests, sender_requests, gauges>>
      /\ UNCHANGED named

-----------------------------------------------------------------------------

Tick ==
  /\ clock < MaxClock
  /\ clock' = clock + 1
  /\ emitted' = <<>>
  /\ UNCHANGED <<peers, store, gauges, history>>

BackendInit ==
  /\ clock = 0
  /\ peers = <<>>
  /\ requests = <<>>
  /\ sender_requests = <<>>
  /\ receiver_requests = <<>>
  /\ gauges = [active_peers |-> 0, pending_requests |-> 0]
  /\ emitted = <<>>
  /\ pushed = [m \in Routes |-> [sender |-> {}, receiver |-> {}]]
  /\ named = {}

RpcCall ==
  \/ \E a \in Callers, t \in Tx : \/ HandleSenderRequest(a, t)
                                  \/ HandleSenderConfirmation(a, t)
                                  \/ HandleSenderRevertation(a, t)
                                  \/ HandleTxSubmissionUpdates(a, t)
                                  \/ HandleReceiverResponse(a, t)
  \/ \E a \in Addr, t \in Tx : DisconnectPeer(a, t)
  \/ \E a \in Callers : HandleSenderRequestUndecodable(a)
  \/ \E a \in Addr : FetchPendingTransactions(a)
  \/ RejectUndecodable

BackendNext == RpcCall \/ Tick

BackendSpec == BackendInit /\ [][BackendNext]_backendVars

-----------------------------------------------------------------------------
(* Properties *)

\* Type invariant of the store: every table maps addresses or ids of known
\* routes to entries of its kind.
BackendTypeOK ==
  /\ clock \in Nat
  /\ peers \in [DOMAIN peers -> TargetPeers]
  /\ DOMAIN peers \subseteq Addr
  /\ requests \in [DOMAIN requests -> RequestEntry]
  /\ DOMAIN requests \subseteq Routes
  /\ sender_requests \in [DOMAIN sender_requests -> RequestListEntry]
  /\ DOMAIN sender_requests \subseteq Addr
  /\ receiver_requests \in [DOMAIN receiver_requests -> RequestListEntry]
  /\ DOMAIN receiver_requests \subseteq Addr
  /\ gauges \in [active_peers : Nat, pending_requests : Nat]
  /\ emitted \in Seq(BackendEvent)
  /\ pushed \in [Routes -> Push]
  /\ named \subseteq Addr \X Routes

\* Broadcast events of the last step.
Emitted == {emitted[i] : i \in DOMAIN emitted}

\* The events that announce an update of the store.
Announcing ==
  { "SenderRequestHandled", "SenderConfirmed", "SenderReverted",
    "ReceiverResponseHandled", "TxSubmitted" }

\* What event  i  of the last step carries is held by the store, unexpired.
IsHeld(i) ==
  LET t == emitted[i].data
  IN  /\ MultiId(t) \in DOMAIN requests
      /\ requests[MultiId(t)].data = t
      /\ ~IsExpired(requests[MultiId(t)], clock)

\* An update is announced only if the store holds it at the end of the handler:
\* the request is there, unexpired, and its data is the event's.  Only the
\* response to a request that was live when the handler started may be
\* announced although the request has expired since: handle_receiver_response
\* waits and cleans up between the update and the announcement.
AnnouncedIsStored ==
  [][ \A i \in DOMAIN emitted' :
        LET e == emitted'[i]
            m == MultiId(e.data)
        IN  e.type \in Announcing /\ ~IsHeld(i)' =>
              /\ e.type = "ReceiverResponseHandled"
              /\ m \in DOMAIN requests
              /\ ~IsExpired(requests[m], clock)
              /\ IsExpired(requests[m], clock') ]_backendVars

\* fetchPendingTransactions answers an address only with transactions that it
\* is the sender or the receiver of, or that a sender request for the same
\* route was made of under this very address; and never with a reverted one.
MayFetch(a, m) == a \in {m[1], m[2]} \/ <<a, m>> \in named
FetchedOnlyByParties ==
  \A e \in Emitted :
    e.type = "PendingTransactionsFetched" =>
      \A t \in Range(e.transactions) :
        MayFetch(e.address, MultiId(t)) /\ ~IsReverted(t)

\* A sender has a peer entry only while it has a target: disconnecting the
\* last target removes the sender, so that its next request is a first one.
PeersHaveTargets == \A s \in DOMAIN peers : DOMAIN peers[s] # {}

\* "Current number of pending requests": not every handler that drops expired
\* requests sets the gauge, but it is never too low: whatever re-creates,
\* inserts or drops requests in between, and whichever of them set it.
PendingRequestsGauge == gauges.pending_requests >= Cardinality(DOMAIN requests)

\* The request is on the list  p  names, which is still the one of its address.
OnList(lists, p, m) ==
  /\ p.of \in DOMAIN lists
  /\ lists[p.of].created_at = p.created_at
  /\ m \in Range(lists[p.of].multi_ids)

\* A live request that was submitted under an address is found by a fetch for
\* this address for as long as the list that it was pushed on is within its
\* time to live: until then the address's list is that list, and the id is
\* still on it.
SenderFetchesItsRequests ==
  \A m \in DOMAIN requests : \A p \in pushed[m].sender :
    ~IsExpired(requests[m], clock) /\ ~IsExpired(p, clock) =>
      OnList(sender_requests, p, m)

\* So does the receiver, unless a disconnect took the request off its list.
\* (A disconnect may drop the list itself, and a later request starts a
\* younger one.)
ReceiverFetchesItsRequests ==
  \A m \in DOMAIN requests : \A p \in pushed[m].receiver :
    ~IsExpired(requests[m], clock) /\ ~IsExpired(p, clock) =>
      OnList(receiver_requests, p, m)

\* Only a new sender request, or a response to a request that has expired,
\* starts the time to live anew: no confirmation, revert, submission update or
\* response to a live request prolongs it.
TtlNotExtended ==
  [][ \A m \in DOMAIN requests \cap DOMAIN requests' :
        requests'[m].created_at # requests[m].created_at =>
          \/ \E i \in DOMAIN emitted' :
               /\ emitted'[i].type = "SenderRequestHandled"
               /\ MultiId(emitted'[i].data) = m
          \/ IsExpired(requests[m], clock') ]_backendVars

\* A step takes at most one target from one sender, and only one that was
\* requested exactly once.
DisconnectTakesOneTarget ==
  [][ LET lost == { p \in Addr \X Addr :
                      /\ HasTarget(p[1], p[2])
                      /\ ~HasTarget(p[1], p[2])' }
      IN  /\ Cardinality(lost) <= 1
          /\ \A p \in lost : peers[p[1]][p[2]] = 1 ]_backendVars

\* The parts of the inductive invariant behind FetchedOnlyByParties: a request
\* is stored under the id of its own transaction, and an address's lists hold
\* ids of its own routes, or of those it was named for.
StoredUnderItsId == \A m \in DOMAIN requests : MultiId(requests[m].data) = m
IdsAreFetchable(lists) ==
  \A x \in DOMAIN lists : \A m \in Range(lists[x].multi_ids) : MayFetch(x, m)
ListsHoldOwnIds ==
  IdsAreFetchable(sender_requests) /\ IdsAreFetchable(receiver_requests)

BackendInv ==
  /\ BackendTypeOK
  /\ PeersHaveTargets
  /\ StoredUnderItsId
  /\ ListsHoldOwnIds
  /\ SenderFetchesItsRequests
  /\ ReceiverFetchesItsRequests

=============================================================================
