# Verification of Vane Web3

Vane is a safety net for transfers: a sender announces a transaction, the
receiver proves with a signature that it controls the receiving address, and
only then does the sender sign and the transaction go to its chain. The program
is a node that runs in the browser (Rust compiled to WebAssembly) and a backend
server through which the nodes of sender and receiver meet.

This directory holds TLA+ specifications of that program, the TLC configurations
that check them on small instances, and TLAPS proofs of what matters most.
`PROJECT.json` lists the runs, the lines of source every definition stands for,
the hazards and the findings.

To repeat a check: `tlc -workers 2 -config MCBackend_store.cfg MCBackend` (any
cfg with the module it is named after); `tlapm BackendProofs.tla` for the
proofs, and so for `StoreProofs`, `StreamProofs`, `NodeProofs`, `LinkProofs`,
`DbProofs`, `RelayProofs` and `FoldProofs`.

## 1. Inventory

| Component | Source | State | Operations |
|---|---|---|---|
| Transaction record | `primitives/src/data_structure.rs` | parties, nonce, version, status, signatures, multi id | status transitions, version increment, multi id |
| Backend store and RPC | `node/vane-backend/src/server.rs` | peers per sender with a u16 count per target, requests by multi id, id lists per sender and per receiver, each with a creation time; gauges | seven RPC handlers and their cleanups |
| Backend subscriptions | same | broadcast channel (capacity 128), one task per client | accept, subscribe, receive, filter, send, lag, end |
| Backend metrics service | same | counters, last totals and a snapshot per account | take a client's export, two HTTP endpoints |
| Node: main service worker | `node/wasm/src/lib.rs` | LRU cache of 10 transactions, integrity table, channels, the database handle | dispatcher of user calls, handler of backend messages |
| Node: public interface | `node/wasm/src/interface.rs` | watcher and its callbacks, profile of accounts | initiate, confirm, revert, delete, clear, fetch, watch, unsubscribe |
| Node: backend connection | `node/wasm/src/p2p.rs` | command channel (10), notification channel (20), subscription | turn commands into requests, filter and forward events |
| Node: transaction processing | `node/wasm/src/tx_processing.rs`, `cryptography.rs` | none kept | verify signatures, have JavaScript create and submit |
| Browser database | `db-wasm/src/lib.rs` | nonce, success and failure records, totals, accounts, peers | get, set, increment, record; export and start from an export |
| Host functions, JavaScript library | `node/wasm/host_functions`, `node/wasm/vane_lib` | none of the protocol | chain clients and wrappers |
| Relay | `node/relay` | counters and lists of circuits and reservations, a copy of the client metrics | start, record libp2p's events, take exports, show both |
| Native node and database | `node/native`, `db`, `app` | | outdated and excluded from the workspace |

### How they interact

A call of the JavaScript API changes the cache and puts the transaction on the
user channel. The dispatcher takes it from there and acts on its status: it
stores it, sends a command to the connection, asks JavaScript to create or
submit the transaction, and puts updates on the rpc channel, which the watcher
shows to the application. The connection turns every command into an RPC request
in a task of its own. The backend's handlers change the store under one mutex
and broadcast an event; each client's task filters the events for its address
and sends them on. The node's connection filters them once more and hands them
to the handler of swarm messages, which changes the cache and puts updates on
the rpc channel.

What travels: `SenderRequest`, `ReceiverResponse`, `SenderConfirmation`,
`SenderRevertation`, `TxSubmissionUpdate`, `Disconnect` and
`FetchPendingTransactions` to the backend; `SenderRequestHandled`,
`ReceiverResponseHandled`, `SenderConfirmed`, `SenderReverted`, `TxSubmitted`,
`DataExpired`, `PeerDisconnected` and `PendingTransactionsFetched` back.

### What is hard

- **Expiry.** Every handler first drops what is older than thirty minutes, and
  reads the clock several times, with awaits of the metrics in between. Requests
  and the lists that point at them carry times of their own.
- **Callers.** The address that an RPC is called with is compared with nothing,
  and the status of the transaction it brings is not looked at.
- **Lists shared by transactions.** A receiver's list serves all senders, a
  sender's list all receivers; updates and disconnects of one pair edit state
  that other pairs depend on.
- **Slow subscribers.** A broadcast channel of bounded capacity, a sink that may
  block or fail, and a subscription that starts some time after it is accepted.
- **State read before an await and used after it.** The node looks at its cache,
  waits for JavaScript, and writes what it computed before.
- **RefCell borrows held across an await.** Another task that borrows the same
  cell in the meantime panics, which ends the wasm instance.
- **Requests in any order or lost.** Each command is a task of its own.
- **Old handles.** The application passes transaction objects back that may be
  from before a revert, a confirmation or an update by the other party.
- **Restarts.** The database dies with the node; the next one starts from what
  the application exported, which may be older.
- **Full channels.** The dispatcher waits for room in the rpc channel; nobody
  but the watcher makes any. The connection's loop waits for the notification
  and the swarm channel, the dispatcher for the command channel that only that
  loop drains, and does so before it reports a submission; a call for the user
  channel that only the dispatcher drains.
- **Closed channels.** The loop ends with its subscription, and the handler
  behind it reads from a channel without a sender.
- **Reports lost, repeated, or older than the last.** A client's export is its
  whole database; the server has to find out what is new in it.

### What makes each part correct

- *Store*: what is announced is stored (but for a response whose request expires
  meanwhile); a party that made a request can fetch it
  while its list lives, whatever other pairs do; nobody else can, but an address
  that a sender request for the route was made under; only a new request starts
  the time to live anew; the gauge of pending requests is never too low.
- *Subscriptions*: a client's stream is a gap-free selection of the broadcasts;
  an address that is no party of a transaction is told of it only by calls made
  under that very address; a sender that has read all its events knows what the
  store holds; events are delivered or the subscription ends.
- *Node*: nothing goes to the chain without verifying signatures of both parties
  and a multi id that matches the addresses; nothing is shown as ready for the
  sender's signature that the receiver's signature does not verify for; calls
  are handled, and a submission is reported; a revert is final; versions do not
  go back.
- *Connection*: the application is notified of an event before the node acts on
  it, the handler gets every event that concerns the node, in order; no circle
  of full channels stops an event or a call; the end of the connection leaves
  the other tasks running.
- *Browser database*: totals agree with the records; no transaction gets the
  nonce of one that its database knows of, from before the export it was started
  from either; an export brings back every table but the saved peers.
- *Client metrics*: what an account reports is counted, and counted once; its
  failures are listed once.
- *Relay*: the counters and lists it shows agree with the circuits and
  reservations that libp2p has open.

## 2. Modules

| Module | Models | Extends |
|---|---|---|
| `TxStateMachine` | the transaction record, its statuses, the multi id | |
| `Backend` | the store, every RPC handler, gauges, broadcast events | `TxStateMachine` |
| `EventStream` | abstract: what a reader of an ordered stream is promised | |
| `Subscriptions` | the broadcast channel and the client tasks, composed with the handlers | `Backend`; implements `EventStream` |
| `WasmNode` | one node: API, dispatcher, message handler, watcher, cache; the backend and the other accounts as its environment | `TxStateMachine` |
| `NodeLink` | the tasks of one node as they wait for each other: connection, message handler, dispatcher, watcher of notifications, calls | implements `EventStream` |
| `BrowserDb` | the node's database, its export and the start from one | |
| `ClientMetrics` | the store of client metrics, of the backend and of the relay | |
| `Relay` | the relay's worker and HTTP server | `ClientMetrics` |
| `BackendProofs`, `StoreProofs` | theorems | `Backend` |
| `Lists` | filters of lists, as `retain` and `filter` make them | |
| `FoldProofs` | lemmas on induction, folds, filters and sums | `Lists` |
| `StreamProofs` | theorems | `Subscriptions`, `StoreProofs`, `FoldProofs` |
| `NodeProofs`, `LinkProofs`, `DbProofs`, `RelayProofs` | theorems | `WasmNode`, `NodeLink`, `BrowserDb`, `Relay`, each with `FoldProofs` |
| `MCBackend`, `MCSubscriptions`, `MCWasmNode`, `MCNodeLink`, `MCBrowserDb`, `MCRelay` | routes, subscriptions, events and symmetry for TLC | the module of that name |

Definitions whose names begin with `Bug` are faulty variants of the definition
that follows them. No specification uses them: each is put in place of that
definition to see that TLC then reports the property it concerns, so that no
property holds for want of a way to break it.

### TxStateMachine

A transaction is a record of sender, receiver, nonce, version and status.
Amounts, tokens, networks, fees and payloads are left out: no control depends on
them in the modelled code but through the outcome of a check, which is a choice
in the models. `MultiId` is the pair of addresses: the code hashes exactly those
two, and a collision of the hash is not considered. `Routes` is the set of pairs
that trade.

### Backend

The variables `peers`, `requests`, `sender_requests`, `receiver_requests` are
the four maps of `VaneSwarmServer`; `gauges` the two Prometheus gauges it sets;
`clock` the time in seconds; `emitted` what the last handler broadcast. Two are
history: `pushed` has, for every route, the lists that its stored request was
put on (address and creation time) and a disconnect has not taken it off, and
`named` the routes that a sender request was made for under an address that is
no party of them.

Every handler runs under the mutex of the server and is one action, with its
cleanups: `HandleSenderRequest`, `HandleReceiverResponse`,
`HandleSenderConfirmation`, `HandleSenderRevertation`,
`HandleTxSubmissionUpdates`, `DisconnectPeer`, `FetchPendingTransactions`, and
the error paths for data that does not decode. Each takes an address of
`Callers` and a transaction independently of each other: the code does not
compare them, and accepts any status.

Time passes while a handler runs, up to `HandlerTime` (`Moments`): its cleanups
and lookups each read the clock. An update can fail on a request that its own
cleanup left (`IsFound`, `UpdatedRequests`, `ExpiredEvent`), and
`UpdateMetrics`, with which requests and responses end, cleans up once more after
awaiting the metrics; for a response this is between the update and its
announcement. `HandlerTime` is assumed to be at most `Ttl`, thirty minutes in the
code: a request does not expire within the handler that stores it.

A list is a sequence of ids. The code pushes an id whether or not it is on the
list, so a repeated request is on it twice and twice in the answer to a fetch.
`times_requested` keeps its width as `% U16`: a release build wraps.
`DisconnectPeer` takes any sender that has the account as a target, since the
code takes the first in the order of a hash map. `GaugesOf` is the value a
handler leaves in the gauges: what `record_peer_added` and
`record_peer_removed` add and subtract is overwritten by `update_metrics` before
the mutex is released.

### EventStream

The promise that two parts of the system make, stated once: a reader waits, is
opened at the end of what is published, then takes or skips each event in order
by whether it wants it, and may be closed at any time, for good. Nothing is said
of capacities, hands, mutexes or channels.

- A client's subscription implements it (`Subscriptions!ImplementsStream`): the
  stream is `log`, the reader waits until its task is active, is over when the
  task has ended, and was given what was `delivered`; an event in the task's
  hand is not read yet. A task that went on after a lag would be no reader.
- The connection's loop implements it for the handler behind it
  (`NodeLink!LinkImplementsStream`): the stream is what the subscription yields,
  and the handler was given what is in the swarm channel or was taken from it;
  the event the loop is about to notify or forward is not read yet.

### Subscriptions

`outbox` holds what a handler has still to send on the channel and `log` all
that was sent; a task's position in the log and `Capacity` determine when it
lags. A task goes from accepted (the client believes it is subscribed) through
waiting for the mutex to active, and ends when it lags or its sink fails. The
filter `ShouldSend` follows the code's match arm by arm.

### WasmNode

The runtime is single-threaded, so the code between two awaits that suspend is
one step. What suspends: the creation of a transaction by JavaScript
(`create_tx_js`), its submission (`submit_tx_js`), a send on a full rpc channel
or a full command channel, and the two-second wait of a fetch. A task that waits
is a record with what it goes on with and the cells it keeps borrowed (`cache`,
`rpc`, `worker`); `Borrowing(cells, A, vs)` is `A` if the cells are free and
otherwise a panic that leaves `vs` alone: what the step did before it, a record
or a command, stays done. Nothing is modelled after a panic.

The dispatcher's commands go over `commands`, which has `CommandCap` places (10
in the code). `SendCommands` puts on it what there is room for; with some left
the dispatcher waits (`commanding`, `DispatcherCommands`), and `AfterCommands`
has what comes after the last one: the report to the application, the removal
from the cache. The connection's loop takes commands off the channel while its
`link` is up (`TakeCommand`) and makes each a request of its own; it may end for
good (`LinkFails`), and what it waits for is in `NodeLink`. A fetch waits for
the same channel (`fetching`).

`cache` is a sequence, most recently used first, since the code's LRU cache
evicts the last one. `nonce` and `records` are what the node uses of the
database, `profile` the accounts the user has added so far: the node may start
with any of the user's accounts known, and `AddAccount` adds one between any two
steps, so that a transaction that began between two users goes on as one between
two accounts of the same user. `userq`, `rpcq`, `swarmq` are the other channels.
A signature is `none`, `valid` or `invalid`, by whether it would verify;
`payload` says whether the transaction has a call payload and `matching` whether
its multi id is that of its two addresses, which `validate_multi_id` checks
before a submission. `shown`, `submitted` and `calls` are history.

The calls of the API check what the code checks and no more: the application
passes any object it was shown, either party may revert, and `SenderInputs` has
transactions signed before it was their turn, which the guard of
`sender_confirm` lets pass.

Handlers whose error leaves the dispatcher's loop through `?` end the dispatcher
(`Die`), as in the code. The environment is the backend, reduced to the last
transaction of each pair and the count per pair that a disconnect looks at, and
the other accounts, which answer each request once, with a multi id that matches
or not, and may start transactions with nonces of `PeerNonces`. Requests on the
way (`inflight`) arrive in any order or not at all; the event of a response is
delivered to its sender, which may be this node itself.

A fetch drops entries by age. The model does not keep the time of an entry, so
any subset of the entries that carry the current time may be old by then; those
that carry the literal 600 always are.

### NodeLink

Five tasks of one thread and four channels, with their sizes in the code: the
loop of `p2p.rs` (`loop`) reads items of the subscription and commands, sends
every event on the notification channel (20) and those for the node on the
swarm channel (256), and pauses after an item that does not decode; the handler
of swarm messages; the dispatcher, which takes calls from the user channel (10)
and sends up to two commands for each on the command channel (10); the watcher
of notifications, whose flag an unsubscribe lowers without ending its task; and
calls of the API, which wait for room. What handler and dispatcher do with a
transaction is in `WasmNode`; here they are busy for a while.

A call holds a `RefMut` of the user channel's sender until its send is through,
so a second call that comes while the first one waits is a `Panic`. When the
loop is over, because `start` failed or the subscription ended, the swarm
channel is closed: the handler's outer `loop` then never yields (`HandlerSpins`,
`frozen`). With `self_node` set the loop is absent and nobody reads commands.

### BrowserDb

`db` holds the tables of `InMemoryDbWorker`, the implementation that the node
starts; a record of a finished transaction is its amount. `backup` is the export
that the application keeps. The node may be gone at any time and be started
again, without an export (`StartAfresh`) or with the one kept
(`StartFromExport`), which sets accounts and nonce and adds the records one by
one, so that the totals come about anew. Two variables are history: `issued` has
every transaction initiated, over all starts, with its nonce and what was known
to the database then, and is never rolled back; `known` has those that the
current database knows of, from its own life or through the export it was
started from. Totals are i64 and amounts u128; `AsI64` and `AsU128` are the
casts, and sums wrap as in a release build.

### ClientMetrics and Relay

`store` is `ClientMetricsStore`: the last totals of each account, the counters,
the success rate, and a snapshot per account with the hashes of its failures.
`HandleClientMetrics` is the endpoint with all it calls, which happens under one
lock. Nothing in the repository posts an export, so clients are external: any
export may be the next one, which covers lost, repeated, reordered and restarted
ones. `handled` and `olderSeen` are history. The time of an account's last
update is kept by the code and never read; it is left out.

The relay has a copy of that store. Its worker takes libp2p's events one by one
and records them in the service it holds: its own until its task starts, then
the one the HTTP server shows. Either task may fail to start; the relay ends
with the worker and goes on without the server. libp2p is external: `circuits`
and `reservations` are what it has open, `queue` the events it has not yet
handed over.

## 3. Runs

### That pass

| Run | Instance | Shows |
|---|---|---|
| `backend_store` | two senders, who call under their own address with either's transactions, one receiver; time to live 1, handlers of up to 1 second, clock to 2, two places on all lists, counter of width 2 | `BackendTypeOK`, `FetchedOnlyByParties`, `SenderFetchesItsRequests`, `ReceiverFetchesItsRequests`, `PendingRequestsGauge` (never too low), `PeersHaveTargets`, `DisconnectTakesOneTarget` over requests, updates, late answers, disconnects, expiry and the wrap of the counter in every order |
| `service_stream` | the sender's subscription while both parties call with data of three statuses; time to live 1, handlers of up to 1 second, clock to 2, capacity 2, no call after 3 events | `ImplementsStream`, `StreamHasNoGap`, `SenderIsUpToDate`, `ServiceTypeOK` with overflow and failing sinks; `AnnouncedIsStored` and `TtlNotExtended` with expiry before, during and after a handler and re-creation by late responses |
| `service_live` | a receiver's subscription while its sender also trades with another, and both call with either transaction, reverted or not; capacity 1, fair | `OnlyPartiesAreTold`, `EventsAreDelivered`, `AcceptedBecomesActive` |
| `node_parties` | an account that sends to another user and to the user's second account, and receives; a cache of one entry, one place in the rpc and in the command channel; valid and invalid signatures, matching and other multi ids; 3 calls | `NodeTypeOK`, `SubmissionsAreSigned`, `ReadyMeansVerified` with evictions, losses, reorderings, early confirmations and accounts added half way |
| `node_sender` | an account that sends to the user's second one, known as such from the start, later or never; one place in the rpc and in the command channel, a link that may go down; 4 calls; fair | `CallsAreHandled`, `SubmissionIsReported` along the whole protocol, with and without the backend |
| `link` | channels of one place, two items, among them one for the node, one for others and one that does not decode; fair | `LinkTypeOK`, `NotifiedFirst`, `LinkImplementsStream`, `EventsAreHandled`, `CallsReturn` |
| `db_restart` | two accounts, two peers, up to three transactions over all starts, two records, of an amount within an i64 and one beyond | `TotalsMatchRecords`, `RestartKeepsDb`, `NoncesAreNew`, `SavedPeersAreDistinct`, `DbTypeOK` over exports and restarts at any time |
| `metrics` | exports of an account and of browsers without one, up to two transactions each; a pair and a peer at the relay; 5 exports and events | `AllReportedIsCounted`, `NothingIsCountedTwice`, `FailedAreListedOnce`, `MetricsTypeOK`, `CircuitsAddUp`, `ReservationsAddUp` |

### That report a violation

Each states what a comment, a help text or a document of the repository says;
TLC's counterexample shows what the code does. The lines are quoted in
`PROJECT.json`.

| Run | Said | What happens |
|---|---|---|
| `node_revert` | "Drop updates if already reverted in cache" | a revert made while JavaScript creates the transaction is overwritten |
| `node_version` | "monotonic version", "Version gating" | the answer to a fetch brings an older version back |
| `node_confirm` | "Guard: ignore if already reverted" | confirmed through an object from before the revert |
| `link_frozen` | "The spawned tasks will continue running in the background" | once the connection fails or ends, the swarm handler keeps the only thread for ever |

### Other disagreements

These were met while modelling. The models contain the behaviour; no run is
spent on them, either because what is said is too vague to be a property or
because the step that shows it is a single one.

- `wasm/src/interface.rs:621`: `StorageExport` "Contains all data from the
  database using getter methods" (`data_structure.rs:995`), but `export_storage`
  reads accounts, nonce and records only. Saved peers have a getter
  (`db-wasm/src/lib.rs:630`), are not in the export and do not survive a start
  from it; `RestartKeepsDb` excepts them.
- `wasm/src/interface.rs:239`: `sender_confirm` would "return error as receiver
  hasnt confirmed yet or sender hasnt confirmed on his turn", but its condition
  asks for a missing signature *and* another status: a transaction signed early
  passes, becomes `SenderConfirmed` and ends the dispatcher on the missing
  signature of the receiver. It is not submitted (`SubmissionsAreSigned`).
- `server.rs:302`, `378`, `674`: the address of a call is documented as the
  sender's or the receiver's (`server.rs:848` to `870`) and compared with
  nothing. A request made under a third address puts the id on that address's
  list and its first event in that address's stream. `FetchedOnlyByParties` and
  `OnlyPartiesAreTold` say that this is the only way a stranger learns of a
  transaction.
- `server.rs:96`, `378`: the push on a list is unconditional; a repeated request
  is answered twice by `fetchPendingTransactions`.
- `server.rs:687` to `699`: a response can be announced as handled after its
  request has expired, since the handler awaits and cleans up between the update
  and the announcement. `AnnouncedIsStored` has this as its only exception.
- `server.rs:456`: `handle_sender_confirmation`, `handle_sender_revertation` and
  `handle_tx_submission_updates` drop expired requests without setting the
  gauge whose help text is "Current number of pending requests"
  (`server.rs:1432`). It is then too high; that it is never too low is checked.
- `server.rs:378`: a list of ids has the creation time of its first id; when it
  expires, live requests pushed on it later are in no fetch, although
  `fetchPendingTransactions` is documented as "Fetch pending transactions"
  (`server.rs:879`).
- `server.rs:169`: `run` waits for whichever server ends first, so a metrics
  port that is taken ends the JSON-RPC server; the relay goes on in that case.
- `server.rs:1507`: after a report that is smaller than the one before it (a
  client that started again from an old export, or reports out of order) the
  next larger one is counted again, although deltas are computed "to avoid
  double counting" (`metric_server.rs:304`, the relay's copy).
- `server.rs:1542`: failures are told apart by their hash, which the node leaves
  empty in every record of a failure (`wasm/src/lib.rs:306`, `524`, `605`, `871`,
  `919`): of all failures of an account the snapshot lists one. The success rate
  is that of the last report, whichever client's it was.
- `relay/src/p2p.rs:257`, `274`, `282`: denied circuits, denied reservations and
  time-outs go to recorders that ignore them, so "Total circuits denied" and its
  like stay at 0.
- `wasm/src/p2p.rs:111`: an application that does not call
  `watchP2pNotifications` has its loop stopped at the 21st event, and with it
  its commands and, when their channels are full, its calls.
- `wasm/src/interface.rs:178`: a call made while another one waits for room in
  the user channel panics. With `self_node` set nobody reads commands, and calls
  wait for ever once 10 are in the channel.
- `server.rs:261`: a multi id hashes two addresses and nothing else, so a pair's
  second transaction replaces its first. `TECHNICAL_ARCHITECTURE.md:232` calls
  these "unique transaction identifiers".
- `wasm/src/lib.rs:216`: the cache and the integrity table are keyed by nonces
  that every node counts for itself; a request from another account and the
  user's own transaction of that nonce replace each other.
- `wasm/src/lib.rs:592` to `625`: the path "When the tx is already been sent"
  borrows the cache a second time while the first borrow lives: it panics after
  the database record.
- `wasm/src/lib.rs:580`: `both_in_profile` is computed and not used; the backend
  is told of submissions between two accounts of the user.
- `wasm/src/interface.rs:419`: unsubscribing "stops watcher" but lowers a flag
  that the task never reads. The task goes on taking updates that nobody sees,
  and the next watcher's borrow of the receiver panics.
- `wasm/src/lib.rs:1084`: the accounts of an export replace the account named at
  the start, which need not be among them; and an export older than the database
  brings back nonces that were given since. The repository does not say when an
  application has to export.
- `db-wasm/src/lib.rs:770`: amounts in the smallest unit leave the range of an
  i64 (9.3 ETH do); the totals are right in their low 64 bits only, and a
  negative one is read as a number near 2^128.

### Bounds

- *Addresses*: three. The store's handlers touch one pair and the lists and the
  peer entries that other pairs share with it; a second pair sharing the
  receiver disturbs it through the receiver's list and the choice a disconnect
  makes among senders. That a second target in the sender's own entry and list
  makes no difference is left to the proofs, which have any routes. A
  subscription's filter compares one address with two parties: sender
  (`service_stream`), receiver or stranger (`service_live`).
- *Callers*: the two senders of `backend_store`, each a stranger to the other's
  transactions, and the two parties in `service_stream`; in `service_live` the
  listening receiver, which also calls with a transaction of the other route.
- *Time*: with `Ttl` 1 and a clock to 2 a request made at 0 can be live, at the
  last moment of its life, and expired, and one made at 1 outlives a list made
  at 0. With `HandlerTime` 1 a handler that starts at 1 ends at 1 or 2, so a
  request expires between any two of its reads of the clock. `service_live` uses
  a time to live of 0: a request expires with the next tick.
- *Lists*: `MaxListed` bounds the ids on all lists of senders, or of receivers;
  with 2 a list holds an id twice, or two ids.
- *Counter width*: 2 instead of 65536; two requests wrap it, so that a
  disconnect finds 0 and 1 after any number of requests.
- *Nonces and versions in the store* are data the handlers copy; one of each
  suffices.
- *Statuses*: the store tells reverted from other data; a third status in
  `service_stream` shows whether the last one sent is the one stored.
- *Channel*: `Capacity` 1 or 2 with 3 events before the last call, so that a
  task lags; `MaxEvents` bounds calls, not what a call emits.
- *Node*: `MaxCalls` bounds the calls of the application (a remote transaction
  takes 3 calls to submission, watching among them, a local one 4 with the
  receiver's; the runs that report a violation have 5), `MaxNonce` the
  transactions it starts, `MaxVersion` confirmations, `UserCap` the calls
  waiting for the dispatcher. `CacheCap` 1 makes every second transaction an
  eviction, `RpcCap` and `CommandCap` 1 every second update and command a wait.
  `Links` without `down` keeps the loop running; with it, it may end at any
  time.
- *Channels of the node* (`link`): one place each, so that every second message
  waits and every circle of waiting tasks can close; two items, so that one
  waits in the loop while the other is in a channel; one waiting fetch.
- *Client metrics and relay*: exports of up to two transactions, four of them,
  so that a report may grow, shrink and grow again; the one hash the nodes give.
  Exports and events of libp2p share the bound `MaxSteps` of 5: they change
  different state, and a circuit takes two events to come and go. Two queued
  events, so that an accepted and a closed one wait together.
- *Database*: an i64 of four values and a u128 of sixteen, with the amounts 1
  and 6: the second is negative after the cast, and two of them wrap the sum.
  Two transactions are enough for a nonce to be given before and after an
  export, a third (`MaxIssued`) for one that the export does not know of to be
  given again.
- *Symmetry* is used in `backend_store`, between the two senders, which appear
  alike in the routes, and in `db_restart`, between accounts and between peers;
  no liveness is checked there.
- *Deadlock* is not checked for the node and its channels: an application may
  stop calling, and after a panic nothing happens. Nor is it for the relay,
  which may end and has bounded events. It is checked for the backend and the
  subscriptions, where a call is always possible, and for the database.

### Fairness

`FairService`: weak fairness of the broadcast of the events a handler has
produced and of each client's task. The tasks run on tokio, which polls every
task that is ready; the mutex is fair. A task waiting for its sink goes on when
the client reads or the connection breaks, which jsonrpsee notices. Nothing is
assumed of callers.

`FairNode`: weak fairness of the watcher, the dispatcher and the handler of
backend messages, each while it can go on, of the two returns from JavaScript,
and of the connection's loop taking a command while its link is up. The first
three and the last are tasks on the browser's event loop, which is first in,
first out (that the loop comes to its commands is `NodeLink`'s
`EventsAreHandled` and `CallsReturn`, while notifications are watched); the two
returns assume that the application's `createTx` and `submitTx` settle, since the
code awaits them without a timeout. Nothing is assumed of the user, the network,
the backend or the other party. Both liveness properties except a node that is
down (a panic, or a dispatcher ended by an error) and one that is `Stalled`: its
dispatcher waits for room in the command channel and the loop that empties it has
ended.

`FairLink`: weak fairness of every task of `NodeLink`, with a connection attempt
that ends and a message whose handling ends (it does while the application
watches the updates, which is what `CallsAreHandled` says). Strong fairness of
the two branches of the loop's `select!`, which tokio polls in random order, and
of the senders on the command channel, which gives its places to those that wait
in turn. Nothing is assumed of the application, the backend or the network. The
properties except a node that is down.

## 4. Proofs

TLAPS proves these for every set of addresses and routes, every time to live,
counter width and channel size, and any number of steps. Every invariant that a
passing run checks is proved, and so are the action properties and both
refinements.

| Proved of | Theorems |
|---|---|
| `Backend` | `BackendTypeCorrect`, `BackendSafe`, `BackendAnswersParties`, `SenderCanFetch`, `ReceiverCanFetch`, `SendersHaveTargets`, `PendingRequestsAreCounted`, `DisconnectIsNarrow`, `TimeToLiveIsKept`, `AnnouncementsAreTrue` |
| `Subscriptions` | `ServiceTypeCorrect`, `SubscriptionsImplementStream`, `StreamsHaveNoGap`, `ToldOnlyByCallers`, `SendersAreUpToDate` |
| `WasmNode` | `NodeTypeCorrect`, `ReadyIsVerified`, `NodeSubmitsSigned` |
| `NodeLink` | `LinkTypeCorrect`, `LinkIsAStream`, `NotificationsComeFirst` |
| `BrowserDb` | `DbTypeCorrect`, `TotalsAreTrue`, `RestartIsFaithful`, `PeersAreDistinct`, `KnownNoncesAreNotReused` |
| `ClientMetrics` | `MetricsTypeCorrect`, `NothingReportedIsLost`, `RepeatsAreNotCounted`, `FailuresAreMerged` |
| `Relay` | `RelayKeepsAStore`, `CircuitsAreCounted`, `ReservationsAreCounted` |

### Lists, folds and sums

Many of these statements are about folds: the filter of a list, a cache brought
up to date with the transactions of a list one after the other, the total of a
list of amounts, the counts of an unknown number of accounts. `FoldProofs` has
what they need. The induction theorems of the library take a predicate, which
the provers cannot instantiate; stated over sets in place of predicates
(`Induction`, `SeqInduction`, `SubsetInduction`) induction follows from two
theorems of the library that take none, that the order of the natural numbers is
well founded and that a well-founded relation has minimal elements. `FoldLeft`
and `SumFunction` are `CHOOSE`s of a recursive function on subsets; `FoldExists`
shows that there is one, and `RunsTo` says that a fold over a list goes from a
start value to its result one element at a time. From this come the lemma of
each operator that says what one more element does (`KeepOneMore` here,
`AmountAppend`, `SumAppend`, and those of the fold of `UpdatePending` and of
`MergeFailed` in the modules that use them), and from those, by `SeqInduction`,
what it does to any list. `LastOfKeep` is an example: a filter that keeps all
elements of a kind keeps the last one.

### The store

**`BackendSafe`**, `BackendSpec => []BackendInv`. The assumptions are those of
the modules: `Ttl` a natural number, `HandlerTime` at most `Ttl`, `U16` above 1,
finitely many addresses, routes between different addresses. Nothing is assumed
of the callers: address and transaction of a call are independent. `BackendInv`
is the type invariant, `PeersHaveTargets`, and

- `StoredUnderItsId`: a request is stored under the id of its own transaction.
  Without it, nothing connects the id on a list to the parties of the data.
- `ListsHoldOwnIds`: an address's lists hold ids of routes it is a party of, or
  that a sender request was made for under it (`MayFetch`, with the history
  `named`).
- `SenderFetchesItsRequests` and `ReceiverFetchesItsRequests`: a request stays
  on each list it was pushed on until that list expires (and, for the receiver,
  until a disconnect takes off that very request). These are inductive only
  with the history `pushed`, which remembers the list: the age of the request
  does not say when it becomes unreachable.

Since time passes within a handler, the argument is about what holds between its
parts: `Sound(R, L, S, N, now)` says of any tables of requests and lists, not
only the current ones, that the last three hold at a time `now`. It survives the
passing of time (`SoundLater`), cleanups at different times (`SoundCleaned`,
since an id stays on its list if neither list nor request has expired), pushes,
inserts and the closing of a request, and `UpdateMetrics` (`SoundMetrics`); the
lemma of a handler strings these together. The proof carries `StoreInv`
(`RestOK`, the rest of the types, and `StoreSound`, `Sound` of both tables now),
from which `BackendInv` follows.

**`BackendTypeCorrect`** is its first part. **`BackendAnswersParties`**,
`BackendSpec => []FetchedOnlyByParties`: from `StoredUnderItsId` and
`ListsHoldOwnIds`, since a fetch looks ids up that are on the caller's lists.
**`SenderCanFetch`, `ReceiverCanFetch`**: the two parts of `BackendInv` on their
own.

**`StoreProofs`** takes the remaining properties of the store from the same
invariant; one lemma per handler says what it does to the table of requests.
`SendersHaveTargets` is a part of `BackendTypeCorrect`.
`PendingRequestsAreCounted`: a step sets the gauge from the table, or leaves the
gauge while the table shrinks or keeps its ids. `DisconnectIsNarrow`: only a
disconnect takes a target, and of the pairs that are lost all are the one it
names (lemma `WithoutTargetTakesOne`). `TimeToLiveIsKept`: only a request, and a
response that finds nothing live to update, write `created_at`, and what the
latter replaces has expired. `AnnouncementsAreTrue`: what a handler announces is
in the table at the end of its last cleanup, or is a response whose request was
live when the handler started and expired while it ran (`ExpiredMeanwhile`).

### The subscriptions

**`ServiceTypeCorrect`**, `ServiceSpec => []ServiceTypeOK`, and
**`SubscriptionsImplementStream`**, `ServiceSpec => ImplementsStream`: the
backend's subscriptions implement `EventStream`, for any number of clients and
events and any capacity. The invariant `StreamInv` adds to the types that a task
that has not subscribed has sent nothing, and that what is in a task's hand is
the event it received last, which passed the filter: without it the delivery of
that event could not be matched with a `Take`. One lemma maps every step of a
task: accepting and joining are stutters, subscribing opens the reader, an event
that is filtered out is skipped when it is received, one that is not is taken
when it is delivered, lagging and a failing sink close the reader.

**`StreamsHaveNoGap`**, `ServiceSpec => []StreamHasNoGap`. With `StreamInv` it is
inductive, one client at a time (`NoGap`, with the place the stream starts
from): only the receipt of an event moves the end of what was received, and
there the filter adds the event to what is kept or does not.

**`ToldOnlyByCallers`**, `ServiceSpec => []OnlyPartiesAreTold`. The filter of a
task lets an event pass that carries a transaction of its client, and also one
that is addressed to its client, whatever it carries: the address the handler was
called with, for the events of a call, and the one that asked, for the answer to
a fetch. `PartyInv`: every answer to a fetch that was or is about to be broadcast
holds only transactions its address may fetch (by `StoreInv`, which holds of the
composed specification because its steps are steps of the backend or leave the
store alone, lemma `ServiceStepIsBackendStep`), and what a client was sent passed
the filter. Routes that were named stay named (`NamedStays`), so an answer that
was right when it was given remains so while it is on its way.

**`SendersAreUpToDate`**, `ServiceSpec => []SenderIsUpToDate`. The property
speaks of one moment, when nothing is on its way; the invariant behind it,
`TruthInv`, has to hold at every other one too. It says that of every stored
request the last announcement in the log and the outbox together carries the
stored data. It is kept because of a handler's announcements for a stored request
each carries what is stored then, and a handler that announces nothing for it
leaves its data alone (`Tells`, lemma `HandlersTell`); that a response may be
announced after its request expired does no harm, since that request is then not
stored. Such an announcement passes the sender's filter unless its data is
reverted and it was made under another address, which is the exception in
`SenderIsUpToDate`. With `StreamHasNoGap`, what a client at the end of the stream
was sent is the filter's selection of the log, and `LastOfKeep` does the rest
(`TruthIsTold`).

### The node

**`LinkTypeCorrect`**, `LinkSpec => []LinkTypeOK`, and **`LinkIsAStream`**,
`LinkSpec => LinkImplementsStream`: the connection's loop implements
`EventStream` for the handler behind it, for any sizes of the channels. The
invariant `LinkInv` adds that before the connection nothing was yielded or
passed on, and that the event about to be forwarded is the one read last and is
the handler's. An event is skipped when it was notified and is not for the node,
or when it does not decode, and taken when it is put on the swarm channel; the
handler's taking it from there is a stutter, since channel and handler together
hold the same sequence (lemma `HeadMoves`).

**`NotificationsComeFirst`**, `LinkSpec => []NotifiedFirst`. Prefixes are not
inductive; `OrderInv` has equations: what was sent on the notification channel
is the decoded part of what the loop is done with, and what was sent on the
swarm channel is the handler's part of that, except for the event that is
notified and about to be forwarded.

**`NodeSubmitsSigned`**, `NodeSpec => []SubmissionsAreSigned`. The invariant is
inductive as it stands, because the check sits next to the hand-over: the lemmas
show that no API call, no step of the message handler, of the watcher, of the
connection or of the environment submits, that of the dispatcher's steps only the
handling of a confirmation does, and that this one has verified both signatures
and the multi id of the transaction it submits. What the check reads is the
transaction taken from the channel, not the cache, so no interleaving can come
between.

**`NodeTypeCorrect`** and **`ReadyIsVerified`**, `NodeSpec => []NodeTypeOK` and
`NodeSpec => []ReadyMeansVerified`. Both follow from `NodeInv`, which says of
every place where a transaction can be (the cache, the four channels, the two
tasks that wait, with the commands the dispatcher has still to send, the
requests on the way, what the backend stores and what was shown) that it holds
*good* ones: a transaction that is ready carries a verifying signature of its
receiver. Nothing of the kind can be said of a confirmed one, since the sender
may sign early. A receiver's answer carries any signature, but it is not ready
until the node has verified that. The cache is also shown to have no key twice
and no more entries than its capacity, through `Update`, `Demote` and the fold
of `UpdatePending`. There is one lemma per action; the parts of the invariant
that an action leaves alone are kept by one lemma (`FrameKeeps`), and what
suffices for a step of the dispatcher, the handler and the environment is said
once for each (`DispatcherPartsSuffice`, `HandlerPartsSuffice`,
`EnvironmentSuffices`).

### The database

**`DbTypeCorrect`, `TotalsAreTrue`, `RestartIsFaithful` and
`PeersAreDistinct`**, from `TablesInv`: each total is the fold of `AddAmount`
over its records, the saved peers are distinct, and an export kept is typed. The
first part is stronger than `TotalsMatchRecords` and what a restart needs: the
records are added anew one by one, and the fold from zero gives the same total.
That a total agrees with the true sum modulo 2^64 although every addition may
wrap is arithmetic (lemmas `ModShift` and `TotalIsSum`), for any even width.

**`KnownNoncesAreNotReused`**, `DbSpec => []NoncesAreNew`: no transaction, over
all starts, was given the nonce of one that its database knew of then. The
property is not inductive: that a nonce differs from all that are known does not
follow from those being different. `NonceInv` says that no known transaction has
a nonce above the database's own, and that the same holds of the export kept; the
second half is what a start from the export needs. Of transactions initiated
after a stale export was made nothing is claimed: their nonces are given again.

### Client metrics and the relay

**`NothingReportedIsLost`, `RepeatsAreNotCounted`, `FailuresAreMerged`,
`MetricsTypeCorrect`**, from `MetricsInv`: a counter is at least the sum of what
each account has reported at most, the last total kept of an account is never
above that, and as long as no account has reported less than before both are
equal. The two need each other, because a step adds the difference to the last
total. The proofs do the arithmetic once for a counter of any kind (`Counter`,
`Exact`, lemma `CounterStep`) and use it for both counters.

**`RelayKeepsAStore`**, `RelaySpec => MetricsSpec`: the relay's steps are steps
of the store or leave it alone, so the four theorems hold of the relay's copy.

**`CircuitsAreCounted`**: with `RelayShape` (the worker records in the shared
service once it runs, lists and queue are typed) `CircuitsAddUp` is inductive;
an event moves from the count of the queue to the count of a list.
**`ReservationsAreCounted`**: `ReservationsAddUp` is not, since a closed
reservation is listed when its event is recorded, and nothing in the property
says that the peer is listed as accepted by then. `ReservationsInv` adds
`ClosedAfterAccepted`: before every closing in the queue, the peer is listed or
an accepting of it is in the queue.

### Only model-checked

Liveness (`EventsAreDelivered`, `AcceptedBecomesActive`, `CallsAreHandled`,
`SubmissionIsReported`, `EventsAreHandled`, `CallsReturn`): it rests on fairness,
and the provers have no rules for `ENABLED`. And the runs that report a
violation, which are counterexamples.

## 5. Not modelled

- Cryptography, encodings, chain clients, fees and amounts; simulation and
  submission of a transaction are outcomes chosen by the environment.
- Logging, host functions and the JavaScript library: they hold no state of the
  protocol.
- The backend's counters of requests, responses, connections and clients: they
  are only ever incremented, each next to the step it counts.
- The crash and restart of the backend: it keeps nothing. Of the node, nothing
  outlives a restart but the export, which `BrowserDb` models; cache and channels
  are empty again, as in `NodeInit`.
- libp2p, beneath the relay: only the events it hands over.
- `OpfsRedbWorker`, the database on the origin private file system: the node does
  not construct it, and it stores a marker instead of its tables.
- The native node and its database, which the workspace excludes and the
  repository's README calls outdated.

## 6. Plan

Order of the modules, the most important behaviour first; all but the last are
done.

1. `TxStateMachine`, `Backend`, `BackendProofs`, `StoreProofs`: store and
   handlers.
2. `Subscriptions`: streams of events.
3. `WasmNode`: the node and its interleavings.
4. `NodeProofs`: what is submitted is signed.
5. `BrowserDb`, `DbProofs`: the node's database across restarts.
6. `EventStream`, `StreamProofs`: the promise of a stream, that
   the subscriptions keep it, and whom they tell what.
7. `NodeLink`, `LinkProofs`: the tasks of a node on their channels, and that the
   connection keeps the same promise.
8. `ClientMetrics`, `Relay`, `RelayProofs`: reports of clients, and the relay
   that records circuits.
9. `Handshake`: the abstract specification of one transaction (announced,
   accepted, ready, confirmed, submitted, reverted) and `Protocol`, two nodes
   composed with the store, shown to implement it as far as the violations of
   section 3 leave it true, with the exceptions stated.

Theorems to come: the simulation of `Handshake` by `Protocol`.
