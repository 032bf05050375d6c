------------------------------ MODULE WasmNode ------------------------------
(***************************************************************************)
(* One browser node (node/wasm/src): the operations of its JavaScript API  *)
(* (interface.rs), the dispatcher that handles what they put on the user   *)
(* channel and the handler of what the backend sends (lib.rs), and the     *)
(* cache the three share.                                                  *)
(*                                                                         *)
(* The runtime is single-threaded: the code between two awaits that        *)
(* suspend is one step.  What suspends is the creation and the submission  *)
(* of a transaction by JavaScript, a send on the full channel to the       *)
(* watcher or on the full command channel, and the wait of a fetch.  A     *)
(* task keeps its RefCell borrows across such an await; a conflicting      *)
(* borrow by another task panics, after what the step did before it.  What *)
(* the instance does after a panic is not modelled.                        *)
(*                                                                         *)
(* The loop of the connection (p2p.rs) takes commands off their channel    *)
(* and makes each a request of its own to the backend: requests reach it   *)
(* in any order or not at all.  The loop itself is module NodeLink; here   *)
(* it runs or it does not.  The backend and the other accounts are the     *)
(* environment: the backend keeps the last transaction it was sent for a   *)
(* pair (module Backend).                                                  *)
(***************************************************************************)
EXTENDS TxStateMachine, Lists, FiniteSets

CONSTANTS
  Me,          \* the account the node was started with
  Profile,     \* all accounts of the user, Me among them, added or not
  CacheCap,    \* entries of the cache: 10 in the code
  RpcCap,      \* size of the channel to the watcher: 10
  CommandCap,  \* size of the channel to the connection: 10
  UserCap,     \* bound: calls in the user channel; no call is made beyond it
  MaxNonce,    \* bound: transactions the user initiates
  MaxCalls,    \* bound: calls of the API
  MaxVersion,  \* bound: no confirmation of a transaction of this version
  PeerNonces,  \* nonces that other accounts give to their transactions
  Signatures,  \* outcomes of the signatures that parties make
  Matches,     \* whether an answer's multi id is that of its two addresses
  Links        \* states the connection's loop may be in

ASSUME NodeAssumption ==
  /\ Me \in Profile /\ Profile \subseteq Addr
  /\ {CacheCap, RpcCap, CommandCap, UserCap} \subseteq Nat \ {0}
  /\ {MaxNonce, MaxVersion, MaxCalls} \subseteq Nat
  /\ PeerNonces \subseteq Nonces /\ 1..MaxNonce \subseteq Nonces
  /\ Signatures \subseteq {"valid", "invalid"} /\ Matches \subseteq BOOLEAN
  /\ Links \subseteq {"up", "down"}

VARIABLES
  profile,    \* the database's user account: the accounts added so far
  nonce,      \* the database's nonce
  cache,      \* the LRU cache, most recently used entry first
  integrity,  \* tx_integrity: nonce -> hashed fields
  userq,      \* user_rpc_update channel
  rpcq,       \* rpc channel, to the watcher
  swarmq,     \* swarm channel, from the backend
  commands,   \* command channel, to the connection
  dispatcher, \* the task of handle_public_interface_tx_updates
  handler,    \* the task of handle_swarm_message
  watcher,    \* the background watcher: its flag, its task, its callbacks
  fetching,   \* the call of fetch_pending_tx_updates under way
  panicked,   \* a RefCell was borrowed twice
  shown,      \* history: the transactions the application was given
  submitted,  \* history: the transactions handed to submit_tx_js
  records,    \* the database's records of finished transactions
  calls,      \* history: how many calls of the API were made
  link,       \* environment: the connection's loop runs ("up") or waits for
              \* ever on the notification channel or was not started ("down")
  inflight,   \* environment: requests on their way to the backend
  remote,     \* environment: the transactions the backend holds
  linked,     \* environment: requests per pair in the backend's peer table
  others      \* environment: what other accounts may still do

memory == <<nonce, cache, integrity>>
queues == <<userq, rpcq, swarmq, commands>>
tasks == <<dispatcher, handler, watcher, fetching>>
history == <<shown, submitted, records>>
environment == <<link, inflight, remote, linked, others>>
nodeVars ==
  <<profile, memory, queues, tasks, panicked, history, calls, environment>>

-----------------------------------------------------------------------------
(* Transactions and the cache *)

Signature == {"none", "valid", "invalid"}

\* recv is recv_signature and signed is signed_call_payload, each by whether
\* it would verify; payload tells whether there is a call_payload, matching
\* whether multi_id is the one of the two addresses.
NodeTx ==
  { t \in [ sender : Addr, receiver : Addr, nonce : Nonces,
            version : Nat, status : Status,
            recv : Signature, signed : Signature,
            payload : BOOLEAN, matching : BOOLEAN ] :
      <<t.sender, t.receiver>> \in Routes }

Genesis(m, n) ==
  [ sender |-> m[1], receiver |-> m[2], nonce |-> n, version |-> 0,
    status |-> "Genesis", recv |-> "none", signed |-> "none",
    payload |-> FALSE, matching |-> TRUE ]

With(t, status) == [t EXCEPT !.status = status]

\* increment_version.
Bump(t) == [t EXCEPT !.version = @ + 1]

\* create_tx has succeeded.
Created(t) == [t EXCEPT !.payload = TRUE]

\* Both parties are accounts of the user, as far as the database knows by then:
\* nothing goes through the backend.
IsLocal(t) == {t.sender, t.receiver} \subseteq profile

\* TtlWrapper: ttl is the time of creation; "epoch" stands for the literal 600
\* that revert_transaction stores, which is always too old.
Entry(t, ttl) == [tx |-> t, ttl |-> ttl]

Keys == {cache[k].tx.nonce : k \in DOMAIN cache}
Cached(n) == CHOOSE e \in Range(cache) : e.tx.nonce = n

\* The entries whose key is not in a set: LruCache::pop of each key.
Without(c, ns) == Keep(c, {e \in Range(c) : e.tx.nonce \notin ns})

\* Faulty variant: the cache grows.
BugPushGrows(c, e) == <<e>> \o Without(c, {e.tx.nonce})

\* LruCache::push: the entry becomes the most recent one, and the least recent
\* one goes when there is no room.
Push(c, e) ==
  LET rest == Without(c, {e.tx.nonce})
  IN  SubSeq(<<e>> \o rest, 1, IF Len(rest) < CacheCap THEN Len(rest) + 1
                                                      ELSE CacheCap)

\* get_mut and update_value of an entry, which keeps its ttl, or a new entry.
Update(c, t) ==
  LET old == {e \in Range(c) : e.tx.nonce = t.nonce}
  IN  Push(c, Entry(t, IF old = {} THEN "now" ELSE (CHOOSE e \in old : TRUE).ttl))

\* get_mut and update_value of an entry, where there is one.
UpdateFound(c, t) ==
  IF \E e \in Range(c) : e.tx.nonce = t.nonce THEN Update(c, t) ELSE c

\* LruCache::demote.
Demote(c, n) ==
  Without(c, {n}) \o Keep(c, {e \in Range(c) : e.tx.nonce = n})

\* compute_tx_integrity_hash covers the parties and the multi id, not the
\* nonce, the version or the status; the table is a HashMap by nonce.
IntegrityOf(t) == <<MultiId(t), t.matching>>
Remember(table, ts) ==
  [n \in DOMAIN table \cup {t.nonce : t \in ts} |->
     IF \E t \in ts : t.nonce = n
     THEN IntegrityOf(CHOOSE t \in ts : t.nonce = n) ELSE table[n]]
HasIntegrity(t) ==
  t.nonce \in DOMAIN integrity /\ integrity[t.nonce] = IntegrityOf(t)

\* Faulty variants: one party's signature is not looked at.
BugReceiverUnchecked(t, who) == who = "Receiver" \/ t.signed = "valid"
BugSenderUnchecked(t, who) == who = "Sender" \/ t.recv = "valid"

\* validate_receiver_and_sender_address: a missing signature does not verify.
Verified(t, who) ==
  (IF who = "Receiver" THEN t.recv ELSE t.signed) = "valid"

-----------------------------------------------------------------------------
(* Borrows and suspended tasks *)

\* A task is idle, waits for JavaScript ("creating", "submitting"), for room
\* in the rpc channel ("sending") or, with the commands it has yet to send, in
\* the command channel ("commanding"), or has ended ("dead").
Idle == [pc |-> "idle", holds |-> {}]
Dead == [pc |-> "dead", holds |-> {}]
Waiting(pc, t, holds) == [pc |-> pc, tx |-> t, holds |-> holds]
Commanding(t, cmds, holds) ==
  [pc |-> "commanding", tx |-> t, holds |-> holds, cmds |-> cmds]

Borrowed(cell) == cell \in dispatcher.holds \cup handler.holds

\* The part of a step that begins with borrowing cells: it panics when a task
\* that waits holds one of them, and changes none of  vs .
Borrowing(cells, A, vs) ==
  IF \E c \in cells : Borrowed(c) THEN panicked' = TRUE /\ UNCHANGED vs ELSE A

RpcFull == Len(rpcq) >= RpcCap

RecordOf(t, success) == [tx |-> <<MultiId(t), t.nonce>>, success |-> success]

-----------------------------------------------------------------------------
(* The JavaScript API *)

\* No operation checks that an account it is given is one of the user's.
InitiateTransaction(m) ==
  LET t == Genesis(m, nonce + 1)
  IN  /\ ~panicked
      /\ nonce < MaxNonce /\ Len(userq) < UserCap
      /\ nonce' = nonce + 1
      /\ integrity' = Remember(integrity, {t})
      /\ userq' = Append(userq, t)
      /\ Borrowing({"cache"},
           /\ cache' = Push(cache, Entry(t, "now"))
           /\ shown' = shown \cup {t}
           /\ UNCHANGED panicked, <<cache, shown>>)
      /\ UNCHANGED <<rpcq, swarmq, commands, tasks, submitted, records,
                     environment>>

\* The application cannot sign for an account of another user.
SignaturesOf(a) == IF a \in Profile THEN Signatures ELSE Signatures \ {"valid"}

\* What the application may pass to senderConfirm: a transaction it was shown,
\* also signed, in its turn or early, or signed and then submitted by the
\* application itself.
SenderInputs ==
  LET signed == UNION {{[t EXCEPT !.signed = s] : s \in SignaturesOf(t.sender)} :
                         t \in shown}
  IN  shown \cup signed
        \cup {With(t, s) : t \in signed,
                           s \in {"TxSubmissionPassed", "FailedToSubmitTxn"}}

\* The checks of sender_confirm, all of them on the transaction passed in.
SenderMayConfirm(t) ==
  /\ HasIntegrity(t)
  /\ t.status \notin {"Reverted", "ReceiverNotRegistered", "RecvAddrFailed"}
  /\ t.signed # "none" \/ t.status = "RecvAddrConfirmationPassed"

\* What no call that edits the cache and tells the dispatcher changes.
callFrame ==
  <<nonce, integrity, rpcq, swarmq, commands, tasks, history, environment>>

\* The transaction reaches the dispatcher as confirmed, unless the application
\* has submitted it already.
SenderConfirm(t) ==
  LET confirmed ==
        Bump(IF t.status \in {"TxSubmissionPassed", "FailedToSubmitTxn"} THEN t
             ELSE With(t, "SenderConfirmed"))
  IN  /\ ~panicked
      /\ t.version < MaxVersion /\ Len(userq) < UserCap
      /\ SenderMayConfirm(t)
      /\ Borrowing({"cache"},
           /\ t.nonce \in Keys
           /\ cache' = Update(cache, confirmed)
           /\ userq' = Append(userq, confirmed)
           /\ UNCHANGED panicked, <<cache, userq>>)
      /\ UNCHANGED callFrame

\* receiver_confirm(t) after the application signed t: the entry is demoted.
ReceiverConfirm(t, s) ==
  LET confirmed == [Bump(With(t, "RecvAddrConfirmed")) EXCEPT !.recv = s]
  IN  /\ ~panicked
      /\ t.version < MaxVersion /\ Len(userq) < UserCap
      /\ t.status = "Genesis"
      /\ HasIntegrity(t)
      /\ Borrowing({"cache"},
           /\ cache' = Demote(cache, t.nonce)
           /\ userq' = Append(userq, confirmed)
           /\ UNCHANGED panicked, <<cache, userq>>)
      /\ UNCHANGED callFrame

\* By either party; the version of what is passed in stays as it is.
RevertTransaction(t) ==
  /\ ~panicked
  /\ Len(userq) < UserCap
  /\ Borrowing({"cache"},
       /\ cache' = IF IsReverted(t) THEN Push(cache, Entry(t, "epoch"))
                                    ELSE Update(cache, With(t, "Reverted"))
       /\ userq' = Append(userq, With(t, "Reverted"))
       /\ UNCHANGED panicked, <<cache, userq>>)
  /\ UNCHANGED callFrame

\* delete_tx_in_cache, clear_reverted_from_cache, clear_finalized_from_cache.
DropFromCache(ns) ==
  /\ ~panicked
  /\ Borrowing({"cache"}, cache' = Without(cache, ns) /\ UNCHANGED panicked, cache)
  /\ UNCHANGED <<userq, callFrame>>

DeleteTxInCache(t) == DropFromCache({t.nonce})
ClearFromCache(statuses) ==
  DropFromCache({n \in Keys : Cached(n).tx.status \in statuses})
ClearRevertedFromCache == ClearFromCache({"Reverted"})
ClearFinalizedFromCache == ClearFromCache({"Reverted", "TxSubmissionPassed"})

\* fetch_pending_tx_updates sends its command ("asking" while there is no room),
\* waits two seconds and returns what the cache then holds, whether or not the
\* answer has come.
AskPending ==
  /\ ~panicked
  /\ IF Len(commands) < CommandCap
     THEN /\ commands' = Append(commands, [type |-> "fetch"])
          /\ fetching' = "waiting"
     ELSE /\ fetching' = "asking"
          /\ UNCHANGED commands
  /\ UNCHANGED <<memory, userq, rpcq, swarmq, dispatcher, handler, watcher,
                 panicked, history, environment>>

FetchStart == fetching = "no" /\ AskPending
FetchAsks == fetching = "asking" /\ Len(commands) < CommandCap /\ AskPending

\* Any entries may have expired in the meantime, and those dated 600 have.
FetchEnd ==
  /\ ~panicked
  /\ fetching = "waiting"
  /\ Borrowing({"cache"},
       \E expired \in SUBSET Keys :
         /\ \A n \in Keys : Cached(n).ttl = "epoch" => n \in expired
         /\ cache' = Without(cache, expired)
         /\ LET found == {e.tx : e \in Range(cache')}
            IN  /\ shown' = shown \cup found
                /\ integrity' = Remember(integrity, found)
         /\ fetching' = "no"
         /\ UNCHANGED panicked, <<cache, shown, integrity, fetching>>)
  /\ UNCHANGED <<nonce, queues, dispatcher, handler, watcher, submitted,
                 records, environment>>

\* watch_tx_updates: a flag that is down starts a task, which panics if an
\* earlier one still holds the receiving end of the channel.
WatchTxUpdates ==
  /\ ~panicked
  /\ panicked' = (~watcher.active /\ watcher.running)
  /\ watcher' = [active |-> TRUE, running |-> TRUE, callbacks |-> TRUE]
  /\ UNCHANGED <<memory, queues, dispatcher, handler, fetching, history,
                 environment>>

\* The flag goes down and the callbacks go; the task keeps running.
UnsubscribeWatchTxUpdates ==
  /\ ~panicked
  /\ watcher' = [watcher EXCEPT !.active = FALSE, !.callbacks = FALSE]
  /\ UNCHANGED <<memory, queues, dispatcher, handler, fetching, panicked,
                 history, environment>>

\* The watcher's task takes an update, and gives it to the callbacks there are.
Watch ==
  /\ ~panicked
  /\ watcher.running /\ rpcq # <<>>
  /\ rpcq' = Tail(rpcq)
  /\ integrity' = Remember(integrity, {Head(rpcq)})
  /\ shown' = IF watcher.callbacks THEN shown \cup {Head(rpcq)} ELSE shown
  /\ UNCHANGED <<nonce, cache, userq, swarmq, commands, tasks, panicked,
                 submitted, records, environment>>

\* add_account, at any time: a transaction that began as one between two users
\* may go on as one between two accounts of the user.
AddAccount(a) ==
  /\ ~panicked
  /\ a \notin profile
  /\ profile' = profile \cup {a}
  /\ UNCHANGED <<memory, queues, tasks, panicked, history, environment>>

-----------------------------------------------------------------------------
(* The dispatcher *)

Command(type, t) == [type |-> type, tx |-> t]

\* What no step of the dispatcher changes.
dispatcherFrame ==
  <<nonce, integrity, swarmq, handler, watcher, fetching, shown, environment>>

\* The dispatcher takes a transaction of this status off the user channel.
\* NetConfirmed is todo!() and the other statuses do nothing: no operation of
\* the API sends them.
Takes(t, statuses) ==
  /\ ~panicked
  /\ dispatcher.pc = "idle" /\ userq # <<>>
  /\ t = Head(userq) /\ t.status \in statuses
  /\ userq' = Tail(userq)

\* The failed transaction of handle_sender_confirmed_tx_state is recorded only
\* after the user was told of it.
RecordsOnceTold(t, recs) ==
  IF t.status = "TxError" THEN recs \cup {RecordOf(t, FALSE)} ELSE recs

\* rpc_sender_channel.send(t).await, with the borrows that live on meanwhile.
Notify(t, holds, recs) ==
  IF Borrowed("rpc") \/ RpcFull
  THEN /\ panicked' = Borrowed("rpc")
       /\ dispatcher' = IF Borrowed("rpc") THEN dispatcher
                        ELSE Waiting("sending", t, holds \cup {"rpc"})
       /\ records' = recs
       /\ UNCHANGED rpcq
  ELSE /\ rpcq' = Append(rpcq, t)
       /\ dispatcher' = Idle
       /\ records' = RecordsOnceTold(t, recs)
       /\ UNCHANGED panicked

\* The borrows that live on while a handler waits to send its commands.
Held(t) ==
  IF t.status \in {"SenderConfirmationfailed", "TxSubmissionPassed",
                  "FailedToSubmitTxn"} THEN {"worker"} ELSE {}

\* What a handler does after its commands, told by the status it has given the
\* transaction: nothing more; or a new entry of the cache; or, for a revert
\* also a record, the update of the entry, where a missing one is pushed while
\* the cache is borrowed.  Then the user is told.  The end of a submission and
\* of a failed match keep the cache borrowed meanwhile.
AfterCommands(t, recs) ==
  \/ /\ t.status \in {"Genesis", "RecvAddrConfirmed"}
     /\ dispatcher' = Idle
     /\ records' = recs
     /\ UNCHANGED <<cache, rpcq, panicked>>
  \/ /\ t.status = "SenderConfirmationfailed"
     /\ cache' = Push(cache, Entry(t, "now"))
     /\ Notify(t, Held(t), recs)
  \/ /\ t.status \in {"TxSubmissionPassed", "FailedToSubmitTxn", "TxError"}
     /\ t.nonce \in Keys
     /\ cache' = Update(cache, t)
     /\ Notify(t, Held(t) \cup {"cache"}, recs)
  \/ /\ t.status = "Reverted" /\ t.nonce \in Keys
     /\ cache' = Update(cache, t)
     /\ Notify(t, {}, recs \cup {RecordOf(t, FALSE)})
  \/ /\ t.status \in {"TxSubmissionPassed", "FailedToSubmitTxn", "TxError",
                      "Reverted"}
     /\ t.nonce \notin Keys
     /\ panicked' = TRUE
     /\ records' = IF IsReverted(t) THEN recs \cup {RecordOf(t, FALSE)} ELSE recs
     /\ UNCHANGED <<cache, rpcq, dispatcher>>

\* command_tx.send(c).await of each command: as many as there is room for go at
\* once, and the handler waits with the others or goes on.
SendCommands(t, cmds, recs) ==
  LET room == CommandCap - Len(commands)
  IN  IF Len(cmds) <= room
      THEN /\ commands' = commands \o cmds
           /\ AfterCommands(t, recs)
      ELSE /\ commands' = commands \o SubSeq(cmds, 1, room)
           /\ dispatcher' =
                Commanding(t, SubSeq(cmds, room + 1, Len(cmds)), Held(t))
           /\ records' = recs
           /\ UNCHANGED <<cache, rpcq, panicked>>

\* An error ends the dispatcher's loop, and no call is handled after it.
Die ==
  /\ dispatcher' = Dead
  /\ UNCHANGED <<cache, rpcq, commands, panicked, records>>

HandleGenesisTxState(t) ==
  /\ Takes(t, {"Genesis"})
  /\ \/ /\ IsLocal(t) /\ t.nonce \notin Keys
        /\ Die
     \/ /\ IsLocal(t) /\ t.nonce \in Keys
        /\ cache' = Update(cache, t)
        /\ Notify(t, {}, records)
        /\ UNCHANGED commands
     \/ /\ ~IsLocal(t)
        /\ SendCommands(t, <<Command("request", t)>>, records)
  /\ UNCHANGED <<submitted, dispatcherFrame>>

\* The end of the local receiver confirmation: a full channel or a missing
\* entry is an error, the latter after the user has been told.
EndLocalConfirmation(t) ==
  Borrowing({"rpc"},
    /\ \/ /\ RpcFull
          /\ dispatcher' = Dead
          /\ UNCHANGED <<cache, rpcq>>
       \/ /\ ~RpcFull
          /\ rpcq' = Append(rpcq, t)
          /\ dispatcher' = IF t.nonce \in Keys THEN Idle ELSE Dead
          /\ cache' = UpdateFound(cache, t)
    /\ UNCHANGED panicked, <<cache, rpcq, dispatcher>>)

HandleRecvAddrConfirmedTxState(t) ==
  /\ Takes(t, {"RecvAddrConfirmed"})
  /\ \/ /\ ~IsLocal(t)
        /\ SendCommands(t, <<Command("response", t)>>, records)
     \/ /\ IsLocal(t)
        /\ Borrowing({"worker"},
             \/ /\ Verified(t, "Receiver")
                /\ dispatcher' =
                     Waiting("creating",
                       Bump(With(t, "RecvAddrConfirmationPassed")), {"worker"})
                /\ UNCHANGED <<cache, rpcq, panicked, records>>
             \/ /\ ~Verified(t, "Receiver")
                /\ records' = records \cup {RecordOf(t, FALSE)}
                /\ EndLocalConfirmation(Bump(With(t, "Reverted"))),
             <<cache, rpcq, dispatcher, records>>)
        /\ UNCHANGED commands
  /\ UNCHANGED <<submitted, dispatcherFrame>>

\* create_tx_js settles.  After a failure the entry found in the cache is
\* updated, and then pushed while it is still borrowed.
DispatcherCreated ==
  /\ ~panicked
  /\ dispatcher.pc = "creating"
  /\ \/ EndLocalConfirmation(Created(dispatcher.tx))
     \/ /\ dispatcher.tx.nonce \in Keys
        /\ cache' = UpdateFound(cache, With(dispatcher.tx, "TxError"))
        /\ panicked' = TRUE
        /\ UNCHANGED <<rpcq, dispatcher>>
     \/ /\ dispatcher.tx.nonce \notin Keys
        /\ dispatcher' = Dead
        /\ UNCHANGED <<cache, rpcq, panicked>>
  /\ UNCHANGED <<userq, commands, submitted, records, dispatcherFrame>>

\* The application has submitted the transaction itself.  Both branches of the
\* if-let borrow the cache again: the record is made and the entry updated,
\* then the step panics.
HandleSubmittedTxState(t) ==
  /\ Takes(t, {"TxSubmissionPassed", "FailedToSubmitTxn"})
  /\ records' = records \cup {RecordOf(t, t.status = "TxSubmissionPassed")}
  /\ cache' = UpdateFound(cache, t)
  /\ panicked' = TRUE
  /\ UNCHANGED <<rpcq, commands, dispatcher, submitted, dispatcherFrame>>

\* Both signatures and the multi id are verified, and the transaction goes to
\* submit_tx_js.  A signature of the sender without a call payload panics.
HandleSenderConfirmedTxState(t) ==
  /\ Takes(t, {"SenderConfirmed"})
  /\ Borrowing({"worker"},
       \/ /\ ~Verified(t, "Receiver")
          /\ Die
          /\ UNCHANGED submitted
       \/ /\ Verified(t, "Receiver") /\ t.signed # "none" /\ ~t.payload
          /\ panicked' = TRUE
          /\ UNCHANGED <<cache, rpcq, commands, dispatcher, records, submitted>>
       \/ /\ Verified(t, "Receiver") /\ ~Verified(t, "Sender")
          /\ t.signed = "none" \/ t.payload
          /\ LET failed == With(t, "SenderConfirmationfailed")
             IN  SendCommands(failed, <<Command("confirm", failed)>>, records)
          /\ UNCHANGED submitted
       \/ /\ Verified(t, "Receiver") /\ Verified(t, "Sender")
          /\ t.payload /\ t.matching
          /\ dispatcher' = Waiting("submitting", t, {"worker"})
          /\ submitted' = submitted \cup {t}
          /\ UNCHANGED <<cache, rpcq, commands, panicked, records>>
       \/ /\ Verified(t, "Receiver") /\ Verified(t, "Sender")
          /\ t.payload /\ ~t.matching
          /\ LET failed == With(t, "TxError")
             IN  SendCommands(failed, <<Command("confirm", failed)>>, records)
          /\ UNCHANGED submitted,
       <<cache, rpcq, commands, dispatcher, records, submitted>>)
  /\ UNCHANGED dispatcherFrame

\* Faulty variant: the user is not told how the submission went.
BugSilentSubmission ==
  \E status \in {"TxSubmissionPassed", "FailedToSubmitTxn"} :
    /\ ~panicked
    /\ dispatcher.pc = "submitting"
    /\ cache' = Update(cache, With(dispatcher.tx, status))
    /\ dispatcher' = Idle
    /\ UNCHANGED <<rpcq, userq, commands, panicked, submitted, records,
                   dispatcherFrame>>

\* submit_tx_js settles; a success is recorded before the command is sent.
DispatcherSubmitted ==
  \E status \in {"TxSubmissionPassed", "FailedToSubmitTxn"} :
    LET t == With(dispatcher.tx, status)
        recs == IF status = "TxSubmissionPassed"
                THEN records \cup {RecordOf(t, TRUE)} ELSE records
    IN  /\ ~panicked
        /\ dispatcher.pc = "submitting"
        /\ SendCommands(t, <<Command("submission", t)>>, recs)
        /\ UNCHANGED <<userq, submitted, dispatcherFrame>>

HandleRevertedTxState(t) ==
  LET cmds == IF IsLocal(t) THEN <<>>
              ELSE <<Command("revert", t), Command("close", t)>>
  IN  /\ Takes(t, {"Reverted"})
      /\ SendCommands(t, cmds, records)
      /\ UNCHANGED <<submitted, dispatcherFrame>>

\* There is room again in the command channel.
DispatcherCommands ==
  /\ ~panicked
  /\ dispatcher.pc = "commanding" /\ Len(commands) < CommandCap
  /\ SendCommands(dispatcher.tx, dispatcher.cmds, records)
  /\ UNCHANGED <<userq, submitted, dispatcherFrame>>

\* There is room again in the rpc channel.
DispatcherSends ==
  /\ ~panicked
  /\ dispatcher.pc = "sending" /\ ~RpcFull
  /\ rpcq' = Append(rpcq, dispatcher.tx)
  /\ dispatcher' = Idle
  /\ records' = RecordsOnceTold(dispatcher.tx, records)
  /\ UNCHANGED <<cache, userq, commands, panicked, submitted, dispatcherFrame>>

Dispatch ==
  \/ \E t \in Range(userq) :
       \/ HandleGenesisTxState(t)
       \/ HandleRecvAddrConfirmedTxState(t)
       \/ HandleSubmittedTxState(t)
       \/ HandleSenderConfirmedTxState(t)
       \/ HandleRevertedTxState(t)
  \/ DispatcherCommands
  \/ DispatcherSends

-----------------------------------------------------------------------------
(* The handler of what the backend sends *)

\* What no step of the handler changes.
handlerFrame ==
  <<nonce, integrity, userq, commands, dispatcher, watcher, fetching, shown,
    submitted, environment>>

\* The handler takes the next message of the swarm channel.
Arrives(type) ==
  /\ ~panicked
  /\ handler.pc = "idle" /\ swarmq # <<>>
  /\ Head(swarmq).type = type
  /\ swarmq' = Tail(swarmq)

\* WasmRequest: the notification is dropped when the channel is full.
OnRequest ==
  /\ Arrives("request")
  /\ LET t == Head(swarmq).tx
     IN  Borrowing({"rpc"},
           /\ rpcq' = IF RpcFull THEN rpcq ELSE Append(rpcq, t)
           /\ cache' = Push(cache, Entry(t, "now"))
           /\ UNCHANGED panicked, <<cache, rpcq>>)
  /\ UNCHANGED <<handler, records, handlerFrame>>

\* A response is dropped when the cache has the transaction as reverted, or a
\* later version of it.
Accepts(t) ==
  t.nonce \in Keys => /\ ~IsReverted(Cached(t.nonce).tx)
                      /\ t.version >= Cached(t.nonce).tx.version

\* The end of a response: a full channel ends the handling before the cache is
\* written; a transaction that is no longer in the cache comes back as an
\* error, in a second notification that waits for room.
EndResponse(t) ==
  LET expired == With(t, "TxError")
  IN  Borrowing({"rpc"},
        /\ \/ /\ RpcFull
              /\ handler' = Idle
              /\ UNCHANGED <<cache, rpcq>>
           \/ /\ ~RpcFull /\ t.nonce \in Keys
              /\ cache' = Update(cache, t)
              /\ rpcq' = Append(rpcq, t)
              /\ handler' = Idle
           \/ /\ ~RpcFull /\ t.nonce \notin Keys
              /\ cache' = Push(cache, Entry(expired, "now"))
              /\ IF Len(rpcq) + 1 < RpcCap
                 THEN rpcq' = rpcq \o <<t, expired>> /\ handler' = Idle
                 ELSE /\ rpcq' = Append(rpcq, t)
                      /\ handler' = Waiting("sending", expired, {"rpc"})
        /\ UNCHANGED panicked, <<cache, rpcq, handler>>)

\* WasmResponse, up to the creation of the transaction by JavaScript when the
\* receiver's signature verifies, to the end when it does not.
OnResponse ==
  /\ Arrives("response")
  /\ LET t == Head(swarmq).tx
     IN  Borrowing({"cache"},
           \/ /\ ~Accepts(t)
              /\ UNCHANGED <<cache, rpcq, handler, panicked, records>>
           \/ /\ Accepts(t) /\ Verified(t, "Receiver")
              /\ Borrowing({"worker"},
                   /\ handler' =
                        Waiting("creating",
                          Bump(With(t, "RecvAddrConfirmationPassed")),
                          {"worker"})
                   /\ UNCHANGED panicked, handler)
              /\ UNCHANGED <<cache, rpcq, records>>
           \/ /\ Accepts(t) /\ ~Verified(t, "Receiver")
              /\ records' = records \cup {RecordOf(t, FALSE)}
              /\ EndResponse(Bump(With(t, "Reverted"))),
           <<cache, rpcq, handler, records>>)
  /\ UNCHANGED handlerFrame

\* create_tx_js settles.  After a failure both branches of the if-let borrow
\* the cache twice, the first once the entry is updated.
HandlerCreated ==
  /\ ~panicked
  /\ handler.pc = "creating"
  /\ \/ EndResponse(Created(handler.tx))
     \/ /\ cache' = UpdateFound(cache, With(handler.tx, "TxError"))
        /\ panicked' = TRUE
        /\ UNCHANGED <<rpcq, handler>>
  /\ UNCHANGED <<swarmq, records, handlerFrame>>

HandlerSends ==
  /\ ~panicked
  /\ handler.pc = "sending" /\ ~RpcFull
  /\ rpcq' = Append(rpcq, handler.tx)
  /\ handler' = Idle
  /\ UNCHANGED <<cache, swarmq, panicked, records, handlerFrame>>

\* Every transaction replaces what the cache has under its nonce, except that a
\* call payload stays.
UpdatePending(c, t) ==
  LET old == {e \in Range(c) : e.tx.nonce = t.nonce}
  IN  Update(c, [t EXCEPT !.payload = @ \/ \E e \in old : e.tx.payload])

\* PendingTransactionsFetched.
OnPendingFetched ==
  /\ Arrives("pending")
  /\ Borrowing({"cache"},
       /\ cache' = FoldLeft(UpdatePending, cache, Head(swarmq).txs)
       /\ UNCHANGED panicked, cache)
  /\ UNCHANGED <<rpcq, handler, records, handlerFrame>>

HandleSwarmMessage == OnRequest \/ OnResponse \/ OnPendingFetched \/ HandlerSends

-----------------------------------------------------------------------------
(* The backend and the other accounts *)

node == <<memory, userq, rpcq, commands, tasks, panicked, history>>

\* A multi id that does not match is one under which nothing is on a list.
Stored(t) ==
  IF t.matching THEN {u \in remote : MultiId(u) # MultiId(t)} \cup {t} ELSE remote
IsStored(t) == \E u \in remote : MultiId(u) = MultiId(t)

\* What the subscription brings, while the connection's loop runs.
Delivers(type, t, wanted) ==
  swarmq' = IF link = "up" /\ wanted
            THEN Append(swarmq, [type |-> type, tx |-> t]) ELSE swarmq

\* Faulty variant: the loop takes no command while a fetch is under way.
BugWaitsForAnswer ==
  /\ ~panicked
  /\ link = "up" /\ commands # <<>> /\ fetching = "no"
  /\ inflight' = inflight \cup {Head(commands)}
  /\ commands' = Tail(commands)
  /\ UNCHANGED <<memory, userq, rpcq, swarmq, tasks, panicked, history, link,
                 remote, linked, others>>

\* The loop takes a command and makes it a request to the backend.
TakeCommand ==
  /\ ~panicked
  /\ link = "up" /\ commands # <<>>
  /\ inflight' = inflight \cup {Head(commands)}
  /\ commands' = Tail(commands)
  /\ UNCHANGED <<memory, userq, rpcq, swarmq, tasks, panicked, history, link,
                 remote, linked, others>>

LinkFails ==
  /\ ~panicked
  /\ link = "up" /\ "down" \in Links
  /\ link' = "down"
  /\ UNCHANGED <<node, swarmq, inflight, remote, linked, others>>

\* The request that another account may answer once.
RequestArrives(c) ==
  LET t == c.tx
  IN  /\ c.type = "request"
      /\ remote' = Stored(t)
      /\ linked' = [linked EXCEPT ![MultiId(t)] = @ + 1]
      /\ others' = [others EXCEPT !.asked = @ \cup {t}]
      /\ Delivers("request", t, t.receiver = Me)

ResponseArrives(c) ==
  /\ c.type = "response"
  /\ remote' = Stored(c.tx)
  /\ Delivers("response", c.tx, c.tx.sender = Me)
  /\ UNCHANGED <<linked, others>>

\* An update of the sender counts only while the backend has the pair.
UpdateArrives(c) ==
  /\ c.type \in {"confirm", "submission", "revert"}
  /\ remote' = IF linked[MultiId(c.tx)] > 0 /\ IsStored(c.tx)
               THEN Stored(c.tx) ELSE remote
  /\ UNCHANGED <<swarmq, linked, others>>

\* The pair goes if it was requested once, and if no other sender of the same
\* receiver is met first.
CloseArrives(c) ==
  LET m == MultiId(c.tx)
  IN  /\ c.type = "close"
      /\ \/ linked[m] = 1 /\ linked' = [linked EXCEPT ![m] = 0]
         \/ UNCHANGED linked
      /\ UNCHANGED <<swarmq, remote, others>>

FetchArrives(c) ==
  LET pending == {t \in remote : Me \in {t.sender, t.receiver}
                                /\ ~IsReverted(t)}
  IN  /\ c.type = "fetch"
      /\ \/ /\ link = "up"
            /\ \E ts \in SetToSeqs(pending) :
                 swarmq' = Append(swarmq, [type |-> "pending", txs |-> ts])
         \/ link = "down" /\ UNCHANGED swarmq
      /\ UNCHANGED <<remote, linked, others>>

\* A request that fails is only logged.
Arrival ==
  \E c \in inflight :
    /\ ~panicked
    /\ \/ RequestArrives(c) \/ ResponseArrives(c) \/ UpdateArrives(c)
       \/ CloseArrives(c) \/ FetchArrives(c)
       \/ UNCHANGED <<swarmq, remote, linked, others>>
    /\ inflight' = inflight \ {c}
    /\ UNCHANGED <<node, link>>

\* The answer to a request, at any later time; a node takes it off the stream
\* when the sender is the account it was started with.
PeerResponds(t, s, matching) ==
  LET answer == [Bump(With(t, "RecvAddrConfirmed"))
                   EXCEPT !.recv = s, !.matching = matching]
  IN  /\ ~panicked
      /\ remote' = Stored(answer)
      /\ Delivers("response", answer, t.sender = Me)
      /\ others' = [others EXCEPT !.asked = @ \ {t}]
      /\ UNCHANGED <<node, link, inflight, linked>>

PeerRequests(m, n) ==
  LET t == Genesis(m, n)
  IN  /\ ~panicked
      /\ m[1] \notin Profile /\ m[2] = Me
      /\ remote' = Stored(t)
      /\ linked' = [linked EXCEPT ![m] = @ + 1]
      /\ Delivers("request", t, TRUE)
      /\ others' = [others EXCEPT !.nonces = @ \ {n}]
      /\ UNCHANGED <<node, link, inflight>>

Environment ==
  \/ Arrival \/ LinkFails
  \/ \E t \in others.asked, s \in Signatures, k \in Matches :
       PeerResponds(t, s, k)
  \/ \E m \in Routes, n \in others.nonces : PeerRequests(m, n)

-----------------------------------------------------------------------------

\* A start without an export knows Me only; one with an export, what it holds.
NodeInit ==
  /\ profile \in {P \in SUBSET Profile : Me \in P}
  /\ nonce = 0
  /\ cache = <<>> /\ integrity = <<>>
  /\ userq = <<>> /\ rpcq = <<>> /\ swarmq = <<>> /\ commands = <<>>
  /\ dispatcher = Idle /\ handler = Idle
  /\ watcher = [active |-> FALSE, running |-> FALSE, callbacks |-> FALSE]
  /\ fetching = "no" /\ panicked = FALSE
  /\ shown = {} /\ submitted = {} /\ records = {} /\ calls = 0
  /\ link \in Links /\ inflight = {} /\ remote = {}
  /\ linked = [m \in Routes |-> 0]
  /\ others = [asked |-> {}, nonces |-> PeerNonces]

ApiCall ==
  \/ \E m \in Routes : InitiateTransaction(m)
  \/ \E t \in SenderInputs : SenderConfirm(t)
  \/ \E t \in shown : \/ \E s \in SignaturesOf(t.receiver) : ReceiverConfirm(t, s)
                      \/ RevertTransaction(t)
                      \/ DeleteTxInCache(t)
  \/ ClearRevertedFromCache \/ ClearFinalizedFromCache
  \/ FetchStart
  \/ WatchTxUpdates \/ UnsubscribeWatchTxUpdates

\* The steps of the tasks that the node runs.
TaskStep ==
  \/ FetchAsks \/ FetchEnd \/ Watch \/ TakeCommand
  \/ Dispatch \/ DispatcherCreated \/ DispatcherSubmitted
  \/ HandleSwarmMessage \/ HandlerCreated

NodeNext ==
  \/ /\ calls < MaxCalls /\ calls' = calls + 1
     /\ \/ ApiCall /\ UNCHANGED profile
        \/ \E a \in Profile : AddAccount(a)
  \/ (TaskStep \/ Environment) /\ UNCHANGED <<calls, profile>>

NodeSpec == NodeInit /\ [][NodeNext]_nodeVars

\* The browser's event loop runs a task that can go on, the connection's loop
\* with it while it is up, and the application's createTx and submitTx settle.
FairNode ==
  /\ NodeSpec
  /\ WF_nodeVars(Watch /\ UNCHANGED <<calls, profile>>)
  /\ WF_nodeVars(Dispatch /\ UNCHANGED <<calls, profile>>)
  /\ WF_nodeVars(DispatcherCreated /\ UNCHANGED <<calls, profile>>)
  /\ WF_nodeVars(DispatcherSubmitted /\ UNCHANGED <<calls, profile>>)
  /\ WF_nodeVars(TakeCommand /\ UNCHANGED <<calls, profile>>)
  /\ WF_nodeVars(HandleSwarmMessage /\ UNCHANGED <<calls, profile>>)
  /\ WF_nodeVars(HandlerCreated /\ UNCHANGED <<calls, profile>>)

-----------------------------------------------------------------------------
(* Properties *)

\* Type invariant of the node; the cache has one entry per key and never more
\* than its capacity, and no bounded channel more than its own.
NodeTypeOK ==
  /\ Me \in profile /\ profile \subseteq Profile
  /\ nonce \in Nat
  /\ \A k \in DOMAIN cache : /\ cache[k].tx \in NodeTx
                             /\ cache[k].ttl \in {"now", "epoch"}
  /\ Len(cache) <= CacheCap /\ Cardinality(Keys) = Len(cache)
  /\ DOMAIN integrity \subseteq Nonces
  /\ Range(userq) \cup Range(rpcq) \subseteq NodeTx
  /\ Len(userq) <= UserCap /\ Len(rpcq) <= RpcCap
  /\ Len(commands) <= CommandCap
  /\ dispatcher.pc \in {"idle", "creating", "submitting", "sending",
                       "commanding", "dead"}
  /\ handler.pc \in {"idle", "creating", "sending"}
  /\ watcher \in [active : BOOLEAN, running : BOOLEAN, callbacks : BOOLEAN]
  /\ fetching \in {"no", "asking", "waiting"} /\ panicked \in BOOLEAN
  /\ link \in {"up", "down"}
  /\ shown \cup submitted \cup remote \subseteq NodeTx

\* Whatever is handed to submit_tx_js carries a signature of the receiver and
\* one of the sender that verify and the multi id of its two addresses, in
\* whichever order, how late or how often the parties confirm, whichever of
\* their signatures do not verify and whatever multi id an answer had
\* (handle_sender_confirmed_tx_state).
SubmissionsAreSigned ==
  \A t \in submitted : t.recv = "valid" /\ t.signed = "valid" /\ t.matching

\* The application is never shown a transaction as ready for the sender to
\* sign, and never asked to create one, without a signature of the receiver
\* that verifies: not after a late or repeated confirmation, nor through the
\* cache (handle_recv_addr_confirmed_tx_state, handle_swarm_message).
ReadyMeansVerified ==
  /\ \A t \in shown \cup Range(rpcq) \cup {e.tx : e \in Range(cache)} :
       t.status = "RecvAddrConfirmationPassed" => t.recv = "valid"
  /\ \A task \in {dispatcher, handler} :
       task.pc = "creating" => task.tx.recv = "valid"

\* The node has trapped or its dispatcher has ended on an error.
Down == panicked \/ dispatcher.pc = "dead"

\* The dispatcher waits for room in a command channel that nobody empties.
Stalled == dispatcher.pc = "commanding" /\ link = "down"

\* A call that reached the user channel is handled, as long as a watcher takes
\* updates and, should the dispatcher have commands, the connection's loop
\* takes those: no send that waits for room in one of the two channels keeps
\* the dispatcher for ever, whatever it holds meanwhile
\* (handle_public_interface_tx_updates).
CallsAreHandled ==
  userq # <<>> ~> (userq = <<>> \/ Down \/ Stalled \/ ~watcher.running)

\* An application that watches learns how a submission ended, also when the
\* command that comes before the report had to wait, unless nobody takes
\* commands any more (handle_sender_confirmed_tx_state).
SubmissionIsReported ==
  dispatcher.pc = "submitting"
    ~> \/ \E t \in shown :
            t.status \in {"TxSubmissionPassed", "FailedToSubmitTxn"}
       \/ Down \/ Stalled \/ ~watcher.callbacks

\* The entries that a step finds and leaves in the cache under one key, as
\* pairs.
Kept == {p \in Range(cache) \X Range(cache') : p[1].tx.nonce = p[2].tx.nonce}

\* A step of the handler of what the backend sends.
Inbound == handler' # handler \/ Len(swarmq') < Len(swarmq)

\* "Drop updates if already reverted in cache": a response does not change a
\* transaction that is reverted in the cache by the time it is written there,
\* after JavaScript has created the transaction (handle_swarm_message).
ResponseKeepsRevert ==
  [][handler' # handler =>
       \A p \in Kept : IsReverted(p[1].tx) => IsReverted(p[2].tx)]_nodeVars

\* "Version gating: ignore stale updates": nothing the backend sends takes a
\* transaction in the cache back to an earlier version (handle_swarm_message).
InboundKeepsVersion ==
  [][Inbound => \A p \in Kept : MultiId(p[1].tx) = MultiId(p[2].tx)
                              => p[2].tx.version >= p[1].tx.version]_nodeVars

\* "Guard: ignore if already reverted": no call confirms a transaction that is
\* reverted in the cache (sender_confirm).
NoConfirmAfterRevert ==
  [][\A p \in Kept : IsReverted(p[1].tx)
                       => p[2].tx.status # "SenderConfirmed"]_nodeVars
=============================================================================
