------------------------------ MODULE NodeLink ------------------------------
(***************************************************************************)
(* How the parts of a browser node are tied together: the task that reads  *)
(* the backend's events and takes the node's commands (p2p.rs, start), the *)
(* task behind it that handles swarm messages (lib.rs,                     *)
(* start_swarm_handler), the dispatcher, the watcher of notifications and  *)
(* the calls of the API (interface.rs): tasks of one thread that wait for  *)
(* each other on bounded channels.                                         *)
(*                                                                         *)
(* What the handler and the dispatcher do with a transaction is in module  *)
(* WasmNode, with the channel of updates and its watcher: here they are    *)
(* busy with a message for a while, and the dispatcher has a number of     *)
(* commands to send.  An event is its type and its parties, and of the     *)
(* command and the user channel only the number of messages matters.       *)
(***************************************************************************)
EXTENDS Lists

CONSTANTS
  Me,         \* the account the node was started with
  Events,     \* what the subscription may yield: records with a type, a sender
              \* and a receiver; the type of what does not decode is "error"
  NotifCap,   \* sizes of the channels: 20 for notifications,
  SwarmCap,   \* 256 for swarm messages,
  CommandCap, \* 10 for commands,
  UserCap,    \* 10 for calls
  MaxEvents,  \* bound: items the subscription yields
  MaxFetches  \* bound: fetches that wait at a time

ASSUME LinkAssumption ==
  /\ \A e \in Events : {"type", "sender", "receiver"} \subseteq DOMAIN e
  /\ {NotifCap, SwarmCap, CommandCap, UserCap} \subseteq Nat \ {0}
  /\ {MaxEvents, MaxFetches} \subseteq Nat

VARIABLES
  loop,       \* the connection's task: where it is, how many items it has read
  published,  \* the items the subscription yields, in order
  ended,      \* the subscription has ended
  notifq,     \* the notification channel
  notified,   \* history: what the p2p watcher took from it
  swarmq,     \* the swarm channel
  handled,    \* history: what the swarm handler took from it
  handler,    \* the swarm handler is busy with a message
  dispatcher, \* the dispatcher: where it is, commands it has still to send
  commands,   \* number of commands in their channel
  users,      \* number of calls in the user channel
  call,       \* a call waits for room in the user channel
  fetches,    \* number of fetches that wait for room in the command channel
  watcher,    \* the watcher of notifications: its flag and its task
  panicked,   \* a RefCell was borrowed twice
  frozen      \* a task keeps the thread for ever

connection == <<loop, published, ended>>
notifications == <<notifq, notified>>
messages == <<swarmq, handled, handler>>
apiCalls == <<users, call, fetches>>
trapped == <<panicked, frozen>>
linkVars ==
  <<connection, notifications, messages, dispatcher, commands, apiCalls,
    watcher, trapped>>

Runs == ~panicked /\ ~frozen
Panic ==
  /\ panicked' = TRUE
  /\ UNCHANGED <<connection, notifications, messages, dispatcher, commands,
                 apiCalls, watcher, frozen>>

-----------------------------------------------------------------------------
(* The connection's task *)

connectionFrame ==
  <<notified, handled, handler, dispatcher, apiCalls, watcher, trapped>>

\* start: build, then subscribe; the task of start_swarm_handler only logs the
\* failure of either, and drops the sender of the swarm channel.
StartSucceeds ==
  /\ Runs
  /\ loop.pc = "starting"
  /\ loop' = [loop EXCEPT !.pc = "select"]
  /\ UNCHANGED <<published, ended, notifq, swarmq, commands, connectionFrame>>
StartFails ==
  /\ Runs
  /\ loop.pc = "starting"
  /\ loop' = [loop EXCEPT !.pc = "over"]
  /\ UNCHANGED <<published, ended, notifq, swarmq, commands, connectionFrame>>

\* The backend and the network, at any time while the node is subscribed.
Publish(e) ==
  /\ loop.pc \notin {"absent", "starting", "over"}
  /\ ~ended /\ Len(published) < MaxEvents
  /\ published' = Append(published, e)
  /\ UNCHANGED <<loop, ended, notifq, swarmq, commands, connectionFrame>>
SubscriptionEnds ==
  /\ loop.pc \notin {"absent", "starting", "over"}
  /\ ~ended
  /\ ended' = TRUE
  /\ UNCHANGED <<loop, published, notifq, swarmq, commands, connectionFrame>>

\* Which events the loop passes on to the swarm handler.
Forwarded(e) ==
  \/ e.type = "SenderRequestHandled" /\ e.receiver = Me
  \/ e.type = "ReceiverResponseHandled" /\ e.sender = Me
  \/ e.type = "PendingTransactionsFetched"

Current == published[loop.read]

\* select!: the subscription yields an item.  After an error the loop pauses
\* for a second.
ReadItem ==
  /\ Runs
  /\ loop.pc = "select" /\ loop.read < Len(published)
  /\ loop' = [ pc |-> IF published[loop.read + 1].type = "error"
                      THEN "pause" ELSE "notify",
               read |-> loop.read + 1 ]
  /\ UNCHANGED <<published, ended, notifq, swarmq, commands, connectionFrame>>
PauseEnds ==
  /\ Runs
  /\ loop.pc = "pause"
  /\ loop' = [loop EXCEPT !.pc = "select"]
  /\ UNCHANGED <<published, ended, notifq, swarmq, commands, connectionFrame>>

\* Faulty variants: an event that finds the channel full is not notified; the
\* channel takes any number of events.
BugNotifyTries ==
  /\ Runs
  /\ loop.pc = "notify"
  /\ notifq' = IF Len(notifq) < NotifCap THEN Append(notifq, Current) ELSE notifq
  /\ loop' = [loop EXCEPT !.pc = IF Forwarded(Current) THEN "forward"
                                                       ELSE "select"]
  /\ UNCHANGED <<published, ended, swarmq, commands, connectionFrame>>
BugNotifyUnbounded ==
  /\ Runs
  /\ loop.pc = "notify"
  /\ notifq' = Append(notifq, Current)
  /\ loop' = [loop EXCEPT !.pc = IF Forwarded(Current) THEN "forward"
                                                       ELSE "select"]
  /\ UNCHANGED <<published, ended, swarmq, commands, connectionFrame>>

\* An event is first sent on the notification channel, whoever it is for.
Notify ==
  /\ Runs
  /\ loop.pc = "notify" /\ Len(notifq) < NotifCap
  /\ notifq' = Append(notifq, Current)
  /\ loop' = [loop EXCEPT !.pc = IF Forwarded(Current) THEN "forward"
                                                       ELSE "select"]
  /\ UNCHANGED <<published, ended, swarmq, commands, connectionFrame>>

\* Faulty variant: a message that finds the channel full is dropped.
BugForwardTries ==
  /\ Runs
  /\ loop.pc = "forward"
  /\ swarmq' = IF Len(swarmq) < SwarmCap THEN Append(swarmq, Current) ELSE swarmq
  /\ loop' = [loop EXCEPT !.pc = "select"]
  /\ UNCHANGED <<published, ended, notifq, commands, connectionFrame>>

Forward ==
  /\ Runs
  /\ loop.pc = "forward" /\ Len(swarmq) < SwarmCap
  /\ swarmq' = Append(swarmq, Current)
  /\ loop' = [loop EXCEPT !.pc = "select"]
  /\ UNCHANGED <<published, ended, notifq, commands, connectionFrame>>

\* The subscription yields nothing any more: the task ends, and the sender of
\* the swarm channel, which it alone holds, is dropped.
LoopEnds ==
  /\ Runs
  /\ loop.pc = "select" /\ ended /\ loop.read = Len(published)
  /\ loop' = [loop EXCEPT !.pc = "over"]
  /\ UNCHANGED <<published, ended, notifq, swarmq, commands, connectionFrame>>

\* select!: a command is taken and made a request in a task of its own, in
\* which the loop has no part any more (module WasmNode, Arrival).
TakeCommand ==
  /\ Runs
  /\ loop.pc = "select" /\ commands > 0
  /\ commands' = commands - 1
  /\ UNCHANGED <<connection, notifq, swarmq, connectionFrame>>

-----------------------------------------------------------------------------
(* The swarm handler and the dispatcher *)

TakeMessage ==
  /\ Runs
  /\ ~handler /\ swarmq # <<>>
  /\ swarmq' = Tail(swarmq)
  /\ handled' = Append(handled, Head(swarmq))
  /\ handler' = TRUE
  /\ UNCHANGED <<connection, notifications, dispatcher, commands, apiCalls,
                 watcher, trapped>>

\* An error of handle_swarm_message is only logged.
MessageDone ==
  /\ Runs
  /\ handler
  /\ handler' = FALSE
  /\ UNCHANGED <<connection, notifications, swarmq, handled, dispatcher,
                 commands, apiCalls, watcher, trapped>>

\* Once the channel is closed and empty, recv() returns None at once, time and
\* again: loop { while let Some(..) = recv().await {..} } never gives the
\* thread back.
HandlerSpins ==
  /\ Runs
  /\ ~handler /\ swarmq = <<>> /\ loop.pc = "over"
  /\ frozen' = TRUE
  /\ UNCHANGED <<connection, notifications, messages, dispatcher, commands,
                 apiCalls, watcher, panicked>>

dispatcherFrame ==
  <<connection, notifications, messages, call, fetches, watcher, trapped>>

\* A call has the dispatcher send no command (both parties are the user's),
\* one (a request, a response, the outcome of a submission) or two (a revert
\* and a close).
TakeCall ==
  /\ Runs
  /\ dispatcher.pc = "idle" /\ users > 0
  /\ users' = users - 1
  /\ \E n \in 0..2 : dispatcher' = [pc |-> "busy", left |-> n]
  /\ UNCHANGED <<commands, dispatcherFrame>>

\* command_tx.send(command).await
SendCommand ==
  /\ Runs
  /\ dispatcher.left > 0 /\ commands < CommandCap
  /\ commands' = commands + 1
  /\ dispatcher' = [dispatcher EXCEPT !.left = @ - 1]
  /\ UNCHANGED <<users, dispatcherFrame>>

\* The next call is taken, unless an error leaves the dispatcher's loop.
CallDone ==
  /\ Runs
  /\ dispatcher.pc = "busy" /\ dispatcher.left = 0
  /\ \E pc \in {"idle", "dead"} : dispatcher' = [pc |-> pc, left |-> 0]
  /\ UNCHANGED <<users, commands, dispatcherFrame>>

-----------------------------------------------------------------------------
(* The calls of the API *)

callFrame == <<connection, notifications, messages, dispatcher, frozen>>

\* initiateTransaction, senderConfirm, receiverConfirm, revertTransaction: the
\* sender of the user channel is borrowed until the send is through.
CallUser ==
  /\ Runs
  /\ \/ /\ call
        /\ Panic
     \/ /\ ~call
        /\ users' = IF users < UserCap THEN users + 1 ELSE users
        /\ call' = (users >= UserCap)
        /\ UNCHANGED <<commands, fetches, watcher, panicked, callFrame>>
CallGoesOn ==
  /\ Runs
  /\ call /\ users < UserCap
  /\ users' = users + 1
  /\ call' = FALSE
  /\ UNCHANGED <<commands, fetches, watcher, panicked, callFrame>>

\* fetchPendingTransactions sends its command itself, with no borrow.
CallFetch ==
  /\ Runs
  /\ fetches < MaxFetches
  /\ commands' = IF commands < CommandCap THEN commands + 1 ELSE commands
  /\ fetches' = IF commands < CommandCap THEN fetches ELSE fetches + 1
  /\ UNCHANGED <<users, call, watcher, panicked, callFrame>>
FetchGoesOn ==
  /\ Runs
  /\ fetches > 0 /\ commands < CommandCap
  /\ commands' = commands + 1
  /\ fetches' = fetches - 1
  /\ UNCHANGED <<users, call, watcher, panicked, callFrame>>

\* watchP2pNotifications: a callback more; a flag that is down starts a task,
\* which panics if an earlier one still holds the receiving end.
WatchP2pNotifications ==
  /\ Runs
  /\ ~watcher.active
  /\ \/ /\ watcher.running
        /\ Panic
     \/ /\ ~watcher.running
        /\ watcher' = [active |-> TRUE, running |-> TRUE]
        /\ UNCHANGED <<commands, apiCalls, panicked, callFrame>>

\* The flag goes down and the callbacks go; the task keeps running.
UnsubscribeWatchP2pNotifications ==
  /\ Runs
  /\ watcher' = [watcher EXCEPT !.active = FALSE]
  /\ UNCHANGED <<commands, apiCalls, panicked, callFrame>>

\* Faulty variant: the task takes nothing while the flag is down.
BugWatchStops ==
  /\ Runs
  /\ watcher.active /\ notifq # <<>>
  /\ notifq' = Tail(notifq)
  /\ notified' = Append(notified, Head(notifq))
  /\ UNCHANGED <<connection, messages, dispatcher, commands, apiCalls, watcher,
                 trapped>>

\* The watcher's task takes an event and gives it to the callbacks there are.
Watch ==
  /\ Runs
  /\ watcher.running /\ notifq # <<>>
  /\ notifq' = Tail(notifq)
  /\ notified' = Append(notified, Head(notifq))
  /\ UNCHANGED <<connection, messages, dispatcher, commands, apiCalls, watcher,
                 trapped>>

-----------------------------------------------------------------------------

\* run: with self_node set the connection is never started.
LinkInit ==
  /\ loop \in [pc : {"starting", "absent"}, read : {0}]
  /\ published = <<>> /\ ended = FALSE
  /\ notifq = <<>> /\ notified = <<>>
  /\ swarmq = <<>> /\ handled = <<>> /\ handler = FALSE
  /\ dispatcher = [pc |-> "idle", left |-> 0]
  /\ commands = 0 /\ users = 0 /\ call = FALSE /\ fetches = 0
  /\ watcher = [active |-> FALSE, running |-> FALSE]
  /\ panicked = FALSE /\ frozen = FALSE

LoopStep ==
  \/ StartSucceeds \/ StartFails \/ ReadItem \/ PauseEnds \/ Notify \/ Forward
  \/ LoopEnds \/ TakeCommand
HandlerStep == TakeMessage \/ MessageDone \/ HandlerSpins
DispatcherStep == TakeCall \/ SendCommand \/ CallDone

ApiCall ==
  \/ CallUser \/ CallFetch
  \/ WatchP2pNotifications \/ UnsubscribeWatchP2pNotifications

LinkNext ==
  \/ LoopStep \/ HandlerStep \/ DispatcherStep
  \/ CallGoesOn \/ FetchGoesOn \/ Watch
  \/ (\E e \in Events : Publish(e)) \/ SubscriptionEnds
  \/ ApiCall

LinkSpec == LinkInit /\ [][LinkNext]_linkVars

\* The browser's event loop polls every task that can go on, an attempt to
\* connect succeeds or fails, and the handling of a message ends (it does while
\* the application watches the updates: WasmNode, CallsAreHandled).  select!
\* chooses at random among the branches that are ready, and a channel gives
\* room to those who wait for it in turn: neither an event, a command nor a
\* sender is passed over for ever.
FairLink ==
  /\ LinkSpec
  /\ WF_linkVars(LoopStep) /\ SF_linkVars(ReadItem) /\ SF_linkVars(TakeCommand)
  /\ WF_linkVars(HandlerStep)
  /\ WF_linkVars(DispatcherStep) /\ SF_linkVars(SendCommand)
  /\ WF_linkVars(CallGoesOn) /\ SF_linkVars(FetchGoesOn)
  /\ WF_linkVars(Watch)

-----------------------------------------------------------------------------
(* Properties *)

ConnectionType ==
  /\ loop \in [ pc : { "absent", "starting", "select", "notify", "forward",
                       "pause", "over" }, read : Nat ]
  /\ published \in Seq(Events) /\ loop.read <= Len(published)
ChannelTypes ==
  /\ notifq \in Seq(Events) /\ Len(notifq) <= NotifCap
  /\ swarmq \in Seq(Events) /\ Len(swarmq) <= SwarmCap
  /\ notified \in Seq(Events) /\ handled \in Seq(Events)
TaskTypes ==
  /\ dispatcher \in [pc : {"idle", "busy", "dead"}, left : 0..2]
  /\ commands \in 0..CommandCap /\ users \in 0..UserCap
  /\ fetches \in 0..MaxFetches
FlagTypes ==
  /\ handler \in BOOLEAN /\ ended \in BOOLEAN /\ call \in BOOLEAN
  /\ panicked \in BOOLEAN /\ frozen \in BOOLEAN
  /\ watcher \in [active : BOOLEAN, running : BOOLEAN]

\* Type invariant: no channel holds more than its size, and the loop has read
\* no more than the subscription has yielded.
LinkTypeOK == ConnectionType /\ ChannelTypes /\ TaskTypes /\ FlagTypes

Told == notified \o notifq    \* what was sent on the notification channel,
Passed == handled \o swarmq   \* and on the swarm channel
Decoded == {e \in Events : e.type # "error"}
ForHandler == {e \in Events : Forwarded(e)}

\* The application is notified of every event, in order, before the node acts
\* on it: what the handler was sent is, up to the last event, what it is to be
\* sent of the events on the notification channel (p2p.rs, start).
NotifiedFirst ==
  /\ IsPrefix(Told, Keep(published, Decoded))
  /\ IsPrefix(Passed, Keep(Told, ForHandler))

\* The connection's task as the reader of the subscription, which gives the
\* handler what it sends on the swarm channel.
LinkReader ==
  [ state |-> CASE loop.pc \in {"absent", "starting"} -> "waiting"
                [] loop.pc = "over" -> "over"
                [] OTHER -> "open",
    pos |-> IF loop.pc \in {"notify", "forward"} THEN loop.read - 1
                                                 ELSE loop.read,
    got |-> handled \o swarmq ]
WantedByHandler(r, e) == Forwarded(e)

Link == INSTANCE EventStream WITH
          Readers <- {Me}, Wanted <- WantedByHandler,
          reader <- [r \in {Me} |-> LinkReader]

\* The connection's task with its channels keeps the promise of EventStream to
\* the swarm handler: what concerns the node, in order, each event once, none
\* left out however full the channels are, until the subscription ends.
LinkImplementsStream == Link!StreamSpec

Down == panicked \/ frozen \/ dispatcher.pc = "dead"

\* While the notifications are watched every event that the subscription yields
\* is read and handled, whatever calls come in meanwhile: no circle of waiting
\* tasks stops the loop for ever.
EventsAreHandled ==
  ((LinkReader.pos < Len(published) \/ swarmq # <<>>) /\ watcher.running)
    ~> (Down \/ (LinkReader.pos = Len(published) /\ swarmq = <<>>))

\* While they are watched, and the connection was started, every call that
\* waits for room in a channel goes on.
CallsReturn ==
  /\ (call /\ watcher.running /\ loop.pc # "absent") ~> (~call \/ Down)
  /\ (fetches > 0 /\ watcher.running /\ loop.pc # "absent")
       ~> (fetches = 0 \/ Down)

\* "The spawned tasks will continue running in the background" (lib.rs, run).
TasksContinue == ~frozen
=============================================================================
