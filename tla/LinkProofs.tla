----------------------------- MODULE LinkProofs -----------------------------
(***************************************************************************)
(* Proof that the connection's task of a node, with the channel behind it, *)
(* keeps the promise of EventStream to the swarm handler, for any sizes of *)
(* the channels, any events and any number of them, and that the           *)
(* application is notified of an event before the handler gets it.         *)
(***************************************************************************)
EXTENDS NodeLink, FoldProofs

\* The inductive invariant: types; before the connection there is no event and
\* nothing was passed on; and the event the loop is about to send is the one it
\* read last, which is the handler's when it is about to be forwarded.
BeforeConnection ==
  loop.pc \in {"absent", "starting"} =>
    loop.read = 0 /\ published = <<>> /\ handled = <<>> /\ swarmq = <<>>
InLoopsHand ==
  /\ loop.pc \in {"notify", "forward"} => loop.read >= 1
  /\ loop.pc = "forward" => Forwarded(Current)
LinkInv == LinkTypeOK /\ BeforeConnection /\ InLoopsHand

\* A node that has just started satisfies the invariant.
LEMMA LinkInvInit == LinkInit => LinkInv
<1> SUFFICES ASSUME LinkInit PROVE LinkInv
  OBVIOUS
<1>1. ConnectionType /\ ChannelTypes
  BY LinkAssumption DEF LinkInit, ConnectionType, ChannelTypes
<1>2. TaskTypes
  BY LinkAssumption DEF LinkInit, TaskTypes
<1>3. FlagTypes
  BY DEF LinkInit, FlagTypes
<1>4. BeforeConnection /\ InLoopsHand
  BY DEF LinkInit, BeforeConnection, InLoopsHand
<1>5. QED
  BY <1>1, <1>2, <1>3, <1>4 DEF LinkInv, LinkTypeOK

\* A step of the loop changes its own state and the channels it sends on or
\* takes a command from.
LEMMA LoopKeepsInv == ASSUME LinkInv, LoopStep PROVE LinkInv'
<1>0. ConnectionType /\ ChannelTypes /\ TaskTypes /\ FlagTypes
      /\ BeforeConnection /\ InLoopsHand
  BY DEF LinkInv, LinkTypeOK
<1>a. UNCHANGED connectionFrame /\ published' = published /\ ended' = ended
  BY DEF LoopStep, StartSucceeds, StartFails, ReadItem, PauseEnds, Notify,
         Forward, LoopEnds, TakeCommand, connection
<1>b. commands' \in 0..CommandCap
  BY <1>0, LinkAssumption
  DEF LoopStep, StartSucceeds, StartFails, ReadItem, PauseEnds, Notify,
      Forward, LoopEnds, TakeCommand, TaskTypes
<1>c. TaskTypes'
  BY <1>0, <1>a, <1>b DEF TaskTypes, connectionFrame, apiCalls
<1>d. FlagTypes'
  BY <1>0, <1>a DEF FlagTypes, connectionFrame, apiCalls, trapped
<1>1. CASE StartSucceeds \/ StartFails \/ LoopEnds \/ PauseEnds
  <2>1. /\ notifq' = notifq /\ swarmq' = swarmq
        /\ loop'.pc \in {"select", "over"} /\ loop'.read = loop.read
        /\ loop' \in [pc : {"select", "over"}, read : Nat]
    BY <1>0, <1>1 DEF StartSucceeds, StartFails, LoopEnds, PauseEnds,
                      ConnectionType
  <2>2. ConnectionType' /\ ChannelTypes' /\ BeforeConnection' /\ InLoopsHand'
    BY <1>0, <1>a, <2>1
    DEF ConnectionType, ChannelTypes, BeforeConnection, InLoopsHand,
        connectionFrame
  <2>3. QED
    BY <1>c, <1>d, <2>2 DEF LinkInv, LinkTypeOK
<1>2. CASE ReadItem
  <2>1. /\ notifq' = notifq /\ swarmq' = swarmq
        /\ loop' \in [pc : {"pause", "notify"}, read : Nat]
        /\ loop'.read = loop.read + 1 /\ loop'.read <= Len(published)
    BY <1>0, <1>2 DEF ReadItem, ConnectionType
  <2>2. ConnectionType' /\ ChannelTypes' /\ BeforeConnection' /\ InLoopsHand'
    BY <1>0, <1>a, <2>1
    DEF ConnectionType, ChannelTypes, BeforeConnection, InLoopsHand,
        connectionFrame
  <2>3. QED
    BY <1>c, <1>d, <2>2 DEF LinkInv, LinkTypeOK
<1>3. CASE Notify \/ Forward
  <2>0. loop.read \in 1..Len(published) /\ Current \in Events
    BY <1>0, <1>3 DEF Notify, Forward, ConnectionType, InLoopsHand, Current
  <2>1. /\ loop' \in [pc : {"forward", "select"}, read : Nat]
        /\ loop'.read = loop.read
        /\ loop'.pc = "forward" => Forwarded(Current)
    BY <1>0, <1>3 DEF Notify, Forward, ConnectionType
  <2>2. ConnectionType' /\ BeforeConnection' /\ InLoopsHand'
    BY <1>0, <1>a, <2>0, <2>1
    DEF ConnectionType, BeforeConnection, InLoopsHand, Current, Forwarded
  <2>3. ChannelTypes'
    <3>1. notified' = notified /\ handled' = handled
      BY <1>a DEF connectionFrame
    <3>2. {NotifCap, SwarmCap} \subseteq Nat
      BY LinkAssumption
    <3>3. CASE Notify
      BY <1>0, <2>0, <3>1, <3>2, <3>3 DEF Notify, ChannelTypes
    <3>4. CASE Forward
      BY <1>0, <2>0, <3>1, <3>2, <3>4 DEF Forward, ChannelTypes
    <3>5. QED
      BY <1>3, <3>3, <3>4
  <2>4. QED
    BY <1>c, <1>d, <2>2, <2>3 DEF LinkInv, LinkTypeOK
<1>4. CASE TakeCommand
  <2>1. /\ notifq' = notifq /\ swarmq' = swarmq /\ loop' = loop
    BY <1>4 DEF TakeCommand, connection
  <2>2. ConnectionType' /\ ChannelTypes' /\ BeforeConnection' /\ InLoopsHand'
    BY <1>0, <1>a, <2>1
    DEF ConnectionType, ChannelTypes, BeforeConnection, InLoopsHand, Current,
        Forwarded, connectionFrame
  <2>3. QED
    BY <1>c, <1>d, <2>2 DEF LinkInv, LinkTypeOK
<1>5. QED
  BY <1>1, <1>2, <1>3, <1>4 DEF LoopStep

\* What the environment adds to the subscription.
LEMMA SubscriptionKeepsInv ==
  ASSUME LinkInv, (\E e \in Events : Publish(e)) \/ SubscriptionEnds
  PROVE  LinkInv'
<1>0. ConnectionType /\ ChannelTypes /\ TaskTypes /\ FlagTypes
      /\ BeforeConnection /\ InLoopsHand
  BY DEF LinkInv, LinkTypeOK
<1>1. /\ UNCHANGED connectionFrame /\ loop' = loop
      /\ notifq' = notifq /\ swarmq' = swarmq /\ commands' = commands
      /\ ended' \in BOOLEAN
      /\ loop.pc \notin {"absent", "starting", "over"}
  BY <1>0 DEF Publish, SubscriptionEnds, FlagTypes
<1>2. /\ published' \in Seq(Events) /\ Len(published') >= Len(published)
      /\ \A i \in 1..Len(published) : published'[i] = published[i]
  BY <1>0 DEF Publish, SubscriptionEnds, ConnectionType
<1>3. ConnectionType' /\ BeforeConnection'
  BY <1>0, <1>1, <1>2 DEF ConnectionType, BeforeConnection
<1>4. InLoopsHand'
  BY <1>0, <1>1, <1>2 DEF ConnectionType, InLoopsHand, Current, Forwarded
<1>5. ChannelTypes' /\ TaskTypes'
  BY <1>0, <1>1 DEF ChannelTypes, TaskTypes, connectionFrame, apiCalls
<1>6. FlagTypes'
  BY <1>0, <1>1 DEF FlagTypes, connectionFrame, apiCalls, trapped
<1>7. QED
  BY <1>3, <1>4, <1>5, <1>6 DEF LinkInv, LinkTypeOK

\* The other tasks and the calls leave the loop and its subscription alone, and
\* of what was passed on they only move the first message from the channel to
\* the handler.
LEMMA OthersLeaveLoop ==
  ASSUME LinkInv,
         HandlerStep \/ DispatcherStep \/ CallGoesOn \/ FetchGoesOn \/ Watch
           \/ ApiCall
  PROVE  /\ UNCHANGED connection
         /\ \/ UNCHANGED <<swarmq, handled>>
            \/ /\ swarmq # <<>> /\ swarmq' = Tail(swarmq)
               /\ handled' = Append(handled, Head(swarmq))
<1>1. CASE HandlerStep
  BY <1>1 DEF HandlerStep, TakeMessage, MessageDone, HandlerSpins, messages
<1>2. CASE DispatcherStep
  BY <1>2 DEF DispatcherStep, TakeCall, SendCommand, CallDone, dispatcherFrame,
              messages
<1>3. CASE CallGoesOn \/ FetchGoesOn
  BY <1>3 DEF CallGoesOn, FetchGoesOn, callFrame, messages
<1>4. CASE Watch
  BY <1>4 DEF Watch, messages
<1>5. CASE ApiCall
  BY <1>5 DEF ApiCall, CallUser, CallFetch, WatchP2pNotifications,
              UnsubscribeWatchP2pNotifications, Panic, callFrame, messages
<1>6. QED
  BY <1>1, <1>2, <1>3, <1>4, <1>5

\* The steps that are not of the connection keep the types of its task.
LEMMA OthersKeepTaskTypes ==
  ASSUME LinkInv,
         HandlerStep \/ DispatcherStep \/ CallGoesOn \/ FetchGoesOn \/ Watch
           \/ ApiCall
  PROVE  TaskTypes' /\ FlagTypes'
<1>0. TaskTypes /\ FlagTypes
  BY DEF LinkInv, LinkTypeOK
<1>n. /\ CommandCap \in Nat \ {0} /\ UserCap \in Nat \ {0} /\ MaxFetches \in Nat
  BY LinkAssumption
<1>1. CASE HandlerStep \/ Watch
  <2>1. UNCHANGED <<dispatcher, commands, users, fetches, call, watcher, ended,
                    panicked>>
        /\ handler' \in BOOLEAN /\ frozen' \in BOOLEAN
    BY <1>0, <1>1 DEF HandlerStep, TakeMessage, MessageDone, HandlerSpins, Watch,
                messages, apiCalls, trapped, connection, FlagTypes
  <2>2. QED
    BY <1>0, <2>1 DEF TaskTypes, FlagTypes
<1>2. CASE DispatcherStep
  <2>1. FlagTypes'
    BY <1>0, <1>2 DEF DispatcherStep, TakeCall, SendCommand, CallDone,
                      dispatcherFrame, messages, trapped, connection, FlagTypes
  <2>2. fetches' = fetches
    BY <1>2 DEF DispatcherStep, TakeCall, SendCommand, CallDone, dispatcherFrame
  <2>3. CASE TakeCall
    <3>1. PICK n \in 0..2 : dispatcher' = [pc |-> "busy", left |-> n]
      BY <2>3 DEF TakeCall
    <3>2. TaskTypes'
      BY <1>0, <1>n, <2>2, <2>3, <3>1 DEF TakeCall, TaskTypes
    <3>3. QED
      BY <2>1, <3>2
  <2>4. CASE SendCommand
    <3>1. TaskTypes'
      BY <1>0, <1>n, <2>2, <2>4 DEF SendCommand, TaskTypes
    <3>2. QED
      BY <2>1, <3>1
  <2>5. CASE CallDone
    <3>1. TaskTypes'
      BY <1>0, <1>n, <2>2, <2>5 DEF CallDone, TaskTypes
    <3>2. QED
      BY <2>1, <3>1
  <2>6. QED
    BY <1>2, <2>3, <2>4, <2>5 DEF DispatcherStep
<1>3. CASE CallGoesOn \/ FetchGoesOn \/ ApiCall
  <2>1. dispatcher' = dispatcher /\ handler' = handler /\ ended' = ended
        /\ frozen' = frozen
    BY <1>3 DEF CallGoesOn, FetchGoesOn, ApiCall, CallUser, CallFetch,
                WatchP2pNotifications, UnsubscribeWatchP2pNotifications, Panic,
                callFrame, messages, connection
  <2>2. /\ commands' \in 0..CommandCap /\ users' \in 0..UserCap
        /\ fetches' \in 0..MaxFetches
    BY <1>0, <1>n, <1>3 DEF CallGoesOn, FetchGoesOn, ApiCall, CallUser,
        CallFetch, WatchP2pNotifications, UnsubscribeWatchP2pNotifications,
        Panic, TaskTypes, apiCalls
  <2>3. call' \in BOOLEAN /\ panicked' \in BOOLEAN
    <3>1. /\ call' = call \/ call' = FALSE \/ call' = (users >= UserCap)
          /\ panicked' = panicked \/ panicked' = TRUE
      BY <1>3, Zenon DEF CallGoesOn, FetchGoesOn, ApiCall, CallUser, CallFetch,
          WatchP2pNotifications, UnsubscribeWatchP2pNotifications, Panic,
          apiCalls
    <3>2. (users >= UserCap) \in BOOLEAN
      OBVIOUS
    <3>3. QED
      BY <1>0, <3>1, <3>2, Zenon DEF FlagTypes
  <2>4. watcher' \in [active : BOOLEAN, running : BOOLEAN]
    <3> DEFINE B == BOOLEAN
               T == TRUE
               F == FALSE
    <3>1. \/ watcher' = watcher
          \/ watcher' = [active |-> T, running |-> T]
          \/ watcher' = [watcher EXCEPT !.active = F]
      BY <1>3, Zenon DEF CallGoesOn, FetchGoesOn, ApiCall, CallUser, CallFetch,
          WatchP2pNotifications, UnsubscribeWatchP2pNotifications, Panic
    <3>2. watcher \in [active : B, running : B] /\ T \in B /\ F \in B
      BY <1>0 DEF FlagTypes
    <3> HIDE DEF B, T, F
    <3>3. watcher' \in [active : B, running : B]
      BY <3>1, <3>2
    <3>4. QED
      BY <3>3 DEF B
  <2>5. QED
    BY <1>0, <2>1, <2>2, <2>3, <2>4 DEF TaskTypes, FlagTypes
<1>4. QED
  BY <1>1, <1>2, <1>3

\* The steps that are not of the connection keep the invariant.
LEMMA OthersKeepInv ==
  ASSUME LinkInv,
         HandlerStep \/ DispatcherStep \/ CallGoesOn \/ FetchGoesOn \/ Watch
           \/ ApiCall
  PROVE  LinkInv'
<1>0. ConnectionType /\ ChannelTypes /\ BeforeConnection /\ InLoopsHand
  BY DEF LinkInv, LinkTypeOK
<1>1. UNCHANGED <<loop, published>>
  BY OthersLeaveLoop DEF connection
<1>2. ConnectionType' /\ InLoopsHand'
  BY <1>0, <1>1 DEF ConnectionType, InLoopsHand, Current, Forwarded
<1>3. BeforeConnection'
  BY <1>0, <1>1, OthersLeaveLoop DEF BeforeConnection
<1>4. swarmq' \in Seq(Events) /\ Len(swarmq') <= SwarmCap
      /\ handled' \in Seq(Events)
  <2>0. swarmq \in Seq(Events) /\ handled \in Seq(Events) /\ Len(swarmq) \in Nat
        /\ Len(swarmq) <= SwarmCap /\ SwarmCap \in Nat
    BY <1>0, LinkAssumption DEF ChannelTypes
  <2>1. CASE UNCHANGED <<swarmq, handled>>
    BY <2>0, <2>1
  <2>2. CASE /\ swarmq # <<>> /\ swarmq' = Tail(swarmq)
             /\ handled' = Append(handled, Head(swarmq))
    <3>1. Head(swarmq) \in Events /\ Len(swarmq') = Len(swarmq) - 1
          /\ swarmq' \in Seq(Events)
      BY <2>0, <2>2
    <3>2. QED
      BY <2>0, <2>2, <3>1
  <2>3. QED
    BY <2>1, <2>2, OthersLeaveLoop
<1>5. notifq' \in Seq(Events) /\ Len(notifq') <= NotifCap
      /\ notified' \in Seq(Events)
  <2>1. CASE UNCHANGED notifications
    BY <1>0, <2>1 DEF ChannelTypes, notifications
  <2>2. CASE Watch
    BY <1>0, <2>2, LinkAssumption DEF Watch, ChannelTypes
  <2>3. HandlerStep \/ DispatcherStep \/ CallGoesOn \/ FetchGoesOn \/ ApiCall
        => UNCHANGED notifications
    BY DEF HandlerStep, TakeMessage, MessageDone, HandlerSpins, DispatcherStep,
           TakeCall, SendCommand, CallDone, dispatcherFrame, CallGoesOn,
           FetchGoesOn, ApiCall, CallUser, CallFetch, WatchP2pNotifications,
           UnsubscribeWatchP2pNotifications, Panic, callFrame
  <2>4. QED
    BY <2>1, <2>2, <2>3
<1>6. QED
  BY <1>2, <1>3, <1>4, <1>5, OthersKeepTaskTypes
  DEF LinkInv, LinkTypeOK, ChannelTypes

\* Every step keeps the invariant.
LEMMA LinkInvStep == LinkInv /\ [LinkNext]_linkVars => LinkInv'
<1> SUFFICES ASSUME LinkInv, [LinkNext]_linkVars PROVE LinkInv'
  OBVIOUS
<1>1. CASE UNCHANGED linkVars
  BY <1>1 DEF linkVars, LinkInv, LinkTypeOK, ConnectionType, ChannelTypes,
              TaskTypes, FlagTypes, BeforeConnection, InLoopsHand, Current,
              Forwarded, connection, notifications, messages, apiCalls, trapped
<1>2. QED
  BY <1>1, LoopKeepsInv, SubscriptionKeepsInv, OthersKeepInv DEF LinkNext

\* Types of the node's channels: none holds more than its size, and the loop has
\* read no more than the subscription has yielded.
THEOREM LinkTypeCorrect == LinkSpec => []LinkTypeOK
<1>1. LinkInv => LinkTypeOK
  BY DEF LinkInv
<1>2. QED
  BY <1>1, LinkInvInit, LinkInvStep, PTL DEF LinkSpec

-----------------------------------------------------------------------------
(* The refinement *)

\* A step of the loop is a step of the reader, or none.
LEMMA LoopStepIsReaderStep ==
  ASSUME LinkInv, LinkInv', LoopStep
  PROVE  Link!StreamNext \/ UNCHANGED Link!streamVars
<1> DEFINE R == [r \in {Me} |-> LinkReader]
<1>0. /\ ConnectionType /\ ChannelTypes /\ BeforeConnection /\ InLoopsHand
      /\ loop.read \in Nat /\ Len(published) \in Nat
      /\ loop.read <= Len(published)
  BY DEF LinkInv, LinkTypeOK, ConnectionType
<1>f. published' = published /\ handled' = handled
  BY DEF LoopStep, StartSucceeds, StartFails, ReadItem, PauseEnds, Notify,
         Forward, LoopEnds, TakeCommand, connection, connectionFrame
<1>g. R' = [R EXCEPT ![Me] = LinkReader']
  OBVIOUS
<1>h. ASSUME LinkReader' = LinkReader PROVE UNCHANGED Link!streamVars
  BY <1>f, <1>h DEF Link!streamVars
<1>r. /\ R[Me].state = LinkReader.state /\ R[Me].pos = LinkReader.pos
      /\ R[Me].got = LinkReader.got
  OBVIOUS
<1> HIDE DEF R
<1>1. CASE StartSucceeds
  <2>1. /\ LinkReader.state = "waiting"
        /\ LinkReader' = [state |-> "open", got |-> <<>>, pos |-> Len(published)]
    BY <1>0, <1>f, <1>1 DEF StartSucceeds, LinkReader, BeforeConnection,
                            ConnectionType
  <2>2. Link!Open(Me)
    BY <1>f, <1>g, <1>r, <2>1 DEF Link!Open, R
  <2>3. QED
    BY <2>2 DEF Link!StreamNext
<1>2. CASE StartFails \/ LoopEnds
  <2>1. /\ loop.pc \in {"starting", "select"} /\ loop'.pc = "over"
        /\ loop'.read = loop.read /\ swarmq' = swarmq
    BY <1>0, <1>2 DEF StartFails, LoopEnds, ConnectionType
  <2>2. /\ LinkReader' = [ state |-> "over", got |-> LinkReader.got,
                           pos |-> LinkReader.pos ]
        /\ LinkReader.state # "over"
    BY <1>f, <2>1 DEF LinkReader
  <2>3. Link!Close(Me)
    BY <1>f, <1>g, <1>r, <2>2 DEF Link!Close, R
  <2>4. QED
    BY <2>3 DEF Link!StreamNext
<1>3. CASE PauseEnds \/ TakeCommand
  <2>1. LinkReader' = LinkReader
    BY <1>0, <1>f, <1>3 DEF PauseEnds, TakeCommand, LinkReader, ConnectionType,
                            connection
  <2>2. QED
    BY <1>h, <2>1
<1>4. CASE ReadItem
  <2> DEFINE n == loop.read + 1
  <2>1. /\ loop.pc = "select" /\ n \in 1..Len(published) /\ loop'.read = n
        /\ swarmq' = swarmq
        /\ loop'.pc = IF published[n].type = "error" THEN "pause" ELSE "notify"
    BY <1>0, <1>4 DEF ReadItem
  <2>2. /\ LinkReader.state = "open" /\ LinkReader.pos = loop.read
    BY <2>1 DEF LinkReader
  <2>3. CASE published[n].type # "error"
    <3>1. loop'.pc = "notify" /\ loop'.read - 1 = loop.read
      BY <1>0, <2>1, <2>3
    <3>2. LinkReader' = LinkReader
      BY <1>f, <2>1, <3>1 DEF LinkReader
    <3>3. QED
      BY <1>h, <3>2
  <2>4. CASE published[n].type = "error"
    <3>1. LinkReader' = [ state |-> "open", got |-> LinkReader.got,
                          pos |-> LinkReader.pos + 1 ]
      BY <1>0, <1>f, <2>1, <2>2, <2>4 DEF LinkReader
    <3>2. ~Forwarded(published[n])
      BY <2>4 DEF Forwarded
    <3>3. LinkReader.pos + 1 = n /\ LinkReader.pos < Len(published)
      BY <1>0, <2>1, <2>2
    <3>4. Link!Skip(Me)
      BY <1>f, <1>g, <1>r, <2>2, <3>1, <3>2, <3>3
      DEF Link!Skip, Link!HasNext, Link!NextEvent, WantedByHandler, R
    <3>5. QED
      BY <3>4 DEF Link!StreamNext
  <2>5. QED
    BY <2>3, <2>4
<1>5. CASE Notify \/ Forward
  <2>1. /\ loop.pc \in {"notify", "forward"} /\ loop.read \in 1..Len(published)
        /\ loop'.read = loop.read /\ Current = published[loop.read]
        /\ Current \in Events
    BY <1>0, <1>5 DEF Notify, Forward, InLoopsHand, Current, ConnectionType
  <2>2. /\ LinkReader.state = "open" /\ LinkReader.pos = loop.read - 1
        /\ LinkReader.got = handled \o swarmq
    BY <2>1 DEF LinkReader
  <2>3. /\ LinkReader.pos + 1 = loop.read /\ LinkReader.pos < Len(published)
    BY <1>0, <2>1, <2>2
  <2>4. CASE Notify /\ Forwarded(Current)
    <3>1. loop'.pc = "forward" /\ swarmq' = swarmq
      BY <1>0, <2>4 DEF Notify, ConnectionType
    <3>2. LinkReader' = LinkReader
      BY <1>f, <2>1, <3>1 DEF LinkReader
    <3>3. QED
      BY <1>h, <3>2
  <2>5. CASE Notify /\ ~Forwarded(Current)
    <3>1. loop'.pc = "select" /\ swarmq' = swarmq
      BY <1>0, <2>5 DEF Notify, ConnectionType
    <3>2. LinkReader' = [ state |-> "open", got |-> LinkReader.got,
                          pos |-> LinkReader.pos + 1 ]
      BY <1>f, <2>1, <2>2, <2>3, <3>1 DEF LinkReader
    <3>3. Link!Skip(Me)
      BY <1>f, <1>g, <1>r, <2>1, <2>2, <2>3, <2>5, <3>2
      DEF Link!Skip, Link!HasNext, Link!NextEvent, WantedByHandler, R
    <3>4. QED
      BY <3>3 DEF Link!StreamNext
  <2>6. CASE Forward
    <3>1. /\ loop'.pc = "select" /\ swarmq' = Append(swarmq, Current)
          /\ Forwarded(Current)
      BY <1>0, <2>6 DEF Forward, ConnectionType, InLoopsHand
    <3>2. handled \o Append(swarmq, Current) = Append(handled \o swarmq, Current)
      BY <1>0, <2>1 DEF ChannelTypes
    <3>3. LinkReader' = [ state |-> "open", pos |-> LinkReader.pos + 1,
                          got |-> Append(LinkReader.got, Current) ]
      BY <1>f, <2>1, <2>2, <2>3, <3>1, <3>2 DEF LinkReader
    <3>4. Link!Take(Me)
      BY <1>f, <1>g, <1>r, <2>1, <2>2, <2>3, <3>1, <3>3
      DEF Link!Take, Link!HasNext, Link!NextEvent, WantedByHandler, R
    <3>5. QED
      BY <3>4 DEF Link!StreamNext
  <2>7. QED
    BY <1>5, <2>4, <2>5, <2>6
<1>6. QED
  BY <1>1, <1>2, <1>3, <1>4, <1>5 DEF LoopStep

\* The swarm handler gets what EventStream promises: the events of the
\* subscription that concern the node, in order, each once and none left out,
\* however small the channels and whatever the other tasks do (p2p.rs, start).
THEOREM LinkIsAStream == LinkSpec => LinkImplementsStream
<1>1. LinkInit => Link!StreamInit
  BY DEF LinkInit, Link!StreamInit, LinkReader
<1>2. LinkInv /\ LinkInv' /\ [LinkNext]_linkVars
        => [Link!StreamNext]_Link!streamVars
  <2> SUFFICES ASSUME LinkInv, LinkInv', [LinkNext]_linkVars
               PROVE  Link!StreamNext \/ UNCHANGED Link!streamVars
    OBVIOUS
  <2>0. /\ published \in Seq(Events)
        /\ swarmq \in Seq(Events) /\ handled \in Seq(Events)
    BY DEF LinkInv, LinkTypeOK, ConnectionType, ChannelTypes
  <2>1. CASE LoopStep
    BY <2>1, LoopStepIsReaderStep
  <2>2. ASSUME NEW e \in Events, Publish(e) PROVE Link!StreamNext
    <3>1. /\ Len(published') = Len(published) + 1
          /\ \A i \in DOMAIN published : published'[i] = published[i]
          /\ LinkReader' = LinkReader
      BY <2>0, <2>2 DEF Publish, LinkReader, connectionFrame
    <3>2. Link!Publish
      BY <3>1 DEF Link!Publish
    <3>3. QED
      BY <3>2 DEF Link!StreamNext
  <2>3. CASE SubscriptionEnds \/ UNCHANGED linkVars
    BY <2>3 DEF SubscriptionEnds, linkVars, connection, messages,
                connectionFrame, Link!streamVars, LinkReader
  <2>4. CASE HandlerStep \/ DispatcherStep \/ CallGoesOn \/ FetchGoesOn
               \/ Watch \/ ApiCall
    <3>1. handled' \o swarmq' = handled \o swarmq
      BY <2>0, <2>4, OthersLeaveLoop, HeadMoves
    <3>2. published' = published /\ loop' = loop
      BY <2>4, OthersLeaveLoop DEF connection
    <3>3. QED
      BY <3>1, <3>2 DEF Link!streamVars, LinkReader
  <2>5. QED
    BY <2>1, <2>2, <2>3, <2>4 DEF LinkNext
<1>3. QED
  BY <1>1, <1>2, LinkInvInit, LinkInvStep, PTL
  DEF LinkSpec, LinkImplementsStream, Link!StreamSpec

-----------------------------------------------------------------------------
(* Notifications come first *)

\* How many of the items the loop has read are through: not the one it is about
\* to notify.
Done == IF loop.pc = "notify" THEN loop.read - 1 ELSE loop.read

\* The inductive invariant: the application was told exactly what the items that
\* are through decode to, and the handler was sent exactly its own of them,
\* except one that the loop is about to forward.
NotifyDecodes == loop.pc = "notify" => Current \in Decoded
ToldSoFar == Told = Keep(SubSeq(published, 1, Done), Decoded)
PassedSoFar ==
  IF loop.pc = "forward"
  THEN \E t \in Seq(Events) : /\ Told = Append(t, Current)
                              /\ Passed = Keep(t, ForHandler)
  ELSE Passed = Keep(Told, ForHandler)
OrderInv == LinkInv /\ NotifyDecodes /\ ToldSoFar /\ PassedSoFar

\* Nothing is told or passed on before the first item.
LEMMA OrderInit == LinkInit => OrderInv
<1> SUFFICES ASSUME LinkInit PROVE OrderInv
  OBVIOUS
<1>1. LinkInv
  BY LinkInvInit
<1>2. Told = <<>> /\ Passed = <<>> /\ Done = 0 /\ published = <<>>
      /\ loop.pc \notin {"notify", "forward"}
  BY DEF LinkInit, Told, Passed, Done
<1>3. SubSeq(published, 1, 0) = <<>>
  BY <1>2
<1>4. Keep(<<>>, Decoded) = <<>> /\ Keep(<<>>, ForHandler) = <<>>
  BY KeepAppend
<1>5. QED
  BY <1>1, <1>2, <1>3, <1>4
  DEF OrderInv, NotifyDecodes, ToldSoFar, PassedSoFar

\* Types of what the invariant speaks of.
LEMMA OrderTypes ==
  ASSUME OrderInv
  PROVE  /\ published \in Seq(Events) /\ Told \in Seq(Events)
         /\ Passed \in Seq(Events)
         /\ loop.read \in Nat /\ loop.read <= Len(published)
         /\ Done \in Nat /\ Done <= loop.read
         /\ loop.pc = "notify" => Done = loop.read - 1
         /\ loop.pc # "notify" => Done = loop.read
<1>1. ConnectionType /\ ChannelTypes /\ InLoopsHand
  BY DEF OrderInv, LinkInv, LinkTypeOK
<1>2. published \in Seq(Events) /\ loop.read \in Nat
      /\ loop.read <= Len(published)
  BY <1>1 DEF ConnectionType
<1>3. Told \in Seq(Events) /\ Passed \in Seq(Events)
  BY <1>1 DEF ChannelTypes, Told, Passed
<1>4. loop.pc = "notify" => loop.read >= 1
  BY <1>1 DEF InLoopsHand
<1>5. QED
  BY <1>2, <1>3, <1>4 DEF Done

\* A step that leaves the loop and what was told and passed on as they are, and
\* may add to the subscription.
LEMMA OrderFrame ==
  ASSUME OrderInv, LinkInv', Told' = Told, Passed' = Passed, loop' = loop,
         \/ published' = published
         \/ \E e \in Events : published' = Append(published, e)
  PROVE  OrderInv'
<1>1. Done' = Done
  BY DEF Done
<1>2. SubSeq(published', 1, Done) = SubSeq(published, 1, Done)
  <2>1. Done \in Nat /\ Done <= Len(published) /\ published \in Seq(Events)
    BY OrderTypes
  <2>2. ASSUME NEW e \in Events, published' = Append(published, e)
        PROVE  SubSeq(published', 1, Done) = SubSeq(published, 1, Done)
    BY <2>1, <2>2, SubSeqOfAppend
  <2>3. QED
    BY <2>2
<1>3. ToldSoFar'
  BY <1>1, <1>2 DEF OrderInv, ToldSoFar
<1>4. loop.pc \in {"notify", "forward"} => Current' = Current
  <2>1. SUFFICES ASSUME loop.pc \in {"notify", "forward"}
                 PROVE  published'[loop.read] = published[loop.read]
    BY DEF Current
  <2>2. loop.read \in 1..Len(published)
    BY <2>1, OrderTypes DEF OrderInv, LinkInv, InLoopsHand
  <2>3. published \in Seq(Events)
    BY OrderTypes
  <2>4. QED
    BY <2>2, <2>3
<1>5. NotifyDecodes'
  BY <1>4 DEF OrderInv, NotifyDecodes, Decoded
<1>6. PassedSoFar'
  BY <1>4 DEF OrderInv, PassedSoFar, ForHandler, Forwarded
<1>7. QED
  BY <1>3, <1>5, <1>6 DEF OrderInv

\* The other tasks only take what was sent from the channels.
LEMMA OthersKeepOrder ==
  ASSUME OrderInv, LinkInv',
         HandlerStep \/ DispatcherStep \/ CallGoesOn \/ FetchGoesOn \/ Watch
           \/ ApiCall
  PROVE  OrderInv'
<1>0. LinkInv
  BY DEF OrderInv
<1>1. /\ swarmq \in Seq(Events) /\ handled \in Seq(Events)
      /\ notifq \in Seq(Events) /\ notified \in Seq(Events)
  BY <1>0 DEF LinkInv, LinkTypeOK, ChannelTypes
<1>2. handled' \o swarmq' = handled \o swarmq
  BY <1>0, <1>1, OthersLeaveLoop, HeadMoves
<1>3. notified' \o notifq' = notified \o notifq
  <2>1. CASE Watch
    BY <1>1, <2>1, HeadMoves DEF Watch
  <2>2. CASE UNCHANGED notifications
    BY <2>2 DEF notifications
  <2>3. QED
    BY <2>1, <2>2 DEF HandlerStep, TakeMessage, MessageDone, HandlerSpins,
        DispatcherStep, TakeCall, SendCommand, CallDone, dispatcherFrame,
        CallGoesOn, FetchGoesOn, ApiCall, CallUser, CallFetch,
        WatchP2pNotifications, UnsubscribeWatchP2pNotifications, Panic,
        callFrame
<1>4. loop' = loop /\ published' = published
  BY <1>0, OthersLeaveLoop DEF connection
<1>5. Told' = Told /\ Passed' = Passed
  BY <1>2, <1>3 DEF Told, Passed
<1>6. QED
  BY <1>4, <1>5, OrderFrame

\* A step of the loop.
LEMMA LoopKeepsOrder ==
  ASSUME OrderInv, LinkInv', LoopStep
  PROVE  OrderInv'
<1> DEFINE r == loop.read
           first(k) == SubSeq(published, 1, k)
<1>0. /\ NotifyDecodes /\ ToldSoFar /\ PassedSoFar
      /\ ConnectionType /\ ChannelTypes /\ InLoopsHand
  BY DEF OrderInv, LinkInv, LinkTypeOK
<1>f. published' = published /\ handled' = handled /\ notified' = notified
  BY DEF LoopStep, StartSucceeds, StartFails, ReadItem, PauseEnds, Notify,
         Forward, LoopEnds, TakeCommand, connection, connectionFrame
<1>s. Decoded' = Decoded /\ ForHandler' = ForHandler
  BY DEF Decoded, ForHandler, Forwarded
<1>1. CASE StartSucceeds \/ StartFails \/ LoopEnds \/ PauseEnds \/ TakeCommand
  <2>1. /\ notifq' = notifq /\ swarmq' = swarmq /\ loop'.read = loop.read
        /\ loop.pc \notin {"notify", "forward"}
        /\ loop'.pc \notin {"notify", "forward"}
    BY <1>0, <1>1 DEF StartSucceeds, StartFails, LoopEnds, PauseEnds,
                      TakeCommand, connection, ConnectionType
  <2>2. Told' = Told /\ Passed' = Passed /\ Done' = Done
    BY <1>f, <2>1 DEF Told, Passed, Done
  <2>3. ToldSoFar' /\ PassedSoFar' /\ NotifyDecodes'
    BY <1>0, <1>f, <1>s, <2>1, <2>2 DEF ToldSoFar, PassedSoFar, NotifyDecodes
  <2>4. QED
    BY <2>3 DEF OrderInv
<1>2. CASE ReadItem
  <2>1. /\ notifq' = notifq /\ swarmq' = swarmq /\ loop.pc = "select"
        /\ loop'.read = r + 1 /\ r \in Nat /\ r + 1 <= Len(published)
        /\ loop'.pc = IF published[r + 1].type = "error"
                      THEN "pause" ELSE "notify"
    BY <1>0, <1>2 DEF ReadItem, ConnectionType
  <2>2. Told' = Told /\ Passed' = Passed /\ Done = r
    BY <1>f, <2>1 DEF Told, Passed, Done
  <2>3. PassedSoFar'
    BY <1>0, <1>s, <2>1, <2>2 DEF PassedSoFar
  <2>4. published \in Seq(Events) /\ published[r + 1] \in Events
    BY <1>0, <2>1 DEF ConnectionType
  <2>5. CASE published[r + 1].type # "error"
    <3>1. Done' = r /\ loop'.pc = "notify" /\ Current' = published[r + 1]
      BY <1>f, <2>1, <2>5 DEF Done, Current
    <3>2. NotifyDecodes'
      BY <1>s, <2>4, <2>5, <3>1 DEF NotifyDecodes, Decoded
    <3>3. ToldSoFar'
      BY <1>0, <1>f, <1>s, <2>2, <3>1 DEF ToldSoFar
    <3>4. QED
      BY <2>3, <3>2, <3>3 DEF OrderInv
  <2>6. CASE published[r + 1].type = "error"
    <3>1. Done' = r + 1 /\ loop'.pc = "pause"
      BY <2>1, <2>6 DEF Done
    <3>2. /\ first(r) \in Seq(Events)
          /\ first(r + 1) = Append(first(r), published[r + 1])
      <4> DEFINE k == r + 1
      <4>1. k \in Nat /\ 1 <= k /\ k <= Len(published) /\ k - 1 = r
        BY <2>1
      <4> HIDE DEF k
      <4>2. /\ SubSeq(published, 1, k - 1) \in Seq(Events)
            /\ SubSeq(published, 1, k)
                 = Append(SubSeq(published, 1, k - 1), published[k])
        BY <2>4, <4>1, SubSeqGrows
      <4>3. QED
        BY <4>1, <4>2 DEF k
    <3>3. Keep(first(r + 1), Decoded) = Keep(first(r), Decoded)
      <4>1. published[r + 1] \notin Decoded
        BY <2>6 DEF Decoded
      <4>2. QED
        BY <2>4, <3>2, <4>1, KeepOneMore
    <3>4. ToldSoFar'
      BY <1>0, <1>f, <1>s, <2>2, <3>1, <3>3 DEF ToldSoFar
    <3>5. NotifyDecodes'
      BY <3>1 DEF NotifyDecodes
    <3>6. QED
      BY <2>3, <3>4, <3>5 DEF OrderInv
  <2>7. QED
    BY <2>5, <2>6
<1>3. CASE Notify
  <2>1. /\ swarmq' = swarmq /\ notifq' = Append(notifq, Current)
        /\ loop.pc = "notify" /\ loop'.read = r
        /\ loop'.pc = IF Forwarded(Current) THEN "forward" ELSE "select"
    BY <1>0, <1>3 DEF Notify, ConnectionType
  <2>2. r \in 1..Len(published) /\ published \in Seq(Events)
    BY <1>0, <2>1 DEF ConnectionType, InLoopsHand
  <2>3. Current \in Events /\ Current \in Decoded /\ Current = published[r]
    BY <1>0, <2>1, <2>2 DEF Current, NotifyDecodes
  <2>4. /\ Told' = Append(Told, Current) /\ Passed' = Passed
        /\ Told \in Seq(Events)
    <3>1. notified \in Seq(Events) /\ notifq \in Seq(Events)
      BY <1>0 DEF ChannelTypes
    <3>2. notified \o Append(notifq, Current) = Append(notified \o notifq, Current)
      BY <2>3, <3>1
    <3>3. QED
      BY <1>f, <2>1, <3>1, <3>2 DEF Told, Passed
  <2>5. Done = r - 1 /\ Done' = r /\ Current' = Current
    BY <1>f, <2>1, <2>2 DEF Done, Current
  <2>6. /\ first(r - 1) \in Seq(Events)
        /\ first(r) = Append(first(r - 1), Current)
    <3>1. r \in Nat /\ 1 <= r /\ r <= Len(published) /\ published \in Seq(Events)
      BY <2>2
    <3> HIDE DEF r
    <3>2. /\ SubSeq(published, 1, r - 1) \in Seq(Events)
          /\ SubSeq(published, 1, r)
               = Append(SubSeq(published, 1, r - 1), published[r])
      BY <3>1, SubSeqGrows
    <3>3. /\ first(r - 1) \in Seq(Events)
          /\ first(r) = Append(first(r - 1), published[r])
      BY <3>2, Zenon
    <3> HIDE DEF first
    <3>4. QED
      BY <2>3, <3>3, Zenon
  <2>7. Keep(first(r), Decoded) = Append(Keep(first(r - 1), Decoded), Current)
    <3> DEFINE before == first(r - 1)
    <3>1. /\ before \in Seq(Events) /\ Current \in Events /\ Current \in Decoded
          /\ first(r) = Append(before, Current)
      BY <2>3, <2>6
    <3> HIDE DEF before, first
    <3>2. Keep(Append(before, Current), Decoded)
            = Append(Keep(before, Decoded), Current)
      BY <3>1, KeepOneMore
    <3>3. QED
      BY <3>1, <3>2, Zenon DEF before
  <2>8. ToldSoFar'
    BY <1>0, <1>f, <1>s, <2>4, <2>5, <2>7 DEF ToldSoFar
  <2>9. NotifyDecodes'
    BY <2>1 DEF NotifyDecodes
  <2>10. Passed = Keep(Told, ForHandler)
    BY <1>0, <2>1 DEF PassedSoFar
  <2>11. PassedSoFar'
    <3>1. CASE Forwarded(Current)
      BY <1>s, <2>1, <2>4, <2>5, <2>10, <3>1 DEF PassedSoFar
    <3>2. CASE ~Forwarded(Current)
      <4>1. Current \notin ForHandler
        BY <3>2 DEF ForHandler
      <4>2. Keep(Told', ForHandler) = Keep(Told, ForHandler)
        BY <2>3, <2>4, <4>1, KeepOneMore
      <4>3. QED
        BY <1>s, <2>1, <2>4, <2>10, <3>2, <4>2 DEF PassedSoFar
    <3>3. QED
      BY <3>1, <3>2
  <2>12. QED
    BY <2>8, <2>9, <2>11 DEF OrderInv
<1>4. CASE Forward
  <2>1. /\ notifq' = notifq /\ swarmq' = Append(swarmq, Current)
        /\ loop.pc = "forward" /\ loop'.pc = "select" /\ loop'.read = r
        /\ Forwarded(Current)
    BY <1>0, <1>4 DEF Forward, ConnectionType, InLoopsHand
  <2>2. Current \in ForHandler /\ Current \in Events
    BY <1>0, <2>1 DEF ConnectionType, InLoopsHand, Current, ForHandler
  <2>3. Told' = Told /\ Done' = Done /\ Passed' = Append(Passed, Current)
    <3>1. handled \in Seq(Events) /\ swarmq \in Seq(Events)
      BY <1>0 DEF ChannelTypes
    <3>2. handled \o Append(swarmq, Current) = Append(handled \o swarmq, Current)
      BY <2>2, <3>1
    <3>3. QED
      BY <1>f, <2>1, <3>2 DEF Told, Passed, Done
  <2>4. PICK t \in Seq(Events) : /\ Told = Append(t, Current)
                                 /\ Passed = Keep(t, ForHandler)
    BY <1>0, <2>1 DEF PassedSoFar
  <2>5. Keep(Told, ForHandler) = Append(Passed, Current)
    BY <2>2, <2>4, KeepOneMore
  <2>6. PassedSoFar' /\ NotifyDecodes'
    BY <1>s, <2>1, <2>3, <2>5 DEF PassedSoFar, NotifyDecodes
  <2>7. ToldSoFar'
    BY <1>0, <1>f, <1>s, <2>3 DEF ToldSoFar
  <2>8. QED
    BY <2>6, <2>7 DEF OrderInv
<1>5. QED
  BY <1>1, <1>2, <1>3, <1>4 DEF LoopStep

\* Every step keeps the order of the notifications.
LEMMA OrderStep == OrderInv /\ [LinkNext]_linkVars => OrderInv'
<1> SUFFICES ASSUME OrderInv, [LinkNext]_linkVars PROVE OrderInv'
  OBVIOUS
<1>0. LinkInv'
  BY LinkInvStep DEF OrderInv
<1>1. CASE UNCHANGED linkVars \/ SubscriptionEnds \/ \E e \in Events : Publish(e)
  <2>1. /\ loop' = loop /\ Told' = Told /\ Passed' = Passed
        /\ \/ published' = published
           \/ \E e \in Events : published' = Append(published, e)
    BY <1>1 DEF linkVars, connection, notifications, messages, Publish,
                SubscriptionEnds, connectionFrame, Told, Passed
  <2>2. QED
    BY <1>0, <2>1, OrderFrame
<1>2. QED
  BY <1>0, <1>1, LoopKeepsOrder, OthersKeepOrder DEF LinkNext

\* The application is notified of every event that decodes, in order, and the
\* handler never gets one that was not notified before, whatever the sizes of
\* the two channels and however long either reader lets the loop wait (p2p.rs,
\* start).
THEOREM NotificationsComeFirst == LinkSpec => []NotifiedFirst
<1>1. OrderInv => NotifiedFirst
  <2> SUFFICES ASSUME OrderInv PROVE NotifiedFirst
    OBVIOUS
  <2>1. Done \in 0..Len(published) /\ published \in Seq(Events)
        /\ Told \in Seq(Events)
    BY OrderTypes
  <2>2. IsPrefix(Told, Keep(published, Decoded))
    <3>1. IsPrefix(Keep(SubSeq(published, 1, Done), Decoded),
                   Keep(published, Decoded))
      BY <2>1, KeepPrefix
    <3>2. QED
      BY <3>1 DEF OrderInv, ToldSoFar
  <2>3. IsPrefix(Passed, Keep(Told, ForHandler))
    <3>1. CASE loop.pc = "forward"
      <4>1. PICK t \in Seq(Events) : /\ Told = Append(t, Current)
                                     /\ Passed = Keep(t, ForHandler)
        BY <3>1 DEF OrderInv, PassedSoFar
      <4>2. Current \in ForHandler /\ Current \in Events
        BY <3>1 DEF OrderInv, LinkInv, LinkTypeOK, ConnectionType, InLoopsHand,
                    Current, ForHandler
      <4>3. Keep(Told, ForHandler) = Append(Passed, Current)
            /\ Passed \in Seq(Events)
        BY <4>1, <4>2, KeepAppend DEF AddIf
      <4>4. Append(Passed, Current) = Passed \o <<Current>>
            /\ <<Current>> \in Seq(Events)
        BY <4>2, <4>3
      <4>5. QED
        BY <4>3, <4>4, ConcatPrefix
    <3>2. CASE loop.pc # "forward"
      <4>1. Passed = Keep(Told, ForHandler) /\ Passed \in Seq(Events)
        BY <3>2, OrderTypes DEF OrderInv, PassedSoFar
      <4>2. Passed \o <<>> = Passed /\ <<>> \in Seq(Events)
        BY <4>1
      <4>3. QED
        BY <4>1, <4>2, ConcatPrefix
    <3>3. QED
      BY <3>1, <3>2
  <2>4. QED
    BY <2>2, <2>3 DEF NotifiedFirst
<1>2. QED
  BY <1>1, OrderInit, OrderStep, PTL DEF LinkSpec
=============================================================================
